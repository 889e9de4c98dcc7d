---- MODULE Dating_proofs ----
EXTENDS Dating, WellFoundedInduction, FiniteSetTheorems, TLAPS

\* A set of numbers has a least one, and if it is bounded a greatest one.
LEMMA Least ==
  ASSUME NEW S \in SUBSET Nat, S # {}
  PROVE  \E m \in S : \A n \in S : m <= n
<1> DEFINE R == OpToRel(<, Nat)
<1>1. IsWellFoundedOn(R, Nat)
  BY NatLessThanWellFounded
<1>2. \A a, b \in Nat : a < b => <<a, b>> \in R
  BY DEF OpToRel
<1> HIDE DEF R
<1>3. PICK m \in S : \A n \in S : ~ (<<n, m>> \in R)
  BY <1>1, WFMin
<1>4. \A n \in S : n \in Nat /\ m \in Nat /\ ~(n < m)
  BY <1>2, <1>3
<1>5. \A n \in S : m <= n
  BY <1>4
<1> QED
  BY <1>5

LEMMA Greatest ==
  ASSUME NEW k \in Nat, NEW S \in SUBSET (1 .. k), S # {}
  PROVE  \E m \in S : \A n \in S : m >= n
<1> DEFINE D == {k - n : n \in S}
<1>0. \A n \in S : n \in Nat /\ k - n \in Nat
  OBVIOUS
<1>1. D \in SUBSET Nat /\ D # {}
  BY <1>0
<1>2. PICK d \in D : \A e \in D : d <= e
  BY <1>1, Least
<1>3. PICK m \in S : d = k - m
  OBVIOUS
<1>4. \A n \in S : k - m <= k - n
  BY <1>2, <1>3
<1> QED
  BY <1>4

-----------------------------------------------------------------------------
\* Live Photo pairs

Pair(fs, a, b) == \/ ById(fs, a, b)
                  \/ ByStem(fs, a, b) /\ MayLink(fs, a, b)

\* The image that a stem's video belongs to is one of its images.
LEMMA BestIsOne ==
  ASSUME NEW fs, NEW k \in Nat, DOMAIN fs = 1 .. k,
         NEW imgs \in SUBSET (1 .. k), imgs # {}
  PROVE  Best(fs, imgs) \in imgs
<1> DEFINE heics == {i \in imgs : fs[i].kind = "heic"}
<1>1. CASE heics = {}
  <2>1. \E i \in imgs : \A j \in imgs : i <= j
    BY Least
  <2> QED
    BY <1>1, <2>1 DEF Best
<1>2. CASE heics # {}
  <2>1. heics \in SUBSET (1 .. k)
    OBVIOUS
  <2> HIDE DEF heics
  <2>2. \E i \in heics : \A j \in heics : i >= j
    BY <1>2, <2>1, Greatest
  <2>3. (CHOOSE i \in heics : \A j \in heics : i >= j) \in imgs
    BY <2>2 DEF heics
  <2> QED
    BY <1>2, <2>3 DEF Best, heics
<1> QED
  BY <1>1, <1>2

\* What a pair by stem is: an image and the only video of one stem.
LEMMA StemPair ==
  ASSUME NEW fs, NEW k \in Nat, DOMAIN fs = 1 .. k,
         NEW a \in 1 .. k, NEW b \in 1 .. k, ByStem(fs, a, b)
  PROVE  Opposite(fs, a, b) /\ fs[b].stem = fs[a].stem /\ ByStem(fs, b, a)
<1> DEFINE imgs == {i \in SameStem(fs, a) : ImageSide(fs[i].kind)}
           vids == {i \in SameStem(fs, a) : VideoSide(fs[i].kind)}
           m == Best(fs, imgs)
<1>1. imgs # {} /\ {a, b} = {m} \cup vids /\ a # b /\ Cardinality(vids) = 1
  BY DEF ByStem
<1>2. imgs \in SUBSET (1 .. k) /\ vids \in SUBSET (1 .. k)
  BY DEF SameStem
<1>3. m \in imgs
  BY <1>1, <1>2, BestIsOne
<1> HIDE DEF m
<1>4. (a = m /\ b \in vids) \/ (b = m /\ a \in vids)
  <2>1. (a = m \/ a \in vids) /\ (b = m \/ b \in vids) /\ m \in {a, b}
    BY <1>1
  <2> QED
    BY <1>1, <2>1
<1>5. fs[b].stem = fs[a].stem
  BY <1>3, <1>4 DEF SameStem
<1>6. Opposite(fs, a, b)
  BY <1>3, <1>4 DEF Opposite
<1>7. SameStem(fs, b) = SameStem(fs, a)
  BY <1>5 DEF SameStem
<1>8. ByStem(fs, b, a)
  BY <1>1, <1>7 DEF ByStem, m
<1> QED
  BY <1>5, <1>6, <1>8

LEMMA IdPair ==
  ASSUME NEW fs, NEW a \in DOMAIN fs, NEW b \in DOMAIN fs, ById(fs, a, b)
  PROVE  Opposite(fs, a, b) /\ ById(fs, b, a) /\ Linked(fs, a) /\ Linked(fs, b)
<1>1. fs[b].cid = fs[a].cid
  BY DEF ById
<1>2. Opposite(fs, a, b) /\ Opposite(fs, b, a)
  BY DEF ById, Opposite
<1>3. {b, a} = {a, b}
  OBVIOUS
<1>4. ById(fs, b, a)
  BY <1>1, <1>2, <1>3 DEF ById
<1> QED
  BY <1>2, <1>4 DEF Linked

LEMMA PairSymmetric ==
  ASSUME NEW fs, NEW k \in Nat, DOMAIN fs = 1 .. k,
         NEW a \in 1 .. k, NEW b \in 1 .. k, Pair(fs, a, b)
  PROVE  Pair(fs, b, a) /\ Opposite(fs, a, b)
<1>1. CASE ById(fs, a, b)
  BY <1>1, IdPair DEF Pair
<1>2. CASE ByStem(fs, a, b) /\ MayLink(fs, a, b)
  BY <1>2, StemPair DEF Pair, MayLink, Unlinked
<1> QED
  BY <1>1, <1>2 DEF Pair

LEMMA PairUnique ==
  ASSUME NEW fs, NEW k \in Nat, DOMAIN fs = 1 .. k,
         NEW a \in 1 .. k, NEW b \in 1 .. k, NEW c \in 1 .. k,
         Pair(fs, a, b), Pair(fs, a, c)
  PROVE  b = c
<1>1. CASE ById(fs, a, b) /\ ById(fs, a, c)
  <2>1. {a, b} = {a, c} /\ a # b /\ a # c
    BY <1>1 DEF ById
  <2> QED
    BY <2>1
<1>2. CASE ByStem(fs, a, b) /\ ByStem(fs, a, c)
  <2>1. {a, b} = {a, c} /\ a # b /\ a # c
    BY <1>2 DEF ByStem
  <2> QED
    BY <2>1
<1>3. ~(Linked(fs, a) /\ \E d \in 1 .. k : ByStem(fs, a, d) /\ MayLink(fs, a, d))
  BY DEF MayLink, Unlinked
<1> QED
  BY <1>1, <1>2, <1>3, IdPair DEF Pair

LEMMA PartnersPair ==
  ASSUME NEW fs, NEW k \in Nat, DOMAIN fs = 1 .. k, NEW a \in 1 .. k
  PROVE  LET b == Partners(fs)[a]
         IN /\ b \in (1 .. k) \cup {0}
            /\ b # 0 => Opposite(fs, a, b) /\ Partners(fs)[b] = a
<1> DEFINE p(x) == Partners(fs)[x]
<1>1. ASSUME NEW x \in 1 .. k
      PROVE  /\ p(x) = 0 \/ (p(x) \in 1 .. k /\ Pair(fs, x, p(x)))
             /\ \A y \in 1 .. k : Pair(fs, x, y) => p(x) # 0
  <2> DEFINE good == {y \in DOMAIN fs : \/ ById(fs, x, y)
                                        \/ ByStem(fs, x, y) /\ MayLink(fs, x, y)}
  <2>1. p(x) = IF good = {} THEN 0 ELSE CHOOSE y \in good : TRUE
    BY DEF Partners
  <2>2. good = {y \in 1 .. k : Pair(fs, x, y)}
    BY DEF Pair
  <2> HIDE DEF good, p
  <2>3. CASE good = {}
    BY <2>1, <2>2, <2>3
  <2>4. CASE good # {}
    <3>1. p(x) \in good
      BY <2>1, <2>4
    <3>2. p(x) \in 1 .. k /\ p(x) # 0 /\ Pair(fs, x, p(x))
      BY <2>2, <3>1
    <3> QED
      BY <3>2
  <2> QED
    BY <2>3, <2>4
<1> HIDE DEF p
<1>2. CASE p(a) = 0
  BY <1>2 DEF p
<1>3. CASE p(a) # 0
  <2>1. p(a) \in 1 .. k /\ Pair(fs, a, p(a))
    BY <1>1, <1>3
  <2>2. Pair(fs, p(a), a) /\ Opposite(fs, a, p(a))
    BY <2>1, PairSymmetric
  <2>3. p(p(a)) \in 1 .. k /\ Pair(fs, p(a), p(p(a)))
    BY <1>1, <2>1, <2>2
  <2>4. p(p(a)) = a
    BY <2>1, <2>2, <2>3, PairUnique
  <2> QED
    BY <2>1, <2>2, <2>4 DEF p
<1> QED
  BY <1>2, <1>3

-----------------------------------------------------------------------------
\* Dates

IsName(w, f) == w = When(f.name, None, "filename", "filename") /\ f.name \in Int

LEMMA ResolvedDate ==
  ASSUME NEW f, NEW e, NEW readable
  PROVE  LET w == Resolved(f, e, readable)
         IN IsWhen(w) /\ (w.source = "filename" => IsName(w, f))
<1>1. IsWhen(Undated) /\ Undated.source = "none" /\ ~Undated.ok
  BY DEF IsWhen, Undated
<1>2. ASSUME NEW at, NEW off, NEW source, NEW step
      PROVE  LET w == When(at, off, source, step) IN IsWhen(w) /\ w.source = source /\ w.ok
  BY DEF IsWhen, When
<1>3. ASSUME NEW x
      PROVE  LET w == FromSidecar(f.sc, x) IN IsWhen(w) /\ w.source \in {"none", "taken", "creation"}
  <2>1. \/ FromSidecar(f.sc, x) = Undated
        \/ \E at, off, step : \E source \in {"taken", "creation"} :
             FromSidecar(f.sc, x) = When(at, off, source, step)
    BY DEF FromSidecar
  <2> QED
    BY <1>1, <1>2, <2>1
<1>4. IsWhen(FromEmbedded(e)) /\ FromEmbedded(e).source \in {"none", "embedded"}
  BY <1>1, <1>2 DEF FromEmbedded
<1>5. LET w == FromFilename(f.name) IN IsWhen(w) /\ (w.source = "filename" => IsName(w, f))
  <2>1. CASE InBounds(f.name)
    <3>1. f.name \in Int
      BY <2>1, DateConstants DEF InBounds
    <3> QED
      BY <1>2, <2>1, <3>1 DEF FromFilename, IsName
  <2>2. CASE ~InBounds(f.name)
    BY <1>1, <2>2 DEF FromFilename
  <2> QED
    BY <2>1, <2>2
<1> DEFINE fn == FromFilename(f.name)
           s1 == FromSidecar(f.sc, e)
           s2 == FromSidecar(f.sc, NoTags)
           em == FromEmbedded(e)
<1>6. Resolved(f, e, readable) \in {Undated, s1, em, s2, fn}
  BY DEF Resolved, First
<1>7. IsWhen(s1) /\ s1.source # "filename" /\ IsWhen(s2) /\ s2.source # "filename"
  BY <1>3
<1> HIDE DEF fn, s1, s2, em
<1> QED
  BY <1>1, <1>4, <1>5, <1>6, <1>7 DEF fn, em

LEMMA SharedDate ==
  ASSUME NEW w, NEW other, IsWhen(w), IsWhen(other)
  PROVE  /\ IsWhen(Shared(w, other))
         /\ Shared(w, other).source = "filename" => Shared(w, other) = w
<1>1. CASE Weak(w) /\ ~Weak(other)
  <2>1. Shared(w, other) = [ok |-> other.ok, at |-> other.at, off |-> other.off,
                            source |-> "live", step |-> other.step]
    BY <1>1 DEF Shared, IsWhen
  <2> QED
    BY <2>1 DEF IsWhen
<1>2. CASE ~(Weak(w) /\ ~Weak(other))
  BY <1>2 DEF Shared
<1> QED
  BY <1>1, <1>2

LEMMA FallbackDate ==
  ASSUME NEW dates, NEW tz, NEW f \in DOMAIN dates, IsWhen(dates[f])
  PROVE  LET w == ApplyFallback(dates, tz)[f]
         IN /\ IsWhen(w) /\ w.source = dates[f].source
            /\ w.source = "filename" => w = dates[f]
<1> DEFINE w == ApplyFallback(dates, tz)[f]
<1>1. w = dates[f] \/ (NeedsZone(dates[f]) /\ \E off, step : w = WithZone(dates[f], off, step))
  BY DEF ApplyFallback
<1>2. NeedsZone(dates[f]) => dates[f].source # "filename"
  BY DEF NeedsZone, WallClock
<1> HIDE DEF w
<1>3. CASE w = dates[f]
  BY <1>3 DEF w
<1>4. CASE NeedsZone(dates[f]) /\ \E off, step : w = WithZone(dates[f], off, step)
  <2>1. PICK off, step : w = WithZone(dates[f], off, step)
    BY <1>4
  <2>2. IsWhen(w) /\ w.source = dates[f].source
    BY <2>1 DEF IsWhen, WithZone, When
  <2> QED
    BY <1>2, <1>4, <2>2 DEF w
<1> QED
  BY <1>1, <1>3, <1>4

\* A clock stays what it is when it is pinned.
LEMMA PinnedDate ==
  ASSUME NEW w, IsWhen(w), NEW tz \in Int \cup {None}
  PROVE  LET v == PinWallClock(w, tz)
         IN /\ IsWhen(v) /\ v.source = w.source
            /\ w.off = None /\ w.at \in Int => Local(v) = w.at
<1> DEFINE off == IF tz = None THEN 0 ELSE tz
<1>1. off \in Int /\ None \notin Int
  BY DateConstants
<1>2. CASE ~w.ok \/ w.off # None
  BY <1>2 DEF PinWallClock, Local
<1>3. CASE ~(~w.ok \/ w.off # None)
  <2>1. \E step : PinWallClock(w, tz) = When(w.at - off, off, w.source, step)
    BY <1>3 DEF PinWallClock
  <2>2. PICK step : PinWallClock(w, tz) = When(w.at - off, off, w.source, step)
    BY <2>1
  <2> HIDE DEF off
  <2>3. w.at \in Int => w.at - off + off = w.at
    BY <1>1
  <2> QED
    BY <1>1, <2>2, <2>3 DEF IsWhen, When, Local
<1> QED
  BY <1>2, <1>3

-----------------------------------------------------------------------------
\* The inductive invariant

LEMMA FilesAre ==
  ASSUME DatingInv
  PROVE  /\ Len(file) \in Nat /\ Files = 1 .. Len(file) /\ DOMAIN file = 1 .. Len(file)
         /\ zone \in Int \cup {None}
BY DatingConstants DEF DatingInv, TypeOK, Files

LEMMA DatingInitOK == Init => DatingInv
<1> SUFFICES ASSUME Init PROVE DatingInv
  OBVIOUS
<1>1. TypeOK
  <2>1. runs \in 0 .. MaxRuns /\ faults \in 0 .. MaxFaults
    BY DatingConstants DEF Init
  <2>2. live \in [Files -> Files \cup {0}]
    BY DEF Init
  <2>3. stage \in [Files -> {"none", "tagged", "placed"}]
    BY DEF Init
  <2> QED
    BY <2>1, <2>2, <2>3 DEF Init, TypeOK
<1>2. PairsMutual
  BY DEF Init, PairsMutual
<1>3. DOMAIN when = Files /\ \A f \in Files : when[f] = Undated
  BY DEF Init
<1>4. ASSUME NEW f \in Files PROVE IsWhen(when[f]) /\ Named(f)
  BY <1>3 DEF IsWhen, Undated, Named
<1> QED
  BY <1>1, <1>2, <1>3, <1>4 DEF DatingInv

LEMMA FaultTypes ==
  ASSUME DatingInv, NEW kind, Fault(kind)
  PROVE  faults' \in 0 .. MaxFaults
BY DatingConstants DEF Fault, DatingInv, TypeOK

\* Steps that leave the files, their dates and partners alone.
Still == UNCHANGED <<file, zone, when, live>>

LEMMA StillDates ==
  ASSUME DatingInv, Still, TypeOK',
         \/ phase' \notin {"pair", "zones", "tags", "place"}
         \/ phase' = phase \/ (phase = "tags" /\ phase' = "place")
  PROVE  DatingInv'
<1>1. Files' = Files /\ file' = file /\ when' = when /\ live' = live
  BY DEF Still, Files
<1>2. PairsMutual'
  BY <1>1 DEF DatingInv, PairsMutual
<1>3. ASSUME NEW f \in Files PROVE IsWhen(when'[f]) /\ Named(f)'
  BY <1>1 DEF DatingInv, Named
<1> QED
  BY <1>1, <1>2, <1>3 DEF DatingInv

LEMMA StartStep ==
  ASSUME DatingInv, Start
  PROVE  DatingInv'
<1>1. /\ file' = file /\ Files' = Files
      /\ live' = [f \in Files |-> 0] /\ when' = [f \in Files |-> Undated]
  BY DEF Start, Files
<1>2. TypeOK'
  BY <1>1, DatingConstants DEF Start, Goto, DatingInv, TypeOK
<1>3. PairsMutual'
  BY <1>1 DEF PairsMutual
<1>4. ASSUME NEW f \in Files PROVE IsWhen(when'[f]) /\ Named(f)'
  BY <1>1 DEF IsWhen, Undated, Named
<1> QED
  BY <1>1, <1>2, <1>3, <1>4 DEF DatingInv

LEMMA ReadStep ==
  ASSUME DatingInv, NEW failed \in SUBSET Files, ReadEmbedded(failed)
  PROVE  DatingInv'
<1>1. faults' \in 0 .. MaxFaults
  BY FaultTypes DEF ReadEmbedded, DatingInv, TypeOK
<1>2. TypeOK'
  BY <1>1 DEF ReadEmbedded, Goto, DatingInv, TypeOK, Files
<1> QED
  BY <1>2, StillDates DEF ReadEmbedded, Goto, Still

LEMMA ResolveStep ==
  ASSUME DatingInv, ResolveDates
  PROVE  DatingInv'
<1>1. /\ file' = file /\ Files' = Files /\ live' = live /\ phase' = "pair"
      /\ when' = [f \in Files |-> Resolved(file[f], emb[f], f \notin bad)]
  BY DEF ResolveDates, Goto, Files
<1>2. TypeOK'
  BY DEF ResolveDates, Goto, DatingInv, TypeOK, Files
<1>3. PairsMutual'
  BY <1>1 DEF DatingInv, PairsMutual
<1>4. ASSUME NEW f \in Files PROVE IsWhen(when'[f]) /\ Named(f)'
  <2>1. IsWhen(when'[f]) /\ (when'[f].source = "filename" => IsName(when'[f], file[f]))
    BY <1>1, ResolvedDate
  <2> QED
    BY <1>1, <2>1 DEF Named, IsName
<1> QED
  BY <1>1, <1>2, <1>3, <1>4 DEF DatingInv

LEMMA PairStep ==
  ASSUME DatingInv, PairLive
  PROVE  DatingInv'
<1> DEFINE ps == Partners(file)
<1>1. /\ file' = file /\ Files' = Files /\ phase = "pair" /\ phase' = "zones"
      /\ live' = ps /\ when' = Moments(when, ps)
  BY DEF PairLive, Goto, Files
<1>2. DOMAIN ps = Files /\ \A f \in Files : ps[f] \in Files \cup {0}
  BY FilesAre, PartnersPair DEF Partners, Files
<1>3. \A f \in Files : ps[f] # 0 => Opposite(file, f, ps[f]) /\ ps[ps[f]] = f
  BY FilesAre, PartnersPair
<1>4. ps = [f \in Files |-> ps[f]]
  BY DEF Partners, Files
<1> HIDE DEF ps
<1>5. TypeOK'
  <2>1. live' \in [Files -> Files \cup {0}]
    BY <1>1, <1>2, <1>4
  <2> QED
    BY <1>1, <2>1 DEF PairLive, Goto, DatingInv, TypeOK
<1>6. PairsMutual'
  BY <1>1, <1>3 DEF PairsMutual
<1>7. DOMAIN when' = Files
  BY <1>1 DEF Moments, DatingInv
<1>8. ASSUME NEW f \in Files PROVE IsWhen(when'[f]) /\ Named(f)'
  <2>1. when'[f] = IF ps[f] = 0 THEN when[f] ELSE Shared(when[f], when[ps[f]])
    BY <1>1 DEF Moments, DatingInv
  <2>2. IsWhen(when'[f]) /\ (when'[f].source = "filename" => when'[f] = when[f])
    <3>1. CASE ps[f] = 0
      BY <2>1, <3>1 DEF DatingInv
    <3>2. CASE ps[f] # 0
      BY <1>2, <2>1, <3>2, SharedDate DEF DatingInv
    <3> QED
      BY <3>1, <3>2
  <2> QED
    BY <1>1, <2>2 DEF DatingInv, Named
<1> QED
  BY <1>1, <1>5, <1>6, <1>7, <1>8 DEF DatingInv

LEMMA ZoneStep ==
  ASSUME DatingInv, Zone
  PROVE  DatingInv'
<1>1. /\ file' = file /\ Files' = Files /\ phase = "zones" /\ phase' = "tags"
      /\ live' = live /\ when' = ApplyZones(file, when, zone)
  BY DEF Zone, Goto, Files
<1>2. TypeOK'
  BY DEF Zone, Goto, ToTag, DatingInv, TypeOK, Files
<1>3. PairsMutual'
  BY <1>1 DEF DatingInv, PairsMutual
<1>4. DOMAIN when' = Files
  BY <1>1 DEF ApplyZones, DatingInv
<1>5. ASSUME NEW f \in Files PROVE IsWhen(when'[f]) /\ Named(f)'
  <2> DEFINE w == ApplyFallback(when, zone)[f]
  <2>1. when'[f] = IF VideoSide(file[f].kind) THEN PinWallClock(w, zone) ELSE w
    BY <1>1 DEF ApplyZones, DatingInv
  <2>2. /\ IsWhen(w) /\ w.source = when[f].source
        /\ w.source = "filename" => w = when[f]
    BY FallbackDate DEF DatingInv
  <2> HIDE DEF w
  <2>3. /\ IsWhen(when'[f]) /\ when'[f].source = w.source
        /\ w.off = None /\ w.at \in Int => Local(when'[f]) = w.at
    <3>1. CASE VideoSide(file[f].kind)
      BY <2>1, <2>2, <3>1, FilesAre, PinnedDate
    <3>2. CASE ~VideoSide(file[f].kind)
      BY <2>1, <2>2, <3>2 DEF Local
    <3> QED
      BY <3>1, <3>2
  <2>4. ASSUME when'[f].source = "filename"
        PROVE  file[f].name \in Int /\ Local(when'[f]) = file[f].name
    <3>1. w = When(file[f].name, None, "filename", "filename") /\ file[f].name \in Int
      BY <1>1, <2>2, <2>3, <2>4 DEF DatingInv, Named
    <3>2. w.off = None /\ w.at = file[f].name
      BY <3>1 DEF When
    <3> QED
      BY <2>3, <3>1, <3>2
  <2> QED
    BY <1>1, <2>3, <2>4 DEF Named
<1> QED
  BY <1>1, <1>2, <1>3, <1>4, <1>5 DEF DatingInv

LEMMA HandleStep ==
  ASSUME DatingInv, NEW f \in Files, Handle(f)
  PROVE  DatingInv'
<1>1. Still /\ phase' = phase /\ Files' = Files
  BY DEF Handle, WriteTags, NoTagsWritten, Place, Still, Files
<1>2. stage' \in [Files -> {"none", "tagged", "placed"}]
  BY DEF Handle, WriteTags, NoTagsWritten, Place, DatingInv, TypeOK
<1>3. faults' \in 0 .. MaxFaults
  BY FaultTypes DEF Handle, WriteTags, NoTagsWritten, Place, DatingInv, TypeOK
<1>4. todo' \subseteq Files /\ bad' \subseteq Files /\ wrong' \subseteq Files
  BY DEF Handle, WriteTags, NoTagsWritten, Place, DatingInv, TypeOK
<1>5. TypeOK'
  BY <1>1, <1>2, <1>3, <1>4
  DEF Handle, WriteTags, NoTagsWritten, Place, Still, DatingInv, TypeOK
<1> QED
  BY <1>1, <1>5, StillDates

LEMMA RestStep ==
  ASSUME DatingInv, TagsDone \/ Finish \/ Stop
  PROVE  DatingInv'
<1>1. /\ Still /\ Files' = Files /\ todo' \subseteq Files
      /\ phase' \in {"off", "place"} /\ (phase' = "place" => phase = "tags")
      /\ UNCHANGED <<stage, bad, wrong, runs>>
  BY DEF TagsDone, Finish, Stop, Goto, Still, Files
<1>2. faults' \in 0 .. MaxFaults
  BY FaultTypes DEF TagsDone, Finish, Stop, DatingInv, TypeOK
<1>3. settled' \in BOOLEAN
  BY DEF TagsDone, Finish, Stop, DatingInv, TypeOK
<1>4. TypeOK'
  BY <1>1, <1>2, <1>3 DEF Still, DatingInv, TypeOK
<1> QED
  BY <1>1, <1>4, StillDates

\* The types, and where a date from a name stands at each stage of a run.
THEOREM DatingInductive == Spec => []DatingInv
<1>1. ASSUME DatingInv, [Next]_vars PROVE DatingInv'
  <2>1. CASE UNCHANGED vars
    <3>1. TypeOK'
      BY <1>1, <2>1 DEF vars, run, DatingInv, TypeOK, Files
    <3> QED
      BY <1>1, <2>1, <3>1, StillDates DEF vars, run, Still
  <2>2. CASE Next
    BY <1>1, <2>2, StartStep, ReadStep, ResolveStep, PairStep, ZoneStep, HandleStep, RestStep
    DEF Next
  <2> QED
    BY <1>1, <2>1, <2>2
<1> QED
  BY DatingInitOK, <1>1, PTL DEF Spec

\* The types alone.
THEOREM DatingTypes == Spec => []TypeOK
<1>1. DatingInv => TypeOK
  BY DEF DatingInv
<1> QED
  BY DatingInductive, <1>1, PTL

\* Live Photo pairs are one to one, of an image and a video, in any library:
\* whatever identifiers and stems its files share.
THEOREM PairsOneToOne == Spec => []PairsMutual
<1>1. DatingInv => PairsMutual
  BY DEF DatingInv
<1> QED
  BY DatingInductive, <1>1, PTL

\* The clock in a file's name is the clock that is written and filed by, in any
\* library, with any other files beside it and any --default-tz.
THEOREM NameKept == Spec => []ClockKept
<1>1. DatingInv => ClockKept
  BY DEF DatingInv, ClockKept, Named
<1> QED
  BY DatingInductive, <1>1, PTL

-----------------------------------------------------------------------------
\* What a photo's tags give it when they are read again

LEMMA OffsetsAre ==
  /\ Offsets \subseteq Int /\ None \notin Int /\ None \notin Offsets /\ 0 \in Offsets
  /\ \A d : ValidOffset(d) <=> d \in Offsets
BY DateConstants DEF Offsets, ValidOffset

LEMMA BoundsAre ==
  ASSUME NEW t
  PROVE  /\ InBounds(t) => t \in Int /\ t # None
         /\ TakenInBounds(t) => t \in Int /\ t # None
BY DateConstants DEF InBounds, TakenInBounds

\* A file of a library.
Sane(x) ==
  /\ {x.clock, x.off, x.name, x.sc.taken, x.sc.creation, x.sc.zone} \subseteq Int \cup {None}
  /\ {x.off, x.sc.zone} \subseteq Offsets \cup {None}

\* The date of a sidecar, whatever the file's own tags are: its instant, the
\* zone if it has a position, or else an offset that the tags tell.
HasDate(sc) == TakenInBounds(sc.taken) \/ InBounds(sc.creation)
Moment(sc) == IF TakenInBounds(sc.taken) THEN sc.taken ELSE sc.creation
Origin(sc) == IF TakenInBounds(sc.taken) THEN "taken" ELSE "creation"

LEMMA SidecarDate ==
  ASSUME NEW sc, NEW e, sc.zone \in Offsets \cup {None}, Read(e)
  PROVE  LET w == FromSidecar(sc, e)
         IN /\ Moment(sc) \in Int \/ ~HasDate(sc)
            /\ ~HasDate(sc) => w = Undated
            /\ HasDate(sc) /\ sc.zone # None => w = When(Moment(sc), sc.zone, Origin(sc), "gps")
            /\ HasDate(sc) /\ sc.zone = None /\ e.off # None =>
                 w = When(Moment(sc), e.off, Origin(sc), "embedded-offset")
            /\ HasDate(sc) /\ sc.zone = None /\ e.off = None =>
                 \/ /\ e.dto # None /\ e.dto - Moment(sc) \in Offsets
                    /\ w = When(Moment(sc), e.dto - Moment(sc), Origin(sc), "dto-minus-utc")
                 \/ /\ ~(e.dto # None /\ e.dto - Moment(sc) \in Offsets)
                    /\ w = When(Moment(sc), None, Origin(sc), "")
<1>1. \A d : ValidOffset(d) <=> d \in Offsets
  BY OffsetsAre
<1>2. Moment(sc) \in Int \/ ~HasDate(sc)
  BY BoundsAre DEF HasDate, Moment
<1>3. e.off # None => ValidOffset(e.off)
  BY <1>1 DEF Read
<1>4. None \notin Offsets
  BY OffsetsAre
<1>5. ~ValidOffset(None)
  BY <1>1, <1>4
<1>6. CASE ~HasDate(sc)
  BY <1>2, <1>6 DEF HasDate, FromSidecar
<1>7. CASE HasDate(sc)
  <2>1. FromSidecar(sc, e) =
          IF sc.zone # None THEN When(Moment(sc), sc.zone, Origin(sc), "gps")
          ELSE IF ValidOffset(e.off) THEN When(Moment(sc), e.off, Origin(sc), "embedded-offset")
          ELSE IF e.dto # None /\ ValidOffset(e.dto - Moment(sc))
               THEN When(Moment(sc), e.dto - Moment(sc), Origin(sc), "dto-minus-utc")
          ELSE When(Moment(sc), None, Origin(sc), "")
    BY <1>7 DEF FromSidecar, HasDate, Moment, Origin
  <2> HIDE DEF Moment
  <2> QED
    BY <1>1, <1>2, <1>3, <1>5, <1>7, <2>1
<1> QED
  BY <1>6, <1>7

\* A date that is resolved has an instant, and an offset only if it is a real one.
LEMMA ResolvedTimed ==
  ASSUME NEW x, Sane(x), NEW e, Read(e), NEW readable
  PROVE  Timed(Resolved(x, e, readable))
<1> DEFINE ok(w) == w.at \in Int /\ w.off \in Offsets \cup {None} /\ w.ok \in BOOLEAN
<1>1. ok(Undated)
  BY DEF Undated
<1>2. ASSUME NEW at \in Int, NEW off \in Offsets \cup {None}, NEW source, NEW step
      PROVE  ok(When(at, off, source, step))
  BY DEF When
<1>3. Read(NoTags)
  BY DEF Read, NoTags
<1>4. ASSUME NEW y, Read(y) PROVE ok(FromSidecar(x.sc, y))
  <2>1. x.sc.zone \in Offsets \cup {None}
    BY DEF Sane
  <2>2. y.off \in Offsets \cup {None}
    BY <1>4 DEF Read
  <2> HIDE DEF ok
  <2> QED
    BY <1>1, <1>2, <1>4, <2>1, <2>2, SidecarDate
<1>5. ok(FromEmbedded(e))
  <2>1. InBounds(e.dto) /\ ValidOffset(e.off) => InstantOf(e) \in Int /\ e.off \in Offsets
    <3>1. ASSUME InBounds(e.dto), ValidOffset(e.off) PROVE e.dto - e.off \in Int /\ e.off \in Offsets
      <4>1. e.dto \in Int
        BY <3>1, BoundsAre
      <4>2. e.off \in Offsets
        BY <3>1, OffsetsAre
      <4>3. e.off \in Int
        BY <4>2, OffsetsAre
      <4> QED
        BY <4>1, <4>2, <4>3
    <3> QED
      BY <3>1 DEF InstantOf
  <2>2. InBounds(e.dto) => e.dto \in Int
    BY BoundsAre
  <2> HIDE DEF ok
  <2> QED
    BY <1>1, <1>2, <2>1, <2>2 DEF FromEmbedded
<1>6. ok(FromFilename(x.name))
  <2>1. InBounds(x.name) => x.name \in Int
    BY BoundsAre
  <2> HIDE DEF ok
  <2> QED
    BY <1>1, <1>2, <2>1 DEF FromFilename
<1>7. Resolved(x, e, readable) \in {Undated, FromSidecar(x.sc, e), FromEmbedded(e),
                                    FromSidecar(x.sc, NoTags), FromFilename(x.name)}
  BY DEF Resolved, First
<1>8. ok(FromSidecar(x.sc, e)) /\ ok(FromSidecar(x.sc, NoTags))
  BY <1>3, <1>4
<1>9. ok(Resolved(x, e, readable))
  BY <1>1, <1>5, <1>6, <1>7, <1>8
<1> QED
  BY <1>9 DEF Timed

\* What is read of a photo's tags, and of any file's.
IsPhoto(x) == x.kind \in {"jpeg", "heic"}

LEMMA ReadStill ==
  ASSUME NEW x, IsPhoto(x), NEW t, Tagged(t)
  PROVE  LET r == Reading(x, t)
         IN /\ r.dto = t.clock /\ r.off = t.off
            /\ t.clock = None => r.at = None
            /\ t.clock # None /\ t.off = None => r.at = t.clock
            /\ t.clock # None /\ t.off # None => r.at = t.clock - t.off
            /\ r.at # None => r.at \in Int /\ t.clock # None
<1>1. ~VideoSide(x.kind)
  BY DEF IsPhoto, VideoSide
<1>2. t.clock # None => Instant(t) \in Int
  BY OffsetsAre DEF Tagged, Instant
<1>3. CASE t.clock = None
  BY <1>1, <1>3 DEF Reading, ReadBack, NoTags
<1>4. CASE t.clock # None
  <2>1. Reading(x, t) = [dto |-> t.clock, off |-> t.off, at |-> Instant(t)]
    BY <1>1, <1>4 DEF Reading, ReadBack
  <2> QED
    BY <1>2, <1>4, <2>1 DEF Instant
<1> QED
  BY <1>3, <1>4

LEMMA ReadAny ==
  ASSUME NEW x, NEW t, Tagged(t)
  PROVE  Read(Reading(x, t))
<1>1. t.clock # None => Instant(t) \in Int
  BY OffsetsAre DEF Tagged, Instant
<1> QED
  BY <1>1 DEF Reading, ReadBack, NoTags, Read, Tagged

\* The four ways in which a readable photo gets its date.
LEMMA AgainIs ==
  ASSUME NEW x, IsPhoto(x), Sane(x), NEW t, Tagged(t)
  PROVE  LET w == Again(x, t)
         IN /\ HasDate(x.sc) => w = FromSidecar(x.sc, Reading(x, t)) /\ w.ok
            /\ ~HasDate(x.sc) /\ InBounds(t.clock) =>
                 w = IF t.off = None THEN When(t.clock, None, "embedded", "filename")
                     ELSE When(t.clock - t.off, t.off, "embedded", "embedded-offset")
            /\ ~HasDate(x.sc) /\ ~InBounds(t.clock) => w = FromFilename(x.name)
<1> DEFINE r == Reading(x, t)
           s == FromSidecar(x.sc, r)
           e == FromEmbedded(r)
           b == First(FromSidecar(x.sc, NoTags), FromFilename(x.name))
<1>1. r.dto = t.clock /\ r.off = t.off
  BY ReadStill
<1>2. Read(r) /\ Read(NoTags) /\ x.sc.zone \in Offsets \cup {None}
  BY ReadAny DEF Read, NoTags, Sane
<1>3. Again(x, t) = First(First(s, e), b)
  BY DEF Again, Resolved
<1>4. ~Undated.ok /\ \A at, off, source, step : When(at, off, source, step).ok
  BY DEF Undated, When
<1>5. /\ HasDate(x.sc) => s.ok
      /\ ~HasDate(x.sc) => s = Undated /\ FromSidecar(x.sc, NoTags) = Undated
  BY <1>2, <1>4, SidecarDate
<1>6. InBounds(t.clock) =>
        e = IF t.off = None THEN When(t.clock, None, "embedded", "filename")
            ELSE When(t.clock - t.off, t.off, "embedded", "embedded-offset")
  BY <1>1, OffsetsAre DEF FromEmbedded, InstantOf, Tagged
<1>7. ~InBounds(t.clock) => e = Undated
  BY <1>1 DEF FromEmbedded
<1> HIDE DEF r, s, e
<1>8. CASE HasDate(x.sc)
  BY <1>3, <1>5, <1>8 DEF First, s, r
<1>9. CASE ~HasDate(x.sc)
  <2>1. b = FromFilename(x.name)
    BY <1>4, <1>5, <1>9 DEF First
  <2>2. Again(x, t) = First(e, b)
    BY <1>3, <1>4, <1>5, <1>9 DEF First
  <2> HIDE DEF b
  <2>3. CASE InBounds(t.clock)
    <3>1. e.ok
      BY <1>4, <1>6, <2>3
    <3>2. Again(x, t) = e
      BY <2>2, <3>1 DEF First
    <3> QED
      BY <1>6, <1>9, <2>3, <3>2
  <2>4. CASE ~InBounds(t.clock)
    BY <1>4, <1>7, <1>9, <2>1, <2>2, <2>4 DEF First
  <2> QED
    BY <2>3, <2>4
<1> QED
  BY <1>8, <1>9

-----------------------------------------------------------------------------
\* What a run writes into a photo, and what a later one makes of it

\* A date that was given a zone, or needed none.
LEMMA ZonedIs ==
  ASSUME NEW b, b.ok, NEW w, ZonedFrom(b, w)
  PROVE  /\ w.ok /\ w.source = b.source /\ w.at = b.at
         /\ NeedsZone(b) => w.off \in Offsets
         /\ ~NeedsZone(b) => w = b
BY DEF ZonedFrom, WithZone, When

LEMMA NoZone ==
  ASSUME NEW b, ~b.ok, NEW w, ZonedFrom(b, w)
  PROVE  w = b
BY DEF ZonedFrom, NeedsZone

LEMMA NeedsZoneOf ==
  ASSUME NEW at, NEW off, NEW source, NEW step
  PROVE  NeedsZone(When(at, off, source, step)) <=>
           off = None /\ step # "filename" /\ source # "filename"
BY DEF NeedsZone, WallClock, When

\* ShouldWriteDates and Written, of a photo x with the tags t.
Writes(x, t, w) == w.ok /\ (Reading(x, t).at = None \/ Reading(x, t).at # w.at)
NewTags(x, t, w) ==
  IF Writes(x, t, w)
  THEN [t EXCEPT !.clock = Local(w), !.off = IF w.off = None THEN t.off ELSE w.off]
  ELSE t

\* A photo that is quiet is given its date as it is, and not written.
LEMMA QuietStays ==
  ASSUME NEW x, IsPhoto(x), Sane(x), NEW t, Tagged(t), Quiet(x, t),
         NEW w, ZonedFrom(Again(x, t), w)
  PROVE  w = Again(x, t) /\ ~Writes(x, t, w)
<1> DEFINE b == Again(x, t)
<1>1. Timed(b)
  BY ReadAny, ResolvedTimed DEF Again
<1>2. CASE b.ok
  <2>1. ~NeedsZone(b) /\ Reading(x, t).at = b.at
    BY <1>2 DEF Quiet
  <2>2. w = b
    BY <1>2, <2>1, ZonedIs
  <2>3. b.at # None
    BY <1>1, OffsetsAre DEF Timed
  <2> QED
    BY <2>1, <2>2, <2>3 DEF Writes
<1>3. CASE ~b.ok
  BY <1>3, NoZone DEF Writes
<1> QED
  BY <1>2, <1>3

\* A run that reads and tags a photo leaves it quiet, with the date it was given.
LEMMA TaggedQuiet ==
  ASSUME NEW x, IsPhoto(x), Sane(x), NEW t, Tagged(t), NEW w, ZonedFrom(Again(x, t), w)
  PROVE  LET u == NewTags(x, t, w)
         IN Tagged(u) /\ Quiet(x, u) /\ Agrees(x, u, w)
<1> DEFINE b == Again(x, t)
           r == Reading(x, t)
           u == NewTags(x, t, w)
           sc == x.sc
<1>0. sc.zone \in Offsets \cup {None} /\ Offsets \subseteq Int /\ None \notin Int
  BY OffsetsAre DEF Sane
<1>1. Timed(b) /\ Read(r)
  BY ReadAny, ResolvedTimed DEF Again
<1>2. /\ r.dto = t.clock /\ r.off = t.off
      /\ t.clock = None => r.at = None
      /\ t.clock # None /\ t.off = None => r.at = t.clock
      /\ t.clock # None /\ t.off # None => r.at = t.clock - t.off
      /\ t.clock \in Int \cup {None} /\ t.off \in Offsets \cup {None}
  BY ReadStill DEF Tagged
<1>3. ASSUME u = t, w = b, r.at = b.at \/ ~b.ok, ~NeedsZone(b)
      PROVE  Quiet(x, u) /\ Agrees(x, u, w)
  BY <1>3 DEF Quiet, Agrees
<1>4. CASE HasDate(sc)
  <2> DEFINE at == Moment(sc)
  <2>1. b = FromSidecar(sc, r) /\ b.ok /\ at \in Int
    BY <1>0, <1>1, <1>4, AgainIs, SidecarDate
  <2>2. /\ sc.zone # None => b = When(at, sc.zone, Origin(sc), "gps")
        /\ sc.zone = None /\ t.off # None => b = When(at, t.off, Origin(sc), "embedded-offset")
        /\ sc.zone = None /\ t.off = None =>
             \/ /\ t.clock # None /\ t.clock - at \in Offsets
                /\ b = When(at, t.clock - at, Origin(sc), "dto-minus-utc")
             \/ /\ ~(t.clock # None /\ t.clock - at \in Offsets)
                /\ b = When(at, None, Origin(sc), "")
    BY <1>0, <1>1, <1>2, <1>4, <2>1, SidecarDate
  <2>3. Origin(sc) \in {"taken", "creation"}
    BY DEF Origin
  <2> HIDE DEF at, b, r
  <2>4. /\ w.ok /\ w.at = at /\ w.source = Origin(sc) /\ w.off \in Offsets
        /\ sc.zone # None => w.off = sc.zone
        /\ w = b \/ (sc.zone = None /\ t.off = None /\ ~(t.clock # None /\ t.clock - at \in Offsets))
    <3>0. ZonedFrom(b, w)
      BY DEF b
    <3>1. w.ok /\ w.source = b.source /\ w.at = b.at /\ (NeedsZone(b) => w.off \in Offsets)
          /\ (~NeedsZone(b) => w = b)
      BY <2>1, <3>0, ZonedIs
    <3>2. b.at = at /\ b.source = Origin(sc)
      <4>1. \E off, step : b = When(at, off, Origin(sc), step)
        BY <2>2
      <4> QED
        BY <4>1 DEF When
    <3>3. CASE sc.zone # None
      <4>0. b = When(at, sc.zone, Origin(sc), "gps")
        BY <2>2, <3>3
      <4>1. ~NeedsZone(b) /\ b.off = sc.zone
        BY <3>3, <4>0, NeedsZoneOf DEF When
      <4> QED
        BY <1>0, <3>1, <3>2, <3>3, <4>1
    <3>4. CASE sc.zone = None /\ t.off # None
      <4>0. b = When(at, t.off, Origin(sc), "embedded-offset")
        BY <2>2, <3>4
      <4>1. ~NeedsZone(b) /\ b.off = t.off
        BY <3>4, <4>0, NeedsZoneOf DEF When
      <4> QED
        BY <1>2, <3>1, <3>2, <3>4, <4>1
    <3>5. CASE sc.zone = None /\ t.off = None /\ t.clock # None /\ t.clock - at \in Offsets
      <4>1. b = When(at, t.clock - at, Origin(sc), "dto-minus-utc")
        BY <2>2, <3>5
      <4>2. ~NeedsZone(b) /\ b.off = t.clock - at
        BY <1>0, <3>5, <4>1, NeedsZoneOf DEF When
      <4> QED
        BY <3>1, <3>2, <3>5, <4>2
    <3>6. CASE sc.zone = None /\ t.off = None /\ ~(t.clock # None /\ t.clock - at \in Offsets)
      <4>1. NeedsZone(b)
        BY <2>2, <2>3, <3>6, NeedsZoneOf
      <4> QED
        BY <3>1, <3>2, <3>6, <4>1
    <3> QED
      BY <3>3, <3>4, <3>5, <3>6
  <2>5. CASE Writes(x, t, w)
    <3> DEFINE c == at + w.off
    <3>1. u = [t EXCEPT !.clock = c, !.off = w.off]
      BY <1>0, <2>4, <2>5 DEF NewTags, Local
    <3>a. w.off \in Int /\ w.off # None
      BY <1>0, <2>4
    <3>b. c \in Int /\ c # None
      <4>1. c \in Int
        BY <2>1, <3>a
      <4> QED
        BY <1>0, <4>1
    <3>2. u.clock = c /\ u.off = w.off /\ Tagged(u) /\ c \in Int /\ c # None /\ w.off # None
      <4> HIDE DEF c, u
      <4>1. u = [clock |-> c, off |-> w.off, xmp |-> t.xmp]
        BY <3>1 DEF Tagged
      <4> QED
        BY <2>4, <3>a, <3>b, <4>1 DEF Tagged
    <3> HIDE DEF u, c
    <3>3. /\ Reading(x, u).at = c - w.off /\ Reading(x, u).off = w.off /\ Read(Reading(x, u))
          /\ Again(x, u) = FromSidecar(sc, Reading(x, u))
      BY <1>4, <3>2, ReadStill, ReadAny, AgainIs
    <3>4. c - w.off = at
      BY <2>1, <3>a DEF c
    <3>5. \E step \in {"gps", "embedded-offset"} : Again(x, u) = When(at, w.off, Origin(sc), step)
      BY <1>0, <1>4, <2>4, <3>2, <3>3, SidecarDate DEF at
    <3>6. Again(x, u).ok /\ Again(x, u).at = at /\ Again(x, u).off = w.off
          /\ ~NeedsZone(Again(x, u))
      BY <3>2, <3>5, NeedsZoneOf DEF When
    <3>7. Quiet(x, u)
      BY <3>3, <3>4, <3>6 DEF Quiet
    <3>8. Agrees(x, u, w)
      BY <2>3, <2>4, <3>6 DEF Agrees, Local
    <3> QED
      BY <3>2, <3>7, <3>8 DEF u
  <2>6. CASE ~Writes(x, t, w)
    <3>1. u = t
      BY <2>6 DEF NewTags
    <3>2. r.at = at /\ r.at # None
      BY <2>4, <2>6 DEF Writes, r
    <3>3. t.clock # None
      BY <1>2, <3>2
    <3>4. sc.zone = None /\ t.off = None => t.clock - at \in Offsets
      <4>1. SUFFICES ASSUME t.off = None PROVE t.clock - at = 0
        BY OffsetsAre
      <4> QED
        BY <1>2, <2>1, <3>2, <3>3, <4>1
    <3>5. w = b
      BY <2>4, <3>3, <3>4
    <3>6. b.off # None /\ b.at = at
      BY <1>0, <2>4, <3>5
    <3>7. ~NeedsZone(b)
      BY <3>6 DEF NeedsZone
    <3> QED
      BY <1>3, <3>1, <3>2, <3>5, <3>6, <3>7
  <2> QED
    BY <2>5, <2>6
<1>5. CASE ~HasDate(sc) /\ InBounds(t.clock)
  <2>1. t.clock \in Int /\ t.clock # None
    BY <1>5, BoundsAre
  <2>2. b = IF t.off = None THEN When(t.clock, None, "embedded", "filename")
            ELSE When(t.clock - t.off, t.off, "embedded", "embedded-offset")
    BY <1>5, AgainIs
  <2>3. r.at = b.at /\ r.at # None /\ ~NeedsZone(b) /\ b.ok
    <3>1. CASE t.off = None
      BY <1>2, <2>1, <2>2, <3>1, NeedsZoneOf DEF When
    <3>2. CASE t.off # None
      <4>1. t.clock - t.off \in Int
        BY <1>0, <1>2, <2>1, <3>2
      <4> QED
        BY <1>0, <1>2, <2>1, <2>2, <3>2, <4>1, NeedsZoneOf DEF When
    <3> QED
      BY <3>1, <3>2
  <2> HIDE DEF b
  <2>4. w = b
    BY <2>3, ZonedIs DEF b
  <2>5. u = t
    BY <2>3, <2>4 DEF NewTags, Writes
  <2> QED
    BY <1>3, <2>3, <2>4, <2>5
<1>6. CASE ~HasDate(sc) /\ ~InBounds(t.clock)
  <2>1. b = FromFilename(x.name)
    BY <1>6, AgainIs
  <2>2. CASE ~InBounds(x.name)
    <3>1. ~b.ok
      BY <2>1, <2>2 DEF FromFilename, Undated
    <3>2. w = b
      BY <3>1, NoZone
    <3>3. u = t /\ ~NeedsZone(b)
      BY <3>1, <3>2 DEF NewTags, Writes, NeedsZone
    <3> QED
      BY <1>3, <3>1, <3>2, <3>3
  <2>3. CASE InBounds(x.name)
    <3>1. b = When(x.name, None, "filename", "filename") /\ x.name \in Int /\ x.name # None
      BY <2>1, <2>3, BoundsAre DEF FromFilename
    <3>2. b.ok /\ ~NeedsZone(b) /\ b.at = x.name /\ b.off = None /\ b.source = "filename"
      BY <3>1, NeedsZoneOf DEF When
    <3> HIDE DEF b
    <3>3. w = b
      BY <3>2, ZonedIs DEF b
    <3>4. CASE ~Writes(x, t, w)
      <4>1. u = t /\ r.at = b.at
        BY <3>2, <3>3, <3>4 DEF NewTags, Writes
      <4> QED
        BY <1>3, <3>2, <3>3, <4>1
    <3>5. CASE Writes(x, t, w)
      <4>1. Local(w) = x.name /\ w.off = None
        BY <3>2, <3>3 DEF Local
      <4>2. u = [t EXCEPT !.clock = x.name]
        BY <3>5, <4>1 DEF NewTags, Tagged
      <4>3. u.clock = x.name /\ u.off = t.off /\ Tagged(u)
        BY <3>1, <4>2 DEF Tagged
      <4> HIDE DEF u
      <4>4. Again(x, u) = IF t.off = None THEN When(x.name, None, "embedded", "filename")
                          ELSE When(x.name - t.off, t.off, "embedded", "embedded-offset")
        BY <1>6, <2>3, <4>3, AgainIs
      <4>5. /\ t.off = None => Reading(x, u).at = x.name
            /\ t.off # None => Reading(x, u).at = x.name - t.off
        BY <3>1, <4>3, ReadStill
      <4>6. Again(x, u).ok /\ Again(x, u).at = Reading(x, u).at /\ ~NeedsZone(Again(x, u))
        BY <4>4, <4>5, NeedsZoneOf DEF When
      <4>7. Local(Again(x, u)) = x.name
        <5>1. CASE t.off = None
          BY <4>4, <5>1 DEF When, Local
        <5>2. CASE t.off # None
          <6>1. t.off \in Int
            BY <1>0, <1>2, <5>2
          <6>2. x.name - t.off + t.off = x.name
            BY <3>1, <6>1
          <6> QED
            BY <4>4, <5>2, <6>2 DEF When, Local
        <5> QED
          BY <5>1, <5>2
      <4>8. Quiet(x, u)
        BY <4>6 DEF Quiet
      <4>9. Agrees(x, u, w)
        BY <3>2, <3>3, <4>1, <4>6, <4>7 DEF Agrees
      <4> QED
        BY <4>3, <4>8, <4>9 DEF u
    <3> QED
      BY <3>4, <3>5
  <2> QED
    BY <2>2, <2>3
<1> QED
  BY <1>4, <1>5, <1>6

\* What verifyTags may report of a photo with the tags t and the date w.
Reports(t, w) == w.ok /\ w.source # "embedded" /\ (t.clock = None \/ Day(t.clock) # Day(Local(w)))

\* A date that comes from the photo itself is the clock in its tags.
LEMMA EmbeddedClock ==
  ASSUME NEW x, IsPhoto(x), Sane(x), NEW t, Tagged(t),
         Again(x, t).source = "embedded"
  PROVE  t.clock # None /\ Local(Again(x, t)) = t.clock
<1> DEFINE b == Again(x, t)
<1>0. Offsets \subseteq Int /\ None \notin Int
  BY OffsetsAre
<1>1. ~HasDate(x.sc) /\ InBounds(t.clock)
  <2>1. CASE HasDate(x.sc)
    <3>1. b = FromSidecar(x.sc, Reading(x, t)) /\ Read(Reading(x, t)) /\ x.sc.zone \in Offsets \cup {None}
      BY <2>1, AgainIs, ReadAny DEF Sane
    <3>2. \E at, off, step : b = When(at, off, Origin(x.sc), step)
      BY <2>1, <3>1, SidecarDate
    <3>3. b.source = Origin(x.sc)
      BY <3>2 DEF When
    <3> QED
      BY <3>3 DEF Origin
  <2>2. CASE ~HasDate(x.sc) /\ ~InBounds(t.clock)
    <3>1. b = FromFilename(x.name)
      BY <2>2, AgainIs
    <3>2. b.source \in {"none", "filename"}
      BY <3>1 DEF FromFilename, Undated, When
    <3> QED
      BY <3>2
  <2> QED
    BY <2>1, <2>2
<1>2. t.clock \in Int /\ t.clock # None
  BY <1>1, BoundsAre
<1>3. b = IF t.off = None THEN When(t.clock, None, "embedded", "filename")
          ELSE When(t.clock - t.off, t.off, "embedded", "embedded-offset")
  BY <1>1, AgainIs
<1>4. CASE t.off = None
  BY <1>2, <1>3, <1>4 DEF When, Local
<1>5. CASE t.off # None
  <2>1. t.off \in Int
    BY <1>0, <1>5 DEF Tagged
  <2>2. t.clock - t.off + t.off = t.clock
    BY <1>2, <2>1
  <2> QED
    BY <1>2, <1>3, <1>5, <2>2 DEF When, Local
<1> QED
  BY <1>4, <1>5

\* If the date agrees with the tags, nothing is reported just if nothing is to be.
LEMMA AgreedReport ==
  ASSUME NEW x, IsPhoto(x), Sane(x), NEW t, Tagged(t), NEW w, Agrees(x, t, w)
  PROVE  Reports(t, w) <=> ~SameDay(t, Again(x, t))
<1> DEFINE b == Again(x, t)
<1>1. b.source = "embedded" => t.clock # None /\ Local(b) = t.clock
  BY EmbeddedClock
<1>2. (w.ok <=> b.ok) \/ ~(w.ok \in BOOLEAN /\ b.ok \in BOOLEAN)
  BY DEF Agrees
<1>3. w.ok = b.ok /\ (w.ok => Local(w) = Local(b))
      /\ (w.ok /\ w.source = "embedded" => b.source = "embedded")
  BY DEF Agrees
<1> HIDE DEF b
<1> QED
  BY <1>1, <1>3 DEF Reports, SameDay, b

\* What is reported of a quiet photo does not depend on whether it could be read.
LEMMA UnreadReport ==
  ASSUME NEW x, IsPhoto(x), Sane(x), NEW t, Tagged(t), Quiet(x, t),
         NEW w, ZonedFrom(Resolved(x, NoTags, FALSE), w), ~Reports(t, w)
  PROVE  SameDay(t, Again(x, t))
<1> DEFINE b == Again(x, t)
           c == Resolved(x, NoTags, FALSE)
           r == Reading(x, t)
           sc == x.sc
<1>0. Offsets \subseteq Int /\ None \notin Int /\ sc.zone \in Offsets \cup {None}
  BY OffsetsAre DEF Sane
<1>1. Read(NoTags) /\ Read(r) /\ Timed(b)
  BY ReadAny, ResolvedTimed DEF Read, NoTags, Again
<1>2. /\ r.dto = t.clock /\ r.off = t.off /\ (r.at # None => t.clock # None)
      /\ t.clock # None /\ t.off = None => r.at = t.clock
      /\ t.clock # None /\ t.off # None => r.at = t.clock - t.off
  BY ReadStill
<1>3. c = First(FromSidecar(sc, NoTags), FromFilename(x.name))
  BY DEF Resolved, First, Undated
<1>4. ~Undated.ok /\ \A at, off, source, step : When(at, off, source, step).ok
  BY DEF Undated, When
<1>5. SUFFICES ASSUME b.ok, b.source # "embedded"
               PROVE  t.clock # None /\ Day(t.clock) = Day(Local(b))
  BY DEF SameDay
<1>6. ~NeedsZone(b) /\ r.at = b.at
  BY <1>5 DEF Quiet
<1>7. t.clock # None /\ t.clock \in Int
  BY <1>0, <1>1, <1>2, <1>6 DEF Timed, Tagged
<1>8. ASSUME c = b PROVE t.clock # None /\ Day(t.clock) = Day(Local(b))
  <2>1. w = b
    BY <1>5, <1>6, <1>8, ZonedIs
  <2> QED
    BY <1>5, <2>1 DEF Reports
<1>9. CASE HasDate(sc) /\ sc.zone # None
  <2>1. b = When(Moment(sc), sc.zone, Origin(sc), "gps")
    BY <1>0, <1>1, <1>9, AgainIs, SidecarDate
  <2>2. FromSidecar(sc, NoTags) = When(Moment(sc), sc.zone, Origin(sc), "gps")
    BY <1>0, <1>1, <1>9, SidecarDate
  <2>3. c = b
    BY <1>3, <1>4, <2>1, <2>2 DEF First
  <2> QED
    BY <1>8, <2>3
<1>10. CASE HasDate(sc) /\ sc.zone = None
  <2>1. Moment(sc) \in Int
    BY <1>0, <1>1, <1>10, SidecarDate
  <2>2. b = FromSidecar(sc, r)
    BY <1>10, AgainIs
  <2>3. CASE t.off # None
    <3>1. b = When(Moment(sc), t.off, Origin(sc), "embedded-offset")
      BY <1>0, <1>1, <1>2, <1>10, <2>2, <2>3, SidecarDate
    <3>2. b.at = Moment(sc) /\ b.off = t.off /\ t.off \in Int
      BY <1>0, <2>3, <3>1 DEF When, Tagged
    <3>3. t.clock - t.off = Moment(sc)
      BY <1>2, <1>6, <1>7, <2>3, <3>2
    <3>4. Moment(sc) + t.off = t.clock
      BY <1>7, <3>2, <3>3
    <3>5. Local(b) = t.clock
      BY <2>3, <3>2, <3>4 DEF Local
    <3> QED
      BY <1>7, <3>5
  <2>4. CASE t.off = None
    <3>1. \/ b = When(Moment(sc), t.clock - Moment(sc), Origin(sc), "dto-minus-utc")
             /\ t.clock - Moment(sc) \in Offsets
          \/ b = When(Moment(sc), None, Origin(sc), "")
      BY <1>0, <1>1, <1>2, <1>10, <2>2, <2>4, SidecarDate
    <3>2. Origin(sc) # "filename"
      BY DEF Origin
    <3> HIDE DEF b
    <3>3. b # When(Moment(sc), None, Origin(sc), "")
      <4>1. NeedsZone(When(Moment(sc), None, Origin(sc), ""))
        BY <3>2 DEF NeedsZone, WallClock, When
      <4> QED
        BY <1>6, <4>1
    <3>4. b.at = Moment(sc) /\ b.off = t.clock - Moment(sc) /\ b.off # None
      <4>1. t.clock - Moment(sc) # None
        BY <1>0, <3>1, <3>3
      <4>2. b = When(Moment(sc), t.clock - Moment(sc), Origin(sc), "dto-minus-utc")
        BY <3>1, <3>3
      <4> QED
        BY <4>1, <4>2 DEF When
    <3>5. Moment(sc) + (t.clock - Moment(sc)) = t.clock
      BY <1>7, <2>1
    <3>6. Local(b) = t.clock
      BY <3>4, <3>5 DEF Local
    <3> QED
      BY <1>7, <3>6
  <2> QED
    BY <2>3, <2>4
<1>11. CASE ~HasDate(sc)
  <2>1. c = FromFilename(x.name)
    <3>1. FromSidecar(sc, NoTags) = Undated
      BY <1>0, <1>1, <1>11, SidecarDate
    <3> QED
      BY <1>3, <1>4, <3>1 DEF First
  <2>2. ~InBounds(t.clock)
    <3>1. SUFFICES ASSUME InBounds(t.clock) PROVE b.source = "embedded"
      BY <1>5
    <3>2. b = IF t.off = None THEN When(t.clock, None, "embedded", "filename")
              ELSE When(t.clock - t.off, t.off, "embedded", "embedded-offset")
      BY <1>11, <3>1, AgainIs
    <3> QED
      BY <3>2 DEF When
  <2>3. c = b
    BY <1>11, <2>1, <2>2, AgainIs
  <2> QED
    BY <1>8, <2>3
<1> QED
  BY <1>9, <1>10, <1>11

-----------------------------------------------------------------------------
\* The zone that a date without one gets is a real one

LEMMA NeighborIs ==
  ASSUME NEW k \in Nat, NEW dates, DOMAIN dates = 1 .. k,
         \A f \in 1 .. k : dates[f].at \in Int, NEW f \in 1 .. k
  PROVE  Neighbor(dates, f) \in Zoned(dates) \cup {0}
<1> DEFINE d(g) == Distance(dates[f].at, dates[g].at)
           near == {g \in Zoned(dates) : d(g) <= Near}
           best(g) == \A h \in near : d(g) < d(h) \/ (d(g) = d(h) /\ g <= h)
<1>1. Neighbor(dates, f) = IF near = {} THEN 0 ELSE CHOOSE g \in near : best(g)
  BY DEF Neighbor
<1>2. near \subseteq 1 .. k /\ near \subseteq Zoned(dates)
  BY DEF Zoned
<1>3. \A g \in 1 .. k : d(g) \in Nat
  BY DEF Distance
<1> HIDE DEF d, near
<1>4. CASE near = {}
  BY <1>1, <1>4
<1>5. CASE near # {}
  <2> DEFINE ds == {d(g) : g \in near}
  <2>1. ds \in SUBSET Nat /\ ds # {}
    BY <1>2, <1>3, <1>5
  <2>2. PICK m \in ds : \A n \in ds : m <= n
    BY <2>1, Least
  <2> DEFINE gs == {g \in near : d(g) = m}
  <2>3. gs \in SUBSET Nat /\ gs # {}
    BY <1>2
  <2>4. PICK g \in gs : \A h \in gs : g <= h
    BY <2>3, Least
  <2>5. g \in near /\ d(g) = m
    OBVIOUS
  <2>6. ASSUME NEW h \in near PROVE d(g) < d(h) \/ (d(g) = d(h) /\ g <= h)
    <3>1. m <= d(h) /\ d(h) \in Nat /\ m \in Nat
      BY <1>2, <1>3, <2>1, <2>2
    <3>2. CASE d(h) = m
      BY <2>4, <2>5, <3>2
    <3>3. CASE d(h) # m
      BY <2>5, <3>1, <3>3
    <3> QED
      BY <3>2, <3>3
  <2>7. \E q \in near : best(q)
    BY <2>5, <2>6
  <2> HIDE DEF best
  <2>8. (CHOOSE q \in near : best(q)) \in near
    BY <2>7
  <2> QED
    BY <1>1, <1>2, <1>5, <2>8
<1> QED
  BY <1>4, <1>5

LEMMA CommonIs ==
  ASSUME NEW k \in Nat, NEW dates, DOMAIN dates = 1 .. k
  PROVE  Common(dates) \in Zoned(dates) \cup {0}
<1> DEFINE zs == Zoned(dates)
           n(g) == Cardinality({h \in zs : dates[h].off = dates[g].off})
           best(g) == \A h \in zs : n(g) > n(h) \/ (n(g) = n(h) /\ g <= h)
<1>1. Common(dates) = IF zs = {} THEN 0 ELSE CHOOSE g \in zs : best(g)
  BY DEF Common
<1>2. zs \subseteq 1 .. k
  BY DEF Zoned
<1>3. \A g \in zs : n(g) \in 1 .. k
  <2> SUFFICES ASSUME NEW g \in zs PROVE n(g) \in 1 .. k
    OBVIOUS
  <2> DEFINE hs == {h \in zs : dates[h].off = dates[g].off}
  <2>1. hs \subseteq 1 .. k /\ g \in hs
    BY <1>2
  <2>2. IsFiniteSet(1 .. k) /\ Cardinality(1 .. k) = k
    BY FS_Interval
  <2>3. IsFiniteSet(hs) /\ Cardinality(hs) <= k
    BY <2>1, <2>2, FS_Subset
  <2>4. Cardinality(hs) \in Nat /\ Cardinality(hs) # 0
    BY <2>1, <2>3, FS_CardinalityType, FS_EmptySet
  <2> QED
    BY <2>3, <2>4
<1> HIDE DEF n, zs
<1>4. CASE zs = {}
  BY <1>1, <1>4
<1>5. CASE zs # {}
  <2> DEFINE ns == {n(g) : g \in zs}
  <2>1. ns \in SUBSET (1 .. k) /\ ns # {}
    BY <1>3, <1>5
  <2>2. PICK m \in ns : \A i \in ns : m >= i
    BY <2>1, Greatest
  <2> DEFINE gs == {g \in zs : n(g) = m}
  <2>3. gs \in SUBSET Nat /\ gs # {}
    BY <1>2
  <2>4. PICK g \in gs : \A h \in gs : g <= h
    BY <2>3, Least
  <2>5. g \in zs /\ n(g) = m
    OBVIOUS
  <2>6. ASSUME NEW h \in zs PROVE n(g) > n(h) \/ (n(g) = n(h) /\ g <= h)
    <3>1. m >= n(h) /\ n(h) \in Int /\ m \in Int
      BY <1>3, <2>1, <2>2
    <3>2. CASE n(h) = m
      BY <2>4, <2>5, <3>2
    <3>3. CASE n(h) # m
      BY <2>5, <3>1, <3>3
    <3> QED
      BY <3>2, <3>3
  <2>7. \E q \in zs : best(q)
    BY <2>5, <2>6
  <2> HIDE DEF best
  <2>8. (CHOOSE q \in zs : best(q)) \in zs
    BY <2>7
  <2> QED
    BY <1>1, <1>5, <2>8 DEF zs
<1> QED
  BY <1>4, <1>5

LEMMA FallbackZone ==
  ASSUME NEW k \in Nat, NEW dates, DOMAIN dates = 1 .. k,
         \A g \in 1 .. k : Timed(dates[g]), NEW tz \in Offsets \cup {None}, NEW f \in 1 .. k
  PROVE  ZonedFrom(dates[f], ApplyFallback(dates, tz)[f])
<1> DEFINE w == ApplyFallback(dates, tz)[f]
           nb == Neighbor(dates, f)
           co == Common(dates)
           steps == {"neighbor", "default", "common", "utc"}
<1>1. w = IF ~NeedsZone(dates[f]) THEN dates[f]
          ELSE IF nb # 0 THEN WithZone(dates[f], dates[nb].off, "neighbor")
          ELSE IF tz # None THEN WithZone(dates[f], tz, "default")
          ELSE IF co # 0 THEN WithZone(dates[f], dates[co].off, "common")
          ELSE WithZone(dates[f], 0, "utc")
  BY DEF ApplyFallback
<1>2. \A g \in Zoned(dates) : dates[g].off \in Offsets
  BY DEF Zoned, Timed
<1>3. nb # 0 => dates[nb].off \in Offsets
  BY <1>2, NeighborIs DEF Timed
<1>4. co # 0 => dates[co].off \in Offsets
  BY <1>2, CommonIs
<1>5. 0 \in Offsets
  BY OffsetsAre
<1> HIDE DEF w, nb, co
<1>6. CASE ~NeedsZone(dates[f])
  BY <1>1, <1>6 DEF ZonedFrom, w
<1>7. CASE NeedsZone(dates[f])
  <2>1. \E off \in Offsets : \E step \in steps : w = WithZone(dates[f], off, step)
    BY <1>1, <1>3, <1>4, <1>5, <1>7
  <2> QED
    BY <1>7, <2>1 DEF ZonedFrom, w
<1> QED
  BY <1>6, <1>7

-----------------------------------------------------------------------------
\* Photos settle

LEMMA SaneFiles ==
  ASSUME RealOffsets, DatingInv, NEW f \in Files
  PROVE  Sane(file[f]) /\ zone \in Offsets \cup {None}
<1>1. file \in Library /\ f \in DOMAIN file /\ zone \in Zones
  BY DEF DatingInv, TypeOK, Files
<1> QED
  BY <1>1, DatingConstants DEF RealOffsets, Sane

LEMMA PhotosAre ==
  ASSUME NEW f \in Photos
  PROVE  f \in Files /\ IsPhoto(file[f]) /\ ~VideoSide(file[f].kind) /\ file[f].kind # "gif"
         /\ Partners(file)[f] = 0
BY DEF Photos, IsPhoto, VideoSide

\* Steps that leave the photos, their tags and their places alone.
Kept == UNCHANGED <<file, tags, stage, home>>

LEMMA KeptPhotos ==
  ASSUME SettleInv, Kept, hurt \subseteq hurt'
  PROVE  Photos' = Photos /\ Files' = Files /\ \A f \in Photos : PhotoOK(f)'
<1>1. Photos' = Photos /\ Files' = Files
  BY DEF Kept, Photos, Files
<1>2. ASSUME NEW f \in Photos PROVE PhotoOK(f)'
  <2>1. PhotoOK(f)
    BY DEF SettleInv
  <2> QED
    BY <2>1 DEF PhotoOK, Kept
<1> QED
  BY <1>1, <1>2

LEMMA KeptSettled ==
  ASSUME SettleInv, Kept, settled' = settled,
         settled => \A f \in bad' : Handled(f)' => f \in wrong'
  PROVE  SettledOK'
<1>1. Photos' = Photos /\ Files' = Files
  BY DEF Kept, Photos, Files
<1>2. SettledOK
  BY DEF SettleInv
<1> QED
  BY <1>1, <1>2 DEF SettledOK, Kept

LEMMA SettleInitOK == Init /\ RealOffsets => SettleInv
<1> SUFFICES ASSUME Init, RealOffsets PROVE SettleInv
  OBVIOUS
<1>1. DatingInv
  BY DatingInitOK
<1>2. \A f \in Files : Sane(file[f])
  BY <1>1, SaneFiles
<1>3. Read(NoTags)
  BY DEF Read, NoTags
<1>4. ASSUME NEW f \in Files PROVE Tagged(tags[f]) /\ Read(emb[f])
  <2>1. tags[f] = [clock |-> file[f].clock, off |-> file[f].off, xmp |-> None] /\ emb[f] = NoTags
    BY DEF Init, Tags
  <2>2. file[f].clock \in Int \cup {None} /\ file[f].off \in Offsets \cup {None}
    BY <1>2 DEF Sane
  <2> QED
    BY <1>3, <2>1, <2>2 DEF Tagged
<1>5. RunTypes
  BY <1>4 DEF Init, RunTypes
<1>6. SettledOK /\ ReportOK
  BY DEF Init, SettledOK, ReportOK
<1>7. ASSUME NEW f \in Photos PROVE RunOK(f) /\ PhotoOK(f)
  BY PhotosAre DEF Init, RunOK, Handled, PhotoOK
<1> QED
  BY <1>5, <1>6, <1>7 DEF SettleInv, Init

\* While a run is under way there is no report.
LEMMA NoReport ==
  ASSUME SettleInv, phase # "off"
  PROVE  report = None
BY DEF SettleInv, ReportOK

LEMMA StartSettles ==
  ASSUME RealOffsets, DatingInv, SettleInv, Start
  PROVE  SettleInv'
<1>1. /\ Kept /\ hurt' = hurt /\ settled' = settled /\ phase' = "read" /\ report' = None
      /\ bad' = {} /\ wrong' = {} /\ emb' = [f \in Files |-> NoTags]
  BY DEF Start, Goto, Kept
<1>2. Photos' = Photos /\ Files' = Files /\ \A f \in Photos : PhotoOK(f)'
  BY <1>1, KeptPhotos
<1>3. RunTypes'
  <2>1. Read(NoTags)
    BY DEF Read, NoTags
  <2> QED
    BY <1>1, <1>2, <2>1 DEF SettleInv, RunTypes, Kept
<1>4. SettledOK'
  BY <1>1, KeptSettled
<1>5. ReportOK'
  BY <1>1 DEF ReportOK
<1>6. \A f \in Photos : RunOK(f)'
  BY <1>1 DEF RunOK, Handled
<1> QED
  BY <1>1, <1>2, <1>3, <1>4, <1>5, <1>6 DEF SettleInv

LEMMA ReadSettles ==
  ASSUME RealOffsets, DatingInv, SettleInv, NEW failed \in SUBSET Files, ReadEmbedded(failed)
  PROVE  SettleInv'
<1>1. /\ Kept /\ hurt' = hurt \cup failed /\ settled' = settled /\ phase = "read"
      /\ phase' = "resolve" /\ report' = report /\ bad' = failed /\ wrong' = wrong
      /\ emb' = [f \in Files |-> IF f \in failed THEN NoTags ELSE Reading(file[f], tags[f])]
  BY DEF ReadEmbedded, Goto, Kept, Reading
<1>2. Photos' = Photos /\ Files' = Files /\ \A f \in Photos : PhotoOK(f)'
  BY <1>1, KeptPhotos
<1>3. RunTypes'
  <2>1. Read(NoTags)
    BY DEF Read, NoTags
  <2>2. \A f \in Files : Tagged(tags[f])
    BY DEF SettleInv, RunTypes
  <2>3. \A f \in Files : Read(emb'[f])
    BY <1>1, <2>1, <2>2, ReadAny
  <2> QED
    BY <1>1, <1>2, <2>2, <2>3 DEF SettleInv, RunTypes, Kept
<1>4. SettledOK'
  <2>1. \A f : ~Handled(f)'
    BY <1>1 DEF Handled
  <2> QED
    BY <1>1, <2>1, KeptSettled
<1>5. ReportOK'
  BY <1>1, NoReport DEF ReportOK
<1>6. ASSUME NEW f \in Photos PROVE RunOK(f)'
  <2>1. f \in Files
    BY PhotosAre
  <2> QED
    BY <1>1, <2>1 DEF RunOK, Handled, Kept
<1> QED
  BY <1>1, <1>2, <1>3, <1>4, <1>5, <1>6 DEF SettleInv

LEMMA ResolveSettles ==
  ASSUME RealOffsets, DatingInv, SettleInv, ResolveDates
  PROVE  SettleInv'
<1>1. /\ Kept /\ hurt' = hurt /\ settled' = settled /\ phase = "resolve"
      /\ phase' = "pair" /\ report' = report /\ bad' = bad /\ wrong' = wrong /\ emb' = emb
      /\ when' = [f \in Files |-> Base(f)]
  BY DEF ResolveDates, Goto, Kept, Base
<1>2. Photos' = Photos /\ Files' = Files /\ \A f \in Photos : PhotoOK(f)'
  BY <1>1, KeptPhotos
<1>3. RunTypes'
  <2>1. \A f \in Files : Read(emb[f]) /\ Sane(file[f])
    BY SaneFiles DEF SettleInv, RunTypes
  <2>2. \A f \in Files : Timed(Base(f))
    BY <2>1, ResolvedTimed DEF Base
  <2> HIDE DEF Base
  <2>3. \A f \in Files : Timed(when'[f])
    BY <1>1, <2>2
  <2> QED
    BY <1>1, <1>2, <2>3 DEF SettleInv, RunTypes, Kept
<1>4. \A f : ~Handled(f)'
  BY <1>1 DEF Handled
<1>5. SettledOK'
  BY <1>1, <1>4, KeptSettled
<1>6. ReportOK'
  BY <1>1, NoReport DEF ReportOK
<1>7. ASSUME NEW f \in Photos PROVE RunOK(f)'
  <2>1. f \in Files /\ RunOK(f) /\ ~Handled(f)
    BY <1>1, PhotosAre DEF SettleInv, Handled
  <2>2. when'[f] = Base(f)'
    BY <1>1, <2>1 DEF Base, Kept
  <2> QED
    BY <1>1, <1>4, <2>1, <2>2 DEF RunOK, Kept
<1> QED
  BY <1>1, <1>2, <1>3, <1>5, <1>6, <1>7 DEF SettleInv

LEMMA PairSettles ==
  ASSUME RealOffsets, DatingInv, SettleInv, PairLive
  PROVE  SettleInv'
<1> DEFINE ps == Partners(file)
<1>1. /\ Kept /\ hurt' = hurt /\ settled' = settled /\ phase = "pair"
      /\ phase' = "zones" /\ report' = report /\ bad' = bad /\ wrong' = wrong /\ emb' = emb
      /\ live' = ps /\ when' = Moments(when, ps)
  BY DEF PairLive, Goto, Kept
<1>2. Photos' = Photos /\ Files' = Files /\ \A f \in Photos : PhotoOK(f)'
  BY <1>1, KeptPhotos
<1>3. \A f \in Files : ps[f] \in Files \cup {0}
  BY FilesAre, PartnersPair DEF Files
<1>4. \A f \in Files : when'[f] = IF ps[f] = 0 THEN when[f] ELSE Shared(when[f], when[ps[f]])
  BY <1>1 DEF Moments, DatingInv
<1>5. \A f \in Photos : ps[f] = 0
  BY PhotosAre
<1>6. live' = Partners(file')
  BY <1>1 DEF Kept
<1> HIDE DEF ps
<1>7. RunTypes'
  <2>1. ASSUME NEW f \in Files PROVE Timed(when'[f])
    <3>1. \A g \in Files : Timed(when[g]) /\ IsWhen(when[g])
      BY <1>1 DEF SettleInv, RunTypes, DatingInv
    <3>2. ASSUME NEW w, NEW other, IsWhen(w), IsWhen(other), Timed(w), Timed(other)
          PROVE  Timed(Shared(w, other))
      <4>1. CASE Weak(w) /\ ~Weak(other)
        <5>1. Shared(w, other) = [ok |-> other.ok, at |-> other.at, off |-> other.off,
                                  source |-> "live", step |-> other.step]
          BY <3>2, <4>1 DEF Shared, IsWhen
        <5> QED
          BY <3>2, <5>1 DEF Timed
      <4>2. CASE ~(Weak(w) /\ ~Weak(other))
        BY <3>2, <4>2 DEF Shared
      <4> QED
        BY <4>1, <4>2
    <3> QED
      BY <1>3, <1>4, <3>1, <3>2
  <2> QED
    BY <1>1, <1>2, <1>6, <2>1 DEF SettleInv, RunTypes, Kept
<1>8. \A f : ~Handled(f)'
  BY <1>1 DEF Handled
<1>9. SettledOK'
  BY <1>1, <1>8, KeptSettled
<1>10. ReportOK'
  BY <1>1, NoReport DEF ReportOK
<1>11. ASSUME NEW f \in Photos PROVE RunOK(f)'
  <2>1. f \in Files /\ RunOK(f) /\ ~Handled(f)
    BY <1>1, PhotosAre DEF SettleInv, Handled
  <2>2. when'[f] = Base(f)'
    BY <1>1, <1>4, <1>5, <2>1 DEF Base, Kept, RunOK
  <2> QED
    BY <1>1, <1>8, <2>1, <2>2 DEF RunOK, Kept
<1> QED
  BY <1>1, <1>2, <1>7, <1>9, <1>10, <1>11 DEF SettleInv

LEMMA ZoneSettles ==
  ASSUME RealOffsets, DatingInv, SettleInv, Zone
  PROVE  SettleInv'
<1>1. /\ Kept /\ hurt' = hurt /\ settled' = settled /\ phase = "zones"
      /\ phase' = "tags" /\ report' = report /\ bad' = bad /\ wrong' = wrong /\ emb' = emb
      /\ live' = live /\ when' = ApplyZones(file, when, zone) /\ todo' = ToTag
  BY DEF Zone, Goto, Kept
<1>2. Photos' = Photos /\ Files' = Files /\ \A f \in Photos : PhotoOK(f)'
  BY <1>1, KeptPhotos
<1> DEFINE w(f) == ApplyFallback(when, zone)[f]
<1>3. \A f \in Files : when'[f] = IF VideoSide(file[f].kind) THEN PinWallClock(w(f), zone) ELSE w(f)
  BY <1>1 DEF ApplyZones, DatingInv
<1>4. \A f \in Files : Timed(when[f]) /\ zone \in Offsets \cup {None}
  BY <1>1, SaneFiles DEF SettleInv, RunTypes
<1>5. ASSUME NEW f \in Files PROVE ZonedFrom(when[f], w(f))
  <2>1. Len(file) \in Nat /\ DOMAIN when = 1 .. Len(file) /\ Files = 1 .. Len(file)
    BY FilesAre DEF DatingInv
  <2> QED
    BY <1>4, <2>1, FallbackZone
<1> HIDE DEF w
<1>6. RunTypes'
  <2>1. ASSUME NEW f \in Files PROVE Timed(w(f))
    <3>1. CASE NeedsZone(when[f])
      <4>1. PICK off \in Offsets, step \in {"neighbor", "default", "common", "utc"} :
              w(f) = WithZone(when[f], off, step)
        BY <1>5, <3>1 DEF ZonedFrom
      <4> QED
        BY <1>4, <4>1 DEF WithZone, When, Timed
    <3>2. CASE ~NeedsZone(when[f])
      BY <1>4, <1>5, <3>2 DEF ZonedFrom
    <3> QED
      BY <3>1, <3>2
  <2>2. ASSUME NEW v, Timed(v), NEW tz \in Offsets \cup {None} PROVE Timed(PinWallClock(v, tz))
    <3>1. CASE ~v.ok \/ v.off # None
      BY <2>2, <3>1 DEF PinWallClock
    <3>2. CASE ~(~v.ok \/ v.off # None)
      <4> DEFINE off == IF tz = None THEN 0 ELSE tz
      <4>1. off \in Offsets /\ off \in Int
        BY OffsetsAre
      <4>2. \E step : PinWallClock(v, tz) = When(v.at - off, off, v.source, step)
        BY <3>2 DEF PinWallClock
      <4> HIDE DEF off
      <4>3. v.at - off \in Int
        BY <2>2, <4>1 DEF Timed
      <4> QED
        BY <4>1, <4>2, <4>3 DEF When, Timed
    <3> QED
      BY <3>1, <3>2
  <2>3. \A f \in Files : Timed(when'[f])
    BY <1>3, <1>4, <2>1, <2>2
  <2> QED
    BY <1>1, <1>2, <2>3 DEF SettleInv, RunTypes, Kept
<1>7. SettledOK'
  <2>1. ASSUME settled, NEW f \in bad PROVE ~Handled(f)'
    <3>1. f \in Files /\ stage[f] = "placed"
      BY <2>1 DEF SettleInv, SettledOK, DatingInv, TypeOK
    <3> QED
      BY <1>1, <3>1 DEF Handled, ToTag
  <2> QED
    BY <1>1, <2>1, KeptSettled
<1>8. ReportOK'
  BY <1>1, NoReport DEF ReportOK
<1>9. ASSUME NEW f \in Photos PROVE RunOK(f)'
  <2>1. f \in Files /\ RunOK(f) /\ ~Handled(f) /\ PhotoOK(f)
    BY <1>1, PhotosAre DEF SettleInv, Handled
  <2>2. when[f] = Base(f) /\ Base(f)' = Base(f)
    BY <1>1, <2>1 DEF RunOK, Base, Kept
  <2>3. ZonedFrom(Base(f), when'[f])
    BY <1>3, <1>5, <2>1, <2>2, PhotosAre
  <2>4. f \notin bad => emb[f] = Reading(file[f], tags[f])
    BY <1>1, <2>1 DEF RunOK
  <2>5. ASSUME f \notin ToTag
        PROVE  /\ Quiet(file[f], tags[f])
               /\ f \in bad \/ Agrees(file[f], tags[f], when'[f])
    <3>1. Quiet(file[f], tags[f])
      BY <2>1, <2>5 DEF ToTag, PhotoOK
    <3>2. ASSUME f \notin bad PROVE Agrees(file[f], tags[f], when'[f])
      <4>1. Base(f) = Again(file[f], tags[f])
        BY <2>4, <3>2 DEF Base, Again
      <4>2. Tagged(tags[f]) /\ IsPhoto(file[f]) /\ Sane(file[f])
        BY <2>1, PhotosAre, SaneFiles DEF SettleInv, RunTypes
      <4>3. when'[f] = Again(file[f], tags[f])
        BY <2>3, <3>1, <4>1, <4>2, QuietStays
      <4> QED
        BY <4>3 DEF Agrees
    <3> QED
      BY <3>1, <3>2
  <2>6. Handled(f)' => f \notin ToTag
    BY <1>1 DEF Handled
  <2> QED
    BY <1>1, <2>1, <2>2, <2>3, <2>4, <2>5, <2>6 DEF RunOK, Kept
<1> QED
  BY <1>1, <1>2, <1>6, <1>7, <1>8, <1>9 DEF SettleInv

\* WriteTags, of a photo that is read and tagged for the first or a further time.
LEMMA WritesPhoto ==
  ASSUME RealOffsets, DatingInv, SettleInv, NEW f \in Photos, WriteTags(f)
  PROVE  /\ tags'[f] = NewTags(file[f], tags[f], when[f])
         /\ ZonedFrom(Again(file[f], tags[f]), when[f])
         /\ Tagged(tags[f]) /\ IsPhoto(file[f]) /\ Sane(file[f])
<1>1. f \in Files /\ RunOK(f) /\ phase = "tags" /\ f \in todo /\ f \notin bad
  BY PhotosAre DEF SettleInv, WriteTags
<1>2. Tagged(tags[f]) /\ IsPhoto(file[f]) /\ Sane(file[f]) /\ file[f].kind # "gif"
  BY <1>1, PhotosAre, SaneFiles DEF SettleInv, RunTypes
<1>3. emb[f] = Reading(file[f], tags[f]) /\ ZonedFrom(Base(f), when[f])
  BY <1>1 DEF RunOK, Handled
<1>4. Base(f) = Again(file[f], tags[f])
  BY <1>1, <1>3 DEF Base, Again
<1>5. ShouldWriteDates(f) <=> Writes(file[f], tags[f], when[f])
  BY <1>3 DEF ShouldWriteDates, Writes
<1>6. CASE Writes(file[f], tags[f], when[f])
  <2>1. tags'[f] = Written(f)
    <3>1. f \in DOMAIN tags
      BY <1>1 DEF SettleInv, RunTypes
    <3> QED
      BY <1>5, <1>6, <3>1 DEF WriteTags
  <2>2. Written(f) = NewTags(file[f], tags[f], when[f])
    BY <1>2, <1>6 DEF Written, NewTags
  <2> QED
    BY <1>2, <1>3, <1>4, <2>1, <2>2
<1>7. CASE ~Writes(file[f], tags[f], when[f])
  <2>1. tags' = tags
    BY <1>5, <1>7 DEF WriteTags
  <2>2. NewTags(file[f], tags[f], when[f]) = tags[f]
    BY <1>7 DEF NewTags
  <2> QED
    BY <1>2, <1>3, <1>4, <2>1, <2>2
<1> QED
  BY <1>6, <1>7

\* A quiet photo is not changed, whatever run tags it.
LEMMA QuietUntouched ==
  ASSUME RealOffsets, DatingInv, SettleInv, NEW f \in Photos, WriteTags(f),
         Quiet(file[f], tags[f])
  PROVE  tags'[f] = tags[f]
<1>1. f \in DOMAIN tags
  BY PhotosAre DEF SettleInv, RunTypes
<1> QED
  BY <1>1, WritesPhoto, QuietStays DEF NewTags

LEMMA WriteSettles ==
  ASSUME RealOffsets, DatingInv, SettleInv, NEW f \in Files, WriteTags(f)
  PROVE  SettleInv'
<1>1. /\ phase = "tags" /\ f \in todo /\ f \notin bad /\ todo' = todo \ {f}
      /\ UNCHANGED <<file, zone, home, phase, emb, bad, when, live, wrong, report, settled, hurt>>
      /\ stage' = [stage EXCEPT ![f] = IF home[f] = None THEN "tagged" ELSE @]
      /\ tags' = IF ShouldWriteDates(f) THEN [tags EXCEPT ![f] = Written(f)] ELSE tags
  BY DEF WriteTags
<1>2. Photos' = Photos /\ Files' = Files
  BY <1>1 DEF Photos, Files
<1>3. /\ DOMAIN tags = Files /\ DOMAIN stage = Files
      /\ \A g \in Files : Tagged(tags[g]) /\ Timed(when[g])
  BY <1>1 DEF SettleInv, RunTypes, DatingInv, TypeOK
<1>4. \A g \in Files : g # f => tags'[g] = tags[g] /\ stage'[g] = stage[g]
  BY <1>1, <1>3
<1>5. Tagged(tags'[f])
  <2>1. Local(when[f]) \in Int
    <3>1. when[f].at \in Int /\ (when[f].off # None => when[f].off \in Int)
      BY <1>3, OffsetsAre DEF Timed
    <3> QED
      BY <3>1 DEF Local
  <2> DEFINE c == Local(when[f])
             o == IF when[f].off = None THEN tags[f].off ELSE when[f].off
  <2>2. Tagged(tags[f]) /\ o \in Offsets \cup {None}
    BY <1>3 DEF Timed, Tagged
  <2>3. Written(f) = IF file[f].kind = "gif" THEN [tags[f] EXCEPT !.xmp = c]
                     ELSE [tags[f] EXCEPT !.clock = c, !.off = o]
    BY DEF Written
  <2> HIDE DEF c, o
  <2>4. Tagged(Written(f))
    <3>1. Written(f) \in {[clock |-> tags[f].clock, off |-> tags[f].off, xmp |-> c],
                          [clock |-> c, off |-> o, xmp |-> tags[f].xmp]}
      BY <2>2, <2>3 DEF Tagged
    <3> QED
      BY <2>1, <2>2, <3>1 DEF Tagged, c
  <2>5. tags'[f] \in {Written(f), tags[f]}
    BY <1>1, <1>3
  <2> QED
    BY <2>2, <2>4, <2>5
<1>6. RunTypes'
  <2>1. DOMAIN tags' = Files
    BY <1>1, <1>3
  <2> QED
    BY <1>1, <1>2, <1>3, <1>4, <1>5, <2>1 DEF SettleInv, RunTypes
<1>7. ASSUME f \in Photos
      PROVE  /\ Quiet(file[f], tags'[f]) /\ Agrees(file[f], tags'[f], when[f])
             /\ Quiet(file[f], tags[f]) => tags'[f] = tags[f]
  <2>1. tags'[f] = NewTags(file[f], tags[f], when[f])
    BY <1>3, <1>7, WritesPhoto
  <2>2. Quiet(file[f], tags'[f]) /\ Agrees(file[f], tags'[f], when[f])
    BY <1>7, <2>1, WritesPhoto, TaggedQuiet
  <2> QED
    BY <1>7, <2>2, QuietUntouched
<1>8. \A g : g # f => (Handled(g)' <=> Handled(g))
  BY <1>1 DEF Handled
<1>9. SettledOK'
  <2> SUFFICES ASSUME settled PROVE SettledOK'
    BY <1>1 DEF SettledOK
  <2>1. /\ \A g \in Files : stage[g] = "placed" /\ home[g] # None
        /\ \A g \in Photos : Quiet(file[g], tags[g]) /\ SameDay(tags[g], Again(file[g], tags[g]))
        /\ \A g \in bad : Handled(g) => g \in wrong
    BY DEF SettleInv, SettledOK
  <2>2. \A g \in Files : stage'[g] = "placed" /\ home'[g] # None
    BY <1>1, <1>3, <1>4, <2>1
  <2>3. \A g \in Photos : file'[g] = file[g] /\ tags'[g] = tags[g]
    BY <1>1, <1>4, <1>7, <2>1, PhotosAre
  <2>4. \A g \in bad' : Handled(g)' => g \in wrong'
    BY <1>1, <1>8, <2>1
  <2> QED
    BY <1>2, <2>1, <2>2, <2>3, <2>4 DEF SettledOK
<1>10. ReportOK'
  BY <1>1, NoReport DEF ReportOK
<1>11. ASSUME NEW g \in Photos PROVE RunOK(g)' /\ PhotoOK(g)'
  <2>1. g \in Files /\ RunOK(g) /\ PhotoOK(g)
    BY PhotosAre DEF SettleInv
  <2>2. Base(g)' = Base(g)
    BY <1>1 DEF Base
  <2>3. CASE g # f
    <3>1. tags'[g] = tags[g] /\ stage'[g] = stage[g] /\ (Handled(g)' <=> Handled(g))
      BY <1>4, <1>8, <2>1, <2>3
    <3> QED
      BY <1>1, <2>1, <2>2, <3>1 DEF RunOK, PhotoOK
  <2>4. CASE g = f
    <3>1. /\ Quiet(file[g], tags'[g]) /\ Agrees(file[g], tags'[g], when[g])
          /\ Quiet(file[g], tags[g]) => tags'[g] = tags[g]
      BY <1>7, <2>4
    <3>2. Handled(g)'
      BY <1>1, <2>4 DEF Handled
    <3>3. RunOK(g)'
      BY <1>1, <2>1, <2>2, <2>4, <3>1, <3>2 DEF RunOK
    <3>4. PhotoOK(g)'
      BY <1>1, <2>1, <3>1 DEF PhotoOK
    <3> QED
      BY <3>3, <3>4
  <2> QED
    BY <2>3, <2>4
<1> QED
  BY <1>1, <1>2, <1>6, <1>9, <1>10, <1>11 DEF SettleInv

LEMMA SkipSettles ==
  ASSUME RealOffsets, DatingInv, SettleInv, NEW f \in Files, NoTagsWritten(f)
  PROVE  SettleInv'
<1>1. /\ phase = "tags" /\ f \in todo /\ todo' = todo \ {f} /\ Kept
      /\ wrong' = wrong \cup {f} /\ hurt' = hurt \cup {f}
      /\ UNCHANGED <<phase, emb, bad, when, live, report, settled>>
  BY DEF NoTagsWritten, Kept
<1>2. Photos' = Photos /\ Files' = Files /\ \A g \in Photos : PhotoOK(g)'
  BY <1>1, KeptPhotos
<1>3. RunTypes'
  BY <1>1, <1>2 DEF SettleInv, RunTypes, Kept
<1>4. \A g : Handled(g)' => Handled(g) \/ g \in wrong'
  BY <1>1 DEF Handled
<1>5. SettledOK'
  <2>1. settled => \A g \in bad' : Handled(g)' => g \in wrong'
    BY <1>1, <1>4 DEF SettleInv, SettledOK
  <2> QED
    BY <1>1, <2>1, KeptSettled
<1>6. ReportOK'
  BY <1>1, NoReport DEF ReportOK
<1>7. ASSUME NEW g \in Photos PROVE RunOK(g)'
  <2>1. RunOK(g) /\ Base(g)' = Base(g)
    BY <1>1 DEF SettleInv, Base, Kept
  <2>2. Handled(g) => Handled(g)'
    BY <1>1 DEF Handled
  <2> QED
    BY <1>1, <1>4, <2>1, <2>2 DEF RunOK, Kept
<1> QED
  BY <1>1, <1>2, <1>3, <1>5, <1>6, <1>7 DEF SettleInv

LEMMA TagsDoneSettles ==
  ASSUME RealOffsets, DatingInv, SettleInv, TagsDone
  PROVE  SettleInv'
<1>1. /\ phase = "tags" /\ todo = {} /\ phase' = "place" /\ todo' = Files /\ Kept
      /\ UNCHANGED <<emb, bad, when, live, wrong, report, settled, hurt>>
  BY DEF TagsDone, Goto, Kept
<1>2. Photos' = Photos /\ Files' = Files /\ \A g \in Photos : PhotoOK(g)'
  BY <1>1, KeptPhotos
<1>3. RunTypes'
  BY <1>1, <1>2 DEF SettleInv, RunTypes, Kept
<1>4. \A g : Handled(g)
  BY <1>1 DEF Handled
<1>5. SettledOK'
  <2>1. settled => \A g \in bad' : Handled(g)' => g \in wrong'
    BY <1>1, <1>4 DEF SettleInv, SettledOK
  <2> QED
    BY <1>1, <2>1, KeptSettled
<1>6. ReportOK'
  BY <1>1, NoReport DEF ReportOK
<1>7. ASSUME NEW g \in Photos PROVE RunOK(g)'
  <2>1. RunOK(g) /\ Base(g)' = Base(g)
    BY <1>1 DEF SettleInv, Base, Kept
  <2> QED
    BY <1>1, <1>4, <2>1 DEF RunOK, Kept
<1> QED
  BY <1>1, <1>2, <1>3, <1>5, <1>6, <1>7 DEF SettleInv

LEMMA PlaceSettles ==
  ASSUME RealOffsets, DatingInv, SettleInv, NEW f \in Files, Place(f)
  PROVE  SettleInv'
<1>1. /\ phase = "place" /\ f \in todo /\ todo' = todo \ {f}
      /\ home' = [home EXCEPT ![f] = IF @ = None THEN Folder(f) ELSE @]
      /\ stage' = [stage EXCEPT ![f] = "placed"]
      /\ UNCHANGED <<file, tags, phase, emb, bad, when, live, wrong, report, settled, hurt>>
  BY DEF Place
<1>2. Photos' = Photos /\ Files' = Files
  BY <1>1 DEF Photos, Files
<1>3. DOMAIN home = Files /\ DOMAIN stage = Files /\ Timed(when[f])
  BY <1>1 DEF SettleInv, RunTypes, DatingInv, TypeOK
<1>4. RunTypes'
  BY <1>1, <1>2, <1>3 DEF SettleInv, RunTypes
<1>5. Folder(f) # None
  <2>1. Local(when[f]) \in Int
    <3>1. when[f].at \in Int /\ (when[f].off # None => when[f].off \in Int)
      BY <1>3, OffsetsAre DEF Timed
    <3> QED
      BY <3>1 DEF Local
  <2>2. Year(when[f]) \in Int
    BY <2>1, DateConstants DEF Year, YearOf, Day
  <2> QED
    BY <2>2, OffsetsAre, DatingConstants DEF Folder
<1>6. /\ stage'[f] = "placed" /\ home'[f] = (IF home[f] = None THEN Folder(f) ELSE home[f])
      /\ home'[f] # None
      /\ \A g \in Files : g # f => stage'[g] = stage[g] /\ home'[g] = home[g]
  BY <1>1, <1>3, <1>5
<1>7. \A g : Handled(g) /\ Handled(g)'
  BY <1>1 DEF Handled
<1>8. SettledOK'
  BY <1>1, <1>2, <1>6, <1>7 DEF SettleInv, SettledOK
<1>9. ReportOK'
  BY <1>1, NoReport DEF ReportOK
<1>10. \A g \in Files' \ todo' : stage'[g] = "placed" /\ home'[g] # None
  BY <1>1, <1>2, <1>6 DEF SettleInv
<1>11. ASSUME NEW g \in Photos PROVE RunOK(g)' /\ PhotoOK(g)'
  <2>1. g \in Files /\ RunOK(g) /\ PhotoOK(g) /\ Base(g)' = Base(g)
    BY <1>1, PhotosAre DEF SettleInv, Base
  <2>2. RunOK(g)'
    BY <1>1, <1>7, <2>1 DEF RunOK
  <2>3. CASE g # f
    BY <1>1, <1>6, <2>1, <2>2, <2>3 DEF PhotoOK
  <2>4. CASE g = f
    <3>1. ASSUME g \notin hurt
          PROVE  /\ Quiet(file[g], tags[g])
                 /\ LET w == Again(file[g], tags[g])
                    IN home'[g] = IF w.ok THEN Year(w) ELSE Unknown
      <4>1. g \notin bad /\ g \notin wrong
        BY <3>1 DEF SettleInv, RunTypes
      <4>2. Quiet(file[g], tags[g]) /\ Agrees(file[g], tags[g], when[g])
        BY <1>7, <2>1, <4>1 DEF RunOK
      <4>3. CASE home[g] = None
        <5>1. home'[g] = IF when[g].ok THEN Year(when[g]) ELSE Unknown
          BY <1>6, <2>4, <4>3 DEF Folder
        <5> QED
          BY <4>2, <5>1 DEF Agrees, Year
      <4>4. CASE home[g] # None
        BY <1>6, <2>1, <2>4, <3>1, <4>4 DEF PhotoOK
      <4> QED
        BY <4>2, <4>3, <4>4
    <3> QED
      BY <1>1, <1>6, <2>2, <2>4, <3>1 DEF PhotoOK
  <2> QED
    BY <2>3, <2>4
<1> QED
  BY <1>4, <1>8, <1>9, <1>10, <1>11, <1>2 DEF SettleInv

\* What is read back of a photo that was tagged and placed.
LEMMA ReadBackOf ==
  ASSUME NEW f \in Photos, f \notin wrong
  PROVE  f \in Unequal <=> Reports(tags[f], when[f])
BY PhotosAre DEF Unequal, Checked, Differs, Reports

LEMMA FinishSettles ==
  ASSUME RealOffsets, DatingInv, SettleInv, Finish
  PROVE  SettleInv'
<1> DEFINE errors == wrong \cup Unequal
           exit == IF errors = {} THEN 0 ELSE 4
<1>1. /\ phase = "place" /\ todo = {} /\ phase' = "off" /\ todo' = {} /\ Kept
      /\ UNCHANGED <<emb, bad, when, live, wrong, hurt>>
      /\ report' = [exit |-> exit, errors |-> errors]
      /\ settled' = (settled \/ exit = 0)
  BY DEF Finish, Goto, Kept, ReadBackErrors
<1>2. Photos' = Photos /\ Files' = Files /\ \A g \in Photos : PhotoOK(g)'
  BY <1>1, KeptPhotos
<1>3. \A g : Handled(g) /\ ~Handled(g)'
  BY <1>1 DEF Handled
<1>4. RunTypes'
  BY <1>1, <1>2 DEF SettleInv, RunTypes, Kept
<1>5. \A f \in Photos : /\ f \in Files /\ RunOK(f) /\ PhotoOK(f) /\ Tagged(tags[f])
                       /\ IsPhoto(file[f]) /\ Sane(file[f])
  BY PhotosAre, SaneFiles DEF SettleInv, RunTypes
<1>6. SettledOK'
  <2>1. CASE ~settled'
    BY <2>1 DEF SettledOK
  <2>2. CASE settled
    BY <1>1, <1>2, <1>3, <2>2 DEF SettleInv, SettledOK, Kept
  <2>3. CASE exit = 0
    <3>1. wrong = {} /\ Unequal = {}
      BY <2>3
    <3>2. \A f \in Files : stage[f] = "placed" /\ home[f] # None
      BY <1>1 DEF SettleInv
    <3>3. ASSUME NEW f \in Photos
          PROVE  Quiet(file[f], tags[f]) /\ SameDay(tags[f], Again(file[f], tags[f]))
      <4>1. Quiet(file[f], tags[f]) /\ (f \in bad \/ Agrees(file[f], tags[f], when[f]))
        BY <1>3, <1>5, <3>1 DEF RunOK
      <4>2. ~Reports(tags[f], when[f])
        BY <3>1, ReadBackOf
      <4>3. CASE f \in bad
        <5>1. ZonedFrom(Resolved(file[f], NoTags, FALSE), when[f])
          BY <1>1, <1>5, <4>3 DEF RunOK, Base
        <5> QED
          BY <1>5, <4>1, <4>2, <5>1, UnreadReport
      <4>4. CASE f \notin bad
        BY <1>5, <4>1, <4>2, <4>4, AgreedReport
      <4> QED
        BY <4>1, <4>3, <4>4
    <3> QED
      BY <1>1, <1>2, <1>3, <3>2, <3>3 DEF SettledOK, Kept
  <2> QED
    BY <1>1, <2>1, <2>2, <2>3
<1>7. ASSUME NEW f \in Photos, f \notin hurt, f \notin errors, home[f] \notin {None, Unknown}
      PROVE  TagYear(f) = home[f]
  <2> DEFINE b == Again(file[f], tags[f])
  <2>1. f \notin bad /\ f \notin wrong
    BY <1>7 DEF SettleInv, RunTypes
  <2>2. Agrees(file[f], tags[f], when[f])
    BY <1>3, <1>5, <2>1 DEF RunOK
  <2>3. b.ok /\ home[f] = Year(b)
    BY <1>5, <1>7 DEF PhotoOK
  <2>4. SameDay(tags[f], b)
    <3>1. ~Reports(tags[f], when[f])
      BY <1>7, <2>1, ReadBackOf
    <3> QED
      BY <1>5, <2>2, <3>1, AgreedReport
  <2>5. tags[f].clock # None /\ Day(tags[f].clock) = Day(Local(b))
    BY <1>5, <2>3, <2>4, EmbeddedClock DEF SameDay
  <2> HIDE DEF b
  <2>6. YearOf(tags[f].clock) = Year(b)
    BY <2>5 DEF YearOf, Year
  <2> QED
    BY <2>3, <2>5, <2>6 DEF TagYear
<1>8. ReportOK'
  <2>1. ASSUME NEW f \in Photos \ hurt PROVE f \notin YearMismatches'
    <3>1. TagYear(f)' = TagYear(f) /\ home'[f] = home[f] /\ report'.errors = errors
      BY <1>1 DEF TagYear, Kept
    <3> HIDE DEF errors
    <3>2. ASSUME InYearFolder(f)', f \notin report'.errors PROVE TagYear(f)' = home'[f]
      BY <1>7, <3>1, <3>2 DEF InYearFolder
    <3> QED
      BY <3>2 DEF YearMismatches
  <2>2. report'.exit = IF report'.errors = {} THEN 0 ELSE 4
    BY <1>1
  <2> QED
    BY <1>1, <1>2, <2>1, <2>2 DEF ReportOK
<1>9. ASSUME NEW f \in Photos PROVE RunOK(f)'
  <2>1. emb' = emb /\ bad' = bad /\ phase' = "off"
    BY <1>1
  <2> QED
    BY <1>3, <1>5, <2>1 DEF RunOK
<1> QED
  BY <1>1, <1>2, <1>4, <1>6, <1>8, <1>9 DEF SettleInv

LEMMA StopSettles ==
  ASSUME RealOffsets, DatingInv, SettleInv, Stop
  PROVE  SettleInv'
<1>1. /\ phase # "off" /\ phase' = "off" /\ Kept
      /\ UNCHANGED <<emb, bad, when, live, wrong, report, settled, hurt>>
  BY DEF Stop, Goto, Kept
<1>2. Photos' = Photos /\ Files' = Files /\ \A g \in Photos : PhotoOK(g)'
  BY <1>1, KeptPhotos
<1>3. \A g : ~Handled(g)'
  BY <1>1 DEF Handled
<1>4. RunTypes'
  BY <1>1, <1>2 DEF SettleInv, RunTypes, Kept
<1>5. SettledOK'
  BY <1>1, <1>3, KeptSettled
<1>6. ReportOK'
  BY <1>1, NoReport DEF ReportOK
<1>7. \A g \in Photos : RunOK(g)'
  BY <1>1, <1>3 DEF SettleInv, RunOK
<1> QED
  BY <1>1, <1>2, <1>4, <1>5, <1>6, <1>7 DEF SettleInv

LEMMA IdleSettles ==
  ASSUME SettleInv, UNCHANGED vars
  PROVE  SettleInv'
<1>1. /\ Kept /\ UNCHANGED <<phase, todo, emb, bad, when, live, wrong, report, settled, hurt>>
  BY DEF vars, run, Kept
<1>2. Photos' = Photos /\ Files' = Files /\ \A g \in Photos : PhotoOK(g)'
  BY <1>1, KeptPhotos
<1>3. \A g : Handled(g)' <=> Handled(g)
  BY <1>1 DEF Handled
<1>4. RunTypes'
  BY <1>1, <1>2 DEF SettleInv, RunTypes, Kept
<1>5. SettledOK'
  BY <1>1, <1>3, KeptSettled DEF SettleInv, SettledOK
<1>6. ReportOK'
  <2>1. YearMismatches' = YearMismatches
    BY <1>1, <1>2 DEF YearMismatches, InYearFolder, TagYear, Kept
  <2> QED
    BY <1>1, <1>2, <2>1 DEF SettleInv, ReportOK
<1>7. ASSUME NEW g \in Photos PROVE RunOK(g)'
  <2>1. RunOK(g) /\ Base(g)' = Base(g)
    BY <1>1 DEF SettleInv, Base, Kept
  <2> QED
    BY <1>1, <1>3, <2>1 DEF RunOK, Kept
<1> QED
  BY <1>1, <1>2, <1>4, <1>5, <1>6, <1>7 DEF SettleInv, Kept

\* If every offset is a real one, photos settle: once a run has read and tagged
\* one it reads its own date back, and the folder that it chose is its year.
THEOREM SettleInductive ==
  ASSUME RealOffsets
  PROVE  Spec => [](DatingInv /\ SettleInv)
<1>1. Init => DatingInv /\ SettleInv
  BY DatingInitOK, SettleInitOK
<1>2. ASSUME DatingInv, DatingInv', SettleInv, [Next]_vars PROVE SettleInv'
  BY <1>2, StartSettles, ReadSettles, ResolveSettles, PairSettles, ZoneSettles, WriteSettles,
     SkipSettles, TagsDoneSettles, PlaceSettles, FinishSettles, StopSettles, IdleSettles
  DEF Next, Handle
<1>3. Spec => []DatingInv
  BY DatingInductive
<1> QED
  BY <1>1, <1>2, <1>3, PTL DEF Spec

\* Once a run has ended with exit code 0 no later one changes the tags of a
\* photo, and one in which nothing fails reports none of them: in any library
\* with real offsets, whatever was stopped or failed before (e2e_test.go).
THEOREM SecondRunQuiet ==
  ASSUME RealOffsets
  PROVE  Spec => PhotosSettle
<1>1. ASSUME DatingInv, SettleInv, [Next]_vars PROVE [NoOp(Photos)]_vars
  <2> SUFFICES ASSUME settled, ~(UNCHANGED vars)
               PROVE  /\ \A f \in Photos : tags'[f] = tags[f]
                      /\ report' # report /\ report' # None /\ wrong = {} =>
                           report'.errors \cap Photos = {}
    BY DEF NoOp
  <2>1. Next
    BY <1>1
  <2>2. \A f \in Photos : /\ Quiet(file[f], tags[f])
                         /\ SameDay(tags[f], Again(file[f], tags[f]))
    BY <1>1 DEF SettleInv, SettledOK
  <2>3. ASSUME NEW f \in Photos PROVE tags'[f] = tags[f]
    <3>1. CASE \E g \in Files : WriteTags(g)
      <4>1. PICK g \in Files : WriteTags(g)
        BY <3>1
      <4>2. CASE g = f
        BY <1>1, <2>2, <4>1, <4>2, QuietUntouched
      <4>3. CASE g # f
        <5>1. DOMAIN tags = Files /\ f \in Files
          BY <1>1, PhotosAre DEF SettleInv, RunTypes
        <5> QED
          BY <4>1, <4>3, <5>1 DEF WriteTags
      <4> QED
        BY <4>2, <4>3
    <3>2. CASE ~(\E g \in Files : WriteTags(g))
      <4>1. tags' = tags
        BY <2>1, <3>2 DEF Next, Handle, Start, ReadEmbedded, ResolveDates, PairLive, Zone,
           NoTagsWritten, TagsDone, Place, Finish, Stop
      <4> QED
        BY <4>1
    <3> QED
      BY <3>1, <3>2
  <2>4. ASSUME report' # report, report' # None, wrong = {}
        PROVE  report'.errors \cap Photos = {}
    <3>1. Finish
      BY <2>1, <2>4 DEF Next, Handle, Start, ReadEmbedded, ResolveDates, PairLive, Zone,
         WriteTags, NoTagsWritten, TagsDone, Place, Stop
    <3>2. report'.errors = Unequal /\ phase = "place"
      BY <2>4, <3>1 DEF Finish, ReadBackErrors
    <3>3. ASSUME NEW f \in Photos PROVE f \notin Unequal
      <4>1. Handled(f) /\ f \notin wrong
        BY <2>4, <3>2 DEF Handled
      <4>2. f \notin bad
        BY <1>1, <4>1 DEF SettleInv, SettledOK
      <4>3. Agrees(file[f], tags[f], when[f])
        BY <1>1, <4>1, <4>2 DEF SettleInv, RunOK
      <4>4. Tagged(tags[f]) /\ IsPhoto(file[f]) /\ Sane(file[f])
        BY <1>1, PhotosAre, SaneFiles DEF SettleInv, RunTypes
      <4>5. ~Reports(tags[f], when[f])
        BY <2>2, <4>3, <4>4, AgreedReport
      <4> QED
        BY <4>1, <4>5, ReadBackOf
    <3> QED
      BY <3>2, <3>3
  <2> QED
    BY <2>3, <2>4
<1> QED
  BY <1>1, SettleInductive, PTL DEF Spec, PhotosSettle

\* verify agrees with the run about every photo that could always be read and
\* written: in any library with real offsets, over any runs and stops.
THEOREM VerifyAgrees ==
  ASSUME RealOffsets
  PROVE  Spec => []PhotosAgree
<1>1. DatingInv /\ SettleInv => PhotosAgree
  <2> SUFFICES ASSUME SettleInv, report # None PROVE Verify(Photos \ hurt) = report.exit
    BY DEF PhotosAgree
  <2>1. ReportOK
    BY DEF SettleInv
  <2> QED
    BY <2>1 DEF ReportOK, Verify
<1> QED
  BY <1>1, SettleInductive, PTL
=============================================================================
