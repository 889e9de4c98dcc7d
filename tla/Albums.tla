------------------------------- MODULE Albums -------------------------------
(***************************************************************************)
(* How a run gives each photo its copies in the album folders, and how the *)
(* next run goes on: albums and linkAlbum in internal/pipeline/pipeline.go *)
(* with the journal records of internal/state.                             *)
(*                                                                         *)
(* The library itself is Placement's: here a photo has a place in it or    *)
(* has not (Place, PlaceFails).  An album path is a folder under           *)
(* results/albums and a name in it; album holds the owner of each.         *)
(***************************************************************************)
EXTENDS Naturals

CONSTANTS
  Count,       \* number of photos; the loops visit them in index order
  Folder,      \* album folders, as albumDirs names them
  Name,        \* file names in a folder, up to names.Key
  Stem,        \* base names
  MaxIndex,    \* bound: "base", "base (2)", ... "base (MaxIndex)"
  Named,       \* Named[s][n]: the name of stem s with index n
  Members,     \* Members[g]: the album folders that hold g in the archives
  StemOf,      \* StemOf[g]: the base name of g in its album folders
  Faults,      \* the kinds of fault that happen
  MaxFaults,   \* bound on how many happen
  Other,       \* owner of a file this program did not make
  Nobody       \* owner of a name that is not in use

Group  == 1 .. Count
Index  == 1 .. MaxIndex
Path   == Folder \X Name
Stages == {"none", "placed", "cloned"}
Rec    == [stage : Stages, albums : SUBSET Path]

ASSUME AlbumConstants ==
  /\ Count \in Nat /\ MaxIndex \in Nat /\ MaxFaults \in Nat
  /\ Named \in [Stem -> [Index -> Name]]
  /\ Members \in [Group -> SUBSET Folder] /\ StemOf \in [Group -> Stem]
  /\ Faults \subseteq {"stop", "put", "link", "place", "damage", "intrude"}
  /\ {Other, Nobody} \cap (Group \cup (Group \X Folder)) = {}
  /\ Other # Nobody

VARIABLES
  jm, jd,     \* journal records: in memory, and on disk
  album,      \* the owner of the file at each album path
  phase,      \* phase of the running pipeline, "off" when no process runs
  view,       \* the album folders in which this run can read each photo
  pc,         \* how far this run is with each photo
  made,       \* albums' local made: the copies it knows of
  todo,       \* the folders its loop has not been through
  aim,        \* the path picked last
  next,       \* placer.next: last index used per folder and stem
  taken,      \* placer.taken: the album paths this run has tried
  errs,       \* the photos that count in Report.AlbumErrors
  exit,       \* how the last complete run ended
  faults      \* how many faults there were, and of which kinds

local == <<made, todo, aim>>
placer == <<next, taken>>
Looping == {"links", "retry", "link", "withdraw"}
vars == <<jm, jd, album, phase, view, pc, made, todo, aim, next, taken, errs,
          exit, faults>>

Blank == [stage |-> "none", albums |-> {}]
With(stage, as) == [stage |-> stage, albums |-> as]
NoAim == <<>>

FaultLog == [n : 0 .. MaxFaults, kinds : SUBSET Faults]

AlbumTypeOK ==
  /\ jm \in [Group -> Rec] /\ jd \in [Group -> Rec]
  /\ album \in [Path -> Group \cup {Other, Nobody}]
  /\ phase \in {"off", "place", "albums", "done"}
  /\ view \in [Group -> SUBSET Folder]
  /\ pc \in [Group -> {"todo", "home", "failed", "end"} \cup Looping]
  /\ made \subseteq Path /\ todo \subseteq Folder /\ aim \in Path \cup {NoAim}
  /\ next \in [Folder \X Stem -> 0 .. MaxIndex] /\ taken \subseteq Path
  /\ errs \subseteq Group /\ exit \in {"none", "ok", "failed"}
  /\ faults \in FaultLog

Init ==
  /\ jm = [g \in Group |-> Blank] /\ jd = [g \in Group |-> Blank]
  /\ album = [p \in Path |-> Nobody]
  /\ phase = "off" /\ view = Members
  /\ pc = [g \in Group |-> "todo"]
  /\ made = {} /\ todo = {} /\ aim = NoAim
  /\ next = [x \in Folder \X Stem |-> 0] /\ taken = {}
  /\ errs = {} /\ exit = "none"
  /\ faults = [n |-> 0, kinds |-> {}]

-----------------------------------------------------------------------------
\* Helpers

Fault(kind) ==
  /\ kind \in Faults /\ faults.n < MaxFaults
  /\ faults' = [n |-> faults.n + 1, kinds |-> faults.kinds \cup {kind}]

Exists(p)  == album[p] # Nobody
Goto(g, s) == pc' = [pc EXCEPT ![g] = s]

\* The loops of run visit the groups in order, one at a time.
Turn(g, waiting) ==
  /\ pc[g] = waiting /\ \A h \in Group : h < g => pc[h] # waiting
  /\ \A h \in Group : pc[h] \notin Looping

\* Journal.Put, and a Put that fails: memory has the record in any case.
Put(g, r) == jm' = [jm EXCEPT ![g] = r] /\ jd' = [jd EXCEPT ![g] = r]
PutFails(g, r) ==
  /\ Fault("put")
  /\ jm' = [jm EXCEPT ![g] = r]
  /\ jd' \in {jd, [jd EXCEPT ![g] = r]}
PutIgnored(g, r) == (Put(g, r) /\ UNCHANGED faults) \/ PutFails(g, r)

-----------------------------------------------------------------------------
\* A run starts and ends

Fresh ==
  /\ jm' = jd /\ pc' = [g \in Group |-> "todo"]
  /\ made' = {} /\ todo' = {} /\ aim' = NoAim
  /\ next' = [x \in Folder \X Stem |-> 0] /\ taken' = {}
  /\ errs' = {} /\ exit' = "none"

\* A copy confirmDuplicates cannot read, in a damaged zip, becomes a group of
\* its own that fails; the photo then is in that album for this run no longer.
Readable(v) ==
  \/ v = Members /\ UNCHANGED faults
  \/ /\ Fault("damage")
     /\ \E g \in Group : \E f \in Members[g] :
          v = [Members EXCEPT ![g] = @ \ {f}]

Start ==
  /\ phase \in {"off", "done"} /\ phase' = "place"
  /\ \E v \in [Group -> SUBSET Folder] : Readable(v) /\ view' = v
  /\ Fresh
  /\ UNCHANGED <<jd, album>>

Stop ==
  /\ phase \in {"place", "albums"} /\ phase' = "off"
  /\ Fault("stop")
  /\ Fresh
  /\ UNCHANGED <<jd, album, view>>

\* Another program makes a file in an album folder.
Intrude(p) ==
  /\ phase = "albums" /\ ~Exists(p)
  /\ Fault("intrude")
  /\ album' = [album EXCEPT ![p] = Other]
  /\ UNCHANGED <<jm, jd, phase, view, pc, local, placer, errs, exit>>

-----------------------------------------------------------------------------
\* The place phase, as far as the album records are concerned

Place(g) ==
  /\ phase = "place" /\ Turn(g, "todo")
  /\ IF jm[g].stage = "none" THEN PutIgnored(g, With("placed", {}))
                             ELSE UNCHANGED <<jm, jd, faults>>
  /\ Goto(g, "home")
  /\ UNCHANGED <<album, phase, view, local, placer, errs, exit>>

\* The photo could not be read or placed in this run.
PlaceFails(g) ==
  /\ phase = "place" /\ Turn(g, "todo")
  /\ jm[g].stage = "none"
  /\ Fault("place")
  /\ Goto(g, "failed")
  /\ UNCHANGED <<jm, jd, album, phase, view, local, placer, errs, exit>>

PlaceDone ==
  /\ phase = "place" /\ phase' = "albums"
  /\ \A g \in Group : pc[g] # "todo"
  /\ UNCHANGED <<jm, jd, album, view, pc, local, placer, errs, exit, faults>>

-----------------------------------------------------------------------------
\* The album phase: albums, one group after the other

\* Variant (must fail): a photo with any album copy is done.
DoneIfAny(g) == jm[g].albums # {}

Done(g) == jm[g].stage = "cloned"

\* Nothing to do without a file in the library, or with a "cloned" record.
Skip(g) ==
  /\ phase = "albums" /\ Turn(g, "home")
  /\ Done(g)
  /\ Goto(g, "end")
  /\ UNCHANGED <<jm, jd, album, phase, view, local, placer, errs, exit, faults>>

\* Variant (must fail): every recorded copy counts.
AllRecorded(g) == jm[g].albums

\* Copies an earlier run recorded count when there is a file at their path.
Kept(g) == {p \in jm[g].albums : Exists(p)}

Enter(g) ==
  /\ phase = "albums" /\ Turn(g, "home")
  /\ ~Done(g)
  /\ made' = Kept(g)
  /\ todo' = view[g] \ {p[1] : p \in made'}
  /\ Goto(g, "links")
  /\ UNCHANGED <<jm, jd, album, phase, view, aim, placer, errs, exit, faults>>

\* placer.free: the names newPlacer reserves are names that exist.
Free(p) == p \notin taken /\ ~Exists(p)
Take(p) == taken' = taken \cup {p} /\ UNCHANGED next

\* placer.pick in folder f.
Picks(g, f, n) ==
  LET name(m) == <<f, Named[StemOf[g]][m]>>
      last    == next[<<f, StemOf[g]>>]
  IN  /\ n > last /\ Free(name(n))
      /\ \A m \in Index : last < m /\ m < n => ~Free(name(m))

\* The path is journaled before the copy is made.  When that fails, albums
\* returns with the intent still in memory.
Intend(g) ==
  /\ \E f \in Folder, n \in Index :
       /\ \/ pc[g] = "links" /\ f \in todo
          \/ pc[g] = "retry" /\ f = aim[1]
       /\ Picks(g, f, n)
       /\ next' = [next EXCEPT ![<<f, StemOf[g]>>] = n]
       /\ aim' = <<f, Named[StemOf[g]][n]>>
  /\ \/ /\ Put(g, With("placed", made \cup {aim'}))
        /\ Goto(g, "link")
        /\ UNCHANGED <<errs, faults>>
     \/ /\ PutFails(g, With("placed", made \cup {aim'}))
        /\ Goto(g, "end")
        /\ errs' = errs \cup {g}
  /\ UNCHANGED <<album, phase, view, made, todo, taken, exit>>

\* Variant (must fail): a copy that replaces what is there.
AnyName == TRUE

MayLink == ~Exists(aim)

\* media.Clone and media.Copy never replace a file: a whole copy appears.  (Beside
\* other writers: see Link in Placement.)
Link(g) ==
  /\ pc[g] = "link" /\ MayLink
  /\ album' = [album EXCEPT ![aim] = g]
  /\ made' = made \cup {aim} /\ todo' = todo \ {aim[1]}
  /\ Take(aim)
  /\ Goto(g, "links")
  /\ UNCHANGED <<jm, jd, phase, view, aim, errs, exit, faults>>

\* fs.ErrExist: the same folder is tried with the next name.
Collide(g) ==
  /\ pc[g] = "link" /\ ~MayLink
  /\ Take(aim)
  /\ Goto(g, "retry")
  /\ UNCHANGED <<jm, jd, album, phase, view, local, errs, exit, faults>>

\* The copy fails; its intent is withdrawn and the next run tries it again.
LinkFails(g) ==
  /\ pc[g] = "link" /\ MayLink
  /\ Fault("link")
  /\ errs' = errs \cup {g}
  /\ Take(aim)
  /\ Goto(g, "withdraw")
  /\ UNCHANGED <<jm, jd, album, phase, view, local, exit>>

Withdrawn == With("placed", made)

Withdraw(g) ==
  /\ pc[g] = "withdraw"
  /\ PutIgnored(g, Withdrawn)
  /\ Goto(g, "end")
  /\ UNCHANGED <<album, phase, view, local, placer, errs, exit>>

PutCloned(g) ==
  /\ pc[g] = "links" /\ todo = {}
  /\ \/ Put(g, With("cloned", made)) /\ UNCHANGED <<errs, faults>>
     \/ PutFails(g, With("cloned", made)) /\ errs' = errs \cup {g}
  /\ Goto(g, "end")
  /\ UNCHANGED <<album, phase, view, local, placer, exit>>

\* Exit code 3 when a file of the archives did not reach the library or an
\* album copy could not be made.
Finish ==
  /\ phase = "albums" /\ phase' = "done"
  /\ \A g \in Group : pc[g] \in {"end", "failed"}
  /\ exit' = IF errs # {} \/ view # Members \/ \E g \in Group : pc[g] = "failed"
             THEN "failed" ELSE "ok"
  /\ made' = {} /\ todo' = {} /\ aim' = NoAim
  /\ UNCHANGED <<jm, jd, album, view, pc, placer, errs, faults>>

-----------------------------------------------------------------------------
Copying(g) == Skip(g) \/ Enter(g) \/ Intend(g) \/ Link(g) \/ Collide(g)
              \/ LinkFails(g) \/ Withdraw(g) \/ PutCloned(g)
Step(g)    == Place(g) \/ PlaceFails(g) \/ Copying(g)

Next ==
  \/ Start \/ Stop \/ PlaceDone \/ Finish
  \/ \E p \in Path : Intrude(p)
  \/ \E g \in Group : Step(g)

Spec == Init /\ [][Next]_vars

\* A run that is not stopped goes on, and the command is given again.
FairSpec ==
  /\ Spec
  /\ WF_vars(PlaceDone \/ Finish)
  /\ \A g \in Group : WF_vars(Step(g))
  /\ SF_vars(Start)

-----------------------------------------------------------------------------
\* Properties

HasCopy(g, f) == \E x \in Name : album[<<f, x>>] = g

\* No photo gets a second copy in an album, however runs stop and start: the
\* intent is on disk before the copy, and what exists at it is not made again.
OneCopy ==
  \A g \in Group, f \in Folder, x, y \in Name :
    album[<<f, x>>] = g /\ album[<<f, y>>] = g => x = y

\* A run that reports success leaves a copy of every photo in each album that
\* holds it: failed copies of earlier runs are made good, and no name given to
\* another photo since hides one that was never made.
SuccessComplete ==
  exit = "ok" => \A g \in Group : \A f \in Members[g] : HasCopy(g, f)

\* So it is when runs are only stopped, and when copies, photos or names fail
\* and none is.  Both together, a journal write that fails or an unreadable
\* archive can leave an album short: see the run albums_damage.
OneTrouble == faults.kinds \subseteq {"stop"} \/ faults.kinds \subseteq {"link", "place", "intrude"}
AlbumsComplete == OneTrouble => SuccessComplete

\* A photo belongs once in each of its albums; a file in an album folder is the
\* one copy of a photo there, or another program's.
Belongs == {m \in Group \X Folder : m[2] \in Members[m[1]]}
Shelf == [p \in Path |-> IF album[p] \in {Other, Nobody} THEN album[p]
                         ELSE <<album[p], p[1]>>]
A == INSTANCE Library WITH Group <- Belongs, shelf <- Shelf

\* A copy in an album folder, like any other file there, is never replaced; it
\* belongs to a photo that is in that album and has no other copy there.
AlbumLibrary == A!Spec

\* Whatever failed or was cut off, in the end every album is complete.
EventuallyComplete ==
  <>[](OneTrouble => \A g \in Group : \A f \in Members[g] : HasCopy(g, f))

-----------------------------------------------------------------------------
\* The inductive invariant behind OneCopy and AlbumLibrary

\* A copy of g is in both records; while its loop runs, it is among the copies
\* the loop knows of, and its folder is not among those still to visit.
Recorded(g, p) ==
  /\ p \in jm[g].albums /\ jm[g].stage # "none"
  /\ p \in jd[g].albums /\ jd[g].stage # "none"
  /\ pc[g] \in Looping => p \in made /\ p[1] \notin todo

LoopOK(g) ==
  /\ \A h \in Group \ {g} : pc[h] \notin Looping
  /\ todo \subseteq Members[g]
  /\ pc[g] # "links" => aim \in Path /\ aim[1] \in todo
  /\ pc[g] = "link" => jm[g] = With("placed", made \cup {aim}) /\ jd[g] = jm[g]

Viewed == \A g \in Group : view[g] \subseteq Members[g]
Owned  == \A g \in Group, p \in Path :
            album[p] = g => Recorded(g, p) /\ p[1] \in Members[g]
Looped == \A g \in Group : pc[g] \in Looping => LoopOK(g)

AlbumInv == AlbumTypeOK /\ Viewed /\ Owned /\ Looped /\ OneCopy

-----------------------------------------------------------------------------
\* The inductive invariants behind AlbumsComplete, beside AlbumInv

Stopped == faults.kinds = {"stop"}
Gentle  == faults.kinds \subseteq {"stop"}

\* The loops go through the photos in order; one that ends without a "cloned"
\* record, and one that failed, is counted or was met by a fault.
TurnOK(g) ==
  /\ pc[g] = "todo" => phase \in {"off", "place"}
  /\ pc[g] \in Looping =>
       phase = "albums" /\ \A h \in Group : h < g => pc[h] \in {"end", "failed"}
  /\ pc[g] = "end" => jm[g].stage = "cloned" \/ g \in errs
  /\ pc[g] = "failed" => "place" \in faults.kinds
  /\ pc[g] = "withdraw" => g \in errs
  /\ g \in errs => ~Gentle

ExitOK ==
  exit # "none" => phase = "done" /\ (exit = "ok" => \A g \in Group : jm[g].stage = "cloned")

TurnInv == ExitOK /\ \A g \in Group : TurnOK(g)

\* What the loop knows of is made, and what is not is still to be done.
MadeOK(g) ==
  /\ jm[g].stage # "cloned"
  /\ \A p \in made : album[p] = g
  /\ \A f \in Members[g] : f \in todo \/ \E p \in made : p[1] = f
  /\ Gentle => /\ pc[g] \in {"links", "link"}
               /\ \A p \in jm[g].albums : album[p] \in {g, Nobody}

\* A recorded copy is there, or was intended when a run was stopped; no photo
\* before that one is without its copies, so none will take the name from it.
KnownOK(g) ==
  \A p \in jm[g].albums :
    \/ album[p] = g
    \/ /\ album[p] = Nobody /\ Stopped
       /\ \A h \in Group : h < g => jm[h].stage = "cloned"

GroupOK(g) ==
  IF jm[g].stage = "cloned" THEN \A f \in Members[g] : HasCopy(g, f)
  ELSE pc[g] \notin Looping => KnownOK(g)

CompleteInv ==
  OneTrouble => /\ view = Members /\ jm = jd
                /\ \A g \in Group : GroupOK(g) /\ (pc[g] \in Looping => MadeOK(g))
=============================================================================
