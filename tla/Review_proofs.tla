---------------------------- MODULE Review_proofs ----------------------------
(***************************************************************************)
(* Proofs about Review.tla: for any zips, damaged in any way in any run,   *)
(* and stops, failures and files of others at any moment, unzipping        *)
(* replaces no file and a folder that has .complete has its whole zip; a   *)
(* run that ends accounts for every photo whose content can be told, and   *)
(* its report's numbers are right.                                         *)
(***************************************************************************)
EXTENDS Review, FiniteSetTheorems, WellFoundedInduction, TLAPS

-----------------------------------------------------------------------------
\* The entries

\* A set of numbers that is not empty has a least one.
LEMMA Least ==
  ASSUME NEW S \in SUBSET Nat, S # {}
  PROVE  \E m \in S : \A n \in S : m <= n
<1> DEFINE R == OpToRel(<, Nat)
<1>1. IsWellFoundedOn(R, Nat)
  BY NatLessThanWellFounded
<1>2. \A a, b \in Nat : a < b => <<a, b>> \in R
  BY DEF OpToRel
<1> HIDE DEF R
<1>3. PICK m \in S : \A n \in S : ~ (<<n, m>> \in R)
  BY <1>1, WFMin
<1>4. \A n \in S : n \in Nat /\ m \in Nat /\ ~(n < m)
  BY <1>2, <1>3
<1>5. \A n \in S : m <= n
  BY <1>4
<1> QED
  BY <1>5

\* What the commands are.
Given == \E c \in Commands : arch = c.arch

LEMMA Entries ==
  ASSUME Given
  PROVE  /\ DOMAIN arch \subseteq Nat /\ Nothing \notin Hashes /\ Alien \notin Hashes
         /\ \A d, e \in DOMAIN arch : arch[d].hash = arch[e].hash => arch[d].sig = arch[e].sig
         /\ \A z : Wanted(z) \subseteq DOMAIN arch /\ Contents(z) \subseteq Hashes
         /\ \A z : \A e \in Wanted(z) : arch[e].hash \in Contents(z)
BY ReviewConstants DEF Given, Hashes, Wanted, Contents

\* The entry being unzipped is one that is still to do.
LEMMA CurrentIsTodo ==
  ASSUME Given, UnzOK, unz.step # "zip", unz.todo # {}
  PROVE  Current \in unz.todo /\ Current \in Wanted(unz.zip) /\ Current \in DOMAIN arch
<1>1. unz.todo \subseteq Wanted(unz.zip) /\ unz.todo \in SUBSET Nat
  BY Entries DEF UnzOK
<1>2. Current \in unz.todo
  BY <1>1, Least DEF Current
<1> QED
  BY <1>1, <1>2, Entries

LEMMA NamesAre ==
  ASSUME NEW name \in Indexed(Bases), NEW n \in 1 .. MaxIndex
  PROVE  WithIndex(name, n) \in Names
BY DEF Names, Indexed

LEMMA FirstNames ==
  ASSUME NEW e \in DOMAIN arch, NEW n \in 1 .. MaxIndex
  PROVE  WithIndex(arch[e].rel, n) \in Indexed(Bases)
BY DEF Indexed, Bases

LEMMA NamedNames ==
  ASSUME NEW name \in Indexed(Bases)
  PROVE  name \in Names
<1>1. 1 \in 1 .. MaxIndex /\ WithIndex(name, 1) = name
  BY ReviewConstants DEF WithIndex
<1> QED
  BY <1>1, NamesAre

-----------------------------------------------------------------------------
\* Unzipping

UnzipInv == Given /\ FoldersOK /\ UnzFields /\ UnzOK /\ Unpacked

\* The archive is the same in all runs, and so is what is made of it.
Same == arch' = arch

LEMMA SameArchive ==
  ASSUME Same
  PROVE  /\ Given' = Given /\ Zips' = Zips /\ Names' = Names /\ Bases' = Bases /\ Hashes' = Hashes
         /\ \A z : Wanted(z)' = Wanted(z) /\ Contents(z)' = Contents(z) /\ Telling(z)' = Telling(z)
BY DEF Same, Given, Zips, Names, Bases, Hashes, Wanted, Contents, Telling, Indexed

\* A folder that loses no file loses no whole one.
LEMMA WholeStays ==
  ASSUME Given, Same, NEW z \in Zips, NEW e \in Wanted(z), Whole(z, e),
         \A name \in Names : disk[z][name] # Nothing => disk'[z][name] = disk[z][name]
  PROVE  Whole(z, e)'
<1>1. PICK name \in Names : disk[z][name] = arch[e].hash
  BY DEF Whole
<1>2. disk[z][name] # Nothing
  BY <1>1, Entries
<1>3. disk'[z][name] = arch'[e].hash
  BY <1>1, <1>2 DEF Same
<1> QED
  BY <1>3, SameArchive DEF Whole

\* No step replaces a file.
Keeps == \A z \in Zips, name \in Names : disk[z][name] # Nothing => disk'[z][name] = disk[z][name]

LEMMA UnpackedStays ==
  ASSUME UnzipInv, Same, Keeps, complete' = complete
  PROVE  Unpacked'
<1>1. ASSUME NEW z \in complete, Telling(z), NEW e \in Wanted(z) PROVE Whole(z, e)'
  <2>1. z \in Zips /\ Whole(z, e)
    BY <1>1 DEF UnzipInv, FoldersOK, Unpacked, Whole
  <2> QED
    BY <2>1, WholeStays DEF UnzipInv, Keeps
<1> QED
  BY <1>1, SameArchive DEF Unpacked, Whole

\* A run begins to unzip, or leaves off.
LEMMA IdleStep ==
  ASSUME UnzipInv, Same, disk' = disk, complete' = complete, FoldersOK', unz' = Idle
  PROVE  UnzipInv'
<1>1. Keeps
  BY DEF Keeps
<1>2. UnzOK' /\ UnzFields'
  BY DEF UnzOK, UnzFields, Idle
<1> QED
  BY <1>1, <1>2, UnpackedStays, SameArchive DEF UnzipInv

LEMMA NextZipStep ==
  ASSUME UnzipInv, Same, NextZip
  PROVE  UnzipInv' /\ Keeps
<1>1. FoldersOK' /\ Keeps /\ complete' = complete
  BY SameArchive DEF NextZip, unzipped, UnzipInv, FoldersOK, Keeps
<1>2. PICK z \in Zips : unz' = IF z \in complete THEN [Idle EXCEPT !.zip = z]
                 ELSE [Idle EXCEPT !.zip = z, !.step = "file", !.todo = Wanted(z)]
  BY DEF NextZip
<1>3. CASE z \in complete
  <2>1. unz' = [zip |-> z, step |-> "zip", todo |-> {}, taken |-> {}, name |-> <<>>, n |-> 1]
    BY <1>2, <1>3 DEF Idle
  <2>2. UnzOK' /\ UnzFields'
    BY <2>1 DEF UnzOK, UnzFields
  <2> QED
    BY <1>1, <2>2, UnpackedStays, SameArchive DEF UnzipInv
<1>4. CASE z \notin complete
  <2>1. unz' = [zip |-> z, step |-> "file", todo |-> Wanted(z), taken |-> {}, name |-> <<>>, n |-> 1]
    BY <1>2, <1>4 DEF Idle
  <2>2. UnzOK' /\ UnzFields'
    BY <2>1, SameArchive DEF UnzOK, UnzFields
  <2> QED
    BY <1>1, <2>2, UnpackedStays, SameArchive DEF UnzipInv
<1> QED
  BY <1>3, <1>4

LEMMA NextFileStep ==
  ASSUME UnzipInv, Same, NextFile
  PROVE  UnzipInv' /\ Keeps
<1>1. FoldersOK' /\ Keeps /\ complete' = complete /\ disk' = disk
  BY SameArchive DEF NextFile, unzipped, UnzipInv, FoldersOK, Keeps
<1>2. PICK n \in 1 .. MaxIndex :
        unz' = [unz EXCEPT !.step = "look", !.name = WithIndex(arch[Current].rel, n), !.n = 1,
                           !.taken = @ \cup {WithIndex(arch[Current].rel, n)}]
  BY DEF NextFile
<1> DEFINE name == WithIndex(arch[Current].rel, n)
<1>3. unz' = [zip |-> unz.zip, step |-> "look", todo |-> unz.todo,
              taken |-> unz.taken \cup {name}, name |-> name, n |-> 1]
  BY <1>2 DEF UnzipInv, UnzFields
<1> HIDE DEF name
<1>4. unz.step = "file" /\ unz.todo # {}
  BY DEF NextFile
<1>5. name \in Indexed(Bases) /\ 1 \in 1 .. MaxIndex
  BY <1>4, CurrentIsTodo, FirstNames, ReviewConstants DEF UnzipInv, name
<1>6. UnzFields'
  BY <1>3 DEF UnzFields
<1>7. UnzOK'
  <2>1. Indexed(Bases)' = Indexed(Bases)
    BY SameArchive DEF Indexed
  <2> QED
    BY <1>1, <1>3, <1>4, <1>5, <2>1, SameArchive DEF UnzipInv, UnzOK, Whole, Same
<1> QED
  BY <1>1, <1>6, <1>7, UnpackedStays, SameArchive DEF UnzipInv

\* The step with an entry of the zip leaves the rest of unz as it is.
Working(step, left, n) ==
  unz' = [zip |-> unz.zip, step |-> step, todo |-> left, taken |-> unz.taken,
          name |-> unz.name, n |-> n]

\* An entry that is done is there, whole.
LEMMA DoneStep ==
  ASSUME UnzipInv, Same, Keeps, FoldersOK', complete' = complete,
         unz.step \in {"look", "copy", "move"}, unz' = Done,
         NEW z, z = unz.zip, NEW c, c = Current, Telling(z) => Whole(z, c)'
  PROVE  UnzipInv'
<1>1. Working("file", unz.todo \ {c}, unz.n)
  BY DEF Working, Done, UnzipInv, UnzFields
<1>2. UnzFields'
  BY <1>1 DEF Working, UnzFields
<1>3. z \in Zips /\ unz.todo \subseteq Wanted(z)
  BY DEF UnzipInv, UnzOK
<1>4. ASSUME Telling(z), NEW e \in Wanted(z) \ (unz.todo \ {c})
      PROVE  Whole(z, e)'
  <2>1. CASE e = c
    BY <1>4, <2>1
  <2>2. CASE e # c
    <3>1. Whole(z, e)
      BY <1>4, <2>2 DEF UnzipInv, UnzOK
    <3> QED
      BY <1>3, <1>4, <3>1, WholeStays DEF UnzipInv, Keeps
  <2> QED
    BY <2>1, <2>2
<1>5. unz'.step = "file" /\ unz'.zip = z /\ unz'.todo = unz.todo \ {c}
  BY <1>1 DEF Working
<1>6. UnzOK'
  <2>1. Telling(z)' => \A e \in Wanted(z)' \ unz'.todo : Whole(z, e)'
    BY <1>4, <1>5, SameArchive
  <2>2. z \in Zips' /\ unz'.todo \subseteq Wanted(z)'
    BY <1>3, <1>5, SameArchive
  <2>3. (/\ unz.zip \in Zips /\ unz.todo \subseteq Wanted(unz.zip)
         /\ Telling(unz.zip) => \A e \in Wanted(unz.zip) \ unz.todo : Whole(unz.zip, e))'
    BY <1>5, <2>1, <2>2 DEF Telling, Wanted, Whole
  <2> QED
    BY <1>5, <2>3 DEF UnzOK
<1> QED
  BY <1>2, <1>6, UnpackedStays, SameArchive DEF UnzipInv

\* A file that is taken for an entry, in a zip that tells them apart, is it.
LEMMA AlreadyIsWhole ==
  ASSUME UnzipInv, unz.step \in {"look", "move"}, AlreadyThere(Found, Current), Telling(unz.zip)
  PROVE  Whole(unz.zip, Current)
<1>1. unz.zip \in Zips /\ unz.todo # {} /\ unz.name \in Indexed(Bases) /\ unz.n \in 1 .. MaxIndex
  BY DEF UnzipInv, UnzOK
<1>2. Target \in Names
  BY <1>1, NamesAre DEF Target
<1>3. Current \in Wanted(unz.zip)
  BY <1>1, CurrentIsTodo DEF UnzipInv
<1>4. Found \in Hashes /\ Found \in {Nothing, Alien} \cup Contents(unz.zip)
  BY <1>1, <1>2 DEF AlreadyThere, Extracted, SameSizeAndCRC, Found, UnzipInv, FoldersOK
<1>5. PICK w \in Wanted(unz.zip) : Found = arch[w].hash
  BY <1>4, Entries DEF Contents, UnzipInv
<1>6. PICK d \in DOMAIN arch : arch[d].hash = Found /\ arch[d].sig = arch[Current].sig
  BY DEF AlreadyThere, Extracted, SameSizeAndCRC
<1>7. arch[w].sig = arch[Current].sig
  BY <1>5, <1>6, Entries DEF UnzipInv
<1>8. arch[w].hash = arch[Current].hash
  BY <1>3, <1>5, <1>7 DEF Telling
<1> QED
  BY <1>2, <1>5, <1>8 DEF Whole, Found

\* partial changes at one name.
PartialAt == \E p : partial' = [partial EXCEPT ![unz.zip][unz.name] = p]

LEMMA PartialFolders ==
  ASSUME UnzipInv, Same, disk' = disk, complete' = complete, PartialAt \/ partial' = partial
  PROVE  FoldersOK' /\ Keeps
BY SameArchive DEF UnzipInv, FoldersOK, PartialAt, Keeps

LEMMA LookStep ==
  ASSUME UnzipInv, Same, LookAt
  PROVE  UnzipInv' /\ Keeps
<1>1. unz.step \in {"look", "move"} /\ disk' = disk /\ complete' = complete /\ PartialAt
  BY DEF LookAt, PartialAt
<1>2. FoldersOK' /\ Keeps
  BY <1>1, PartialFolders
<1>3. CASE AlreadyThere(Found, Current) /\ unz' = Done
  <2>1. ASSUME NEW z, z = unz.zip, NEW c, c = Current, Telling(z) PROVE Whole(z, c)'
    <3>1. Whole(z, c)
      BY <1>1, <1>3, <2>1, AlreadyIsWhole
    <3> QED
      BY <1>1, <3>1, SameArchive DEF Whole, Same
  <2> QED
    BY <1>1, <1>2, <1>3, <2>1, DoneStep
<1>4. CASE ~AlreadyThere(Found, Current) /\ unz.n < MaxIndex /\ unz' = [unz EXCEPT !.n = @ + 1]
  <2>1. Working(unz.step, unz.todo, unz.n + 1) /\ UnzFields'
    BY <1>4 DEF Working, UnzipInv, UnzFields
  <2>2. unz.n + 1 \in 1 .. MaxIndex
    BY <1>1, <1>4, ReviewConstants DEF UnzipInv, UnzOK
  <2>3. partial'[unz.zip][unz.name] = partial[unz.zip][unz.name]
    BY <1>4 DEF LookAt
  <2>4. /\ unz'.step = unz.step /\ unz'.zip = unz.zip /\ unz'.todo = unz.todo
        /\ unz'.name = unz.name /\ unz'.n = unz.n + 1
    BY <2>1 DEF Working
  <2>5. Indexed(Bases)' = Indexed(Bases) /\ Current' = Current
    BY <2>4, SameArchive DEF Indexed, Current
  <2>6. UnzOK'
    BY <1>1, <2>2, <2>3, <2>4, <2>5, SameArchive DEF UnzipInv, UnzOK, Whole, Same
  <2> QED
    BY <1>1, <1>2, <2>1, <2>6, UnpackedStays, SameArchive DEF UnzipInv
<1> QED
  BY <1>3, <1>4 DEF LookAt

\* A step on one entry that changes no file in a folder.
LEMMA EntryStep ==
  ASSUME UnzipInv, Same, disk' = disk, complete' = complete, FoldersOK',
         NEW step \in {"look", "copy", "move"}, unz.step \in {"look", "copy", "move"},
         NEW n \in 1 .. MaxIndex, Working(step, unz.todo, n), unz'.name = unz.name,
         step = "move" => partial'[unz.zip][unz.name] = arch[Current].hash
  PROVE  UnzipInv' /\ Keeps
<1>1. Keeps /\ UnzFields'
  BY DEF Keeps, Working, UnzFields
<1>2. /\ unz'.step = step /\ unz'.zip = unz.zip /\ unz'.todo = unz.todo
      /\ unz'.name = unz.name /\ unz'.n = n
  BY DEF Working
<1>3. Indexed(Bases)' = Indexed(Bases) /\ Current' = Current
  BY <1>2, SameArchive DEF Indexed, Current
<1>4. UnzOK'
  BY <1>2, <1>3, SameArchive DEF UnzipInv, UnzOK, Whole, Same
<1> QED
  BY <1>1, <1>4, UnpackedStays, SameArchive DEF UnzipInv

LEMMA CreateStep ==
  ASSUME UnzipInv, Same, CreatePartial
  PROVE  UnzipInv' /\ Keeps
<1>1. /\ unz.step = "look" /\ disk' = disk /\ complete' = complete /\ PartialAt
      /\ unz' = [unz EXCEPT !.step = "copy"]
  BY DEF CreatePartial, PartialAt
<1>2. FoldersOK'
  BY <1>1, PartialFolders
<1>3. Working("copy", unz.todo, unz.n) /\ unz'.name = unz.name /\ unz.n \in 1 .. MaxIndex
  BY <1>1 DEF Working, UnzipInv, UnzFields, UnzOK
<1> QED
  BY <1>1, <1>2, <1>3, EntryStep

LEMMA CopyStep ==
  ASSUME UnzipInv, Same, Copy
  PROVE  UnzipInv' /\ Keeps
<1>1. /\ unz.step = "copy" /\ disk' = disk /\ complete' = complete
      /\ partial' = [partial EXCEPT ![unz.zip][unz.name] = arch[Current].hash]
      /\ unz' = [unz EXCEPT !.step = "move"]
  BY DEF Copy
<1>2. FoldersOK'
  BY <1>1, PartialFolders DEF PartialAt
<1>3. /\ Working("move", unz.todo, unz.n) /\ unz'.name = unz.name /\ unz.n \in 1 .. MaxIndex
      /\ unz.zip \in Zips /\ unz.name \in Names
  BY <1>1, NamedNames DEF Working, UnzipInv, UnzFields, UnzOK
<1>4. partial'[unz.zip][unz.name] = arch[Current].hash
  BY <1>1, <1>3 DEF UnzipInv, FoldersOK
<1> QED
  BY <1>1, <1>2, <1>3, <1>4, EntryStep

LEMMA FailsStep ==
  ASSUME UnzipInv, Same, CopyFails
  PROVE  UnzipInv' /\ Keeps
<1>1. disk' = disk /\ complete' = complete /\ PartialAt /\ unz' = Idle
  BY DEF CopyFails, PartialAt
<1> QED
  BY <1>1, PartialFolders, IdleStep

LEMMA MoveStep ==
  ASSUME UnzipInv, Same, Move
  PROVE  UnzipInv' /\ Keeps
<1>1. /\ unz.step = "move" /\ Found = Nothing /\ unz' = Done /\ complete' = complete
      /\ disk' = [disk EXCEPT ![unz.zip][Target] = partial[unz.zip][unz.name]]
      /\ partial' = [partial EXCEPT ![unz.zip][unz.name] = Nothing]
  BY DEF Move, MoveFree, Moved
<1>2. /\ unz.zip \in Zips /\ unz.todo # {} /\ unz.name \in Indexed(Bases) /\ unz.n \in 1 .. MaxIndex
      /\ partial[unz.zip][unz.name] = arch[Current].hash
  BY <1>1 DEF UnzipInv, UnzOK
<1>3. Target \in Names
  BY <1>2, NamesAre DEF Target
<1>4. Current \in Wanted(unz.zip) /\ arch[Current].hash \in Contents(unz.zip)
  BY <1>1, <1>2, CurrentIsTodo, Entries DEF UnzipInv
<1>5. PICK z, c, t : z = unz.zip /\ c = Current /\ t = Target
  OBVIOUS
<1>6. /\ disk' = [disk EXCEPT ![z][t] = arch[c].hash] /\ disk[z][t] = Nothing
      /\ z \in Zips /\ t \in Names /\ c \in Wanted(z) /\ arch[c].hash \in Contents(z)
  BY <1>1, <1>2, <1>3, <1>4, <1>5 DEF Found
<1>7. Keeps
  BY <1>6 DEF Keeps, UnzipInv, FoldersOK
<1>8. FoldersOK'
  <2>1. /\ DOMAIN disk' = Zips /\ DOMAIN partial' = Zips /\ complete' \subseteq Zips
        /\ \A y \in Zips : DOMAIN disk'[y] = Names /\ DOMAIN partial'[y] = Names
    BY <1>1, <1>6 DEF UnzipInv, FoldersOK
  <2>2. \A y \in Zips, name \in Names : disk'[y][name] \in {Nothing, Alien} \cup Contents(y)
    BY <1>6 DEF UnzipInv, FoldersOK
  <2> QED
    BY <2>1, <2>2, SameArchive DEF FoldersOK
<1>9. Whole(z, c)'
  BY <1>6, SameArchive DEF Whole, Same, UnzipInv, FoldersOK
<1> QED
  BY <1>1, <1>5, <1>7, <1>8, <1>9, DoneStep

\* .complete comes last.
LEMMA CompleteStep ==
  ASSUME UnzipInv, Same, Complete
  PROVE  UnzipInv' /\ Keeps
<1>1. /\ unz.step = "file" /\ unz.todo = {} /\ complete' = complete \cup {unz.zip}
      /\ unz' = [Idle EXCEPT !.zip = unz.zip] /\ disk' = disk /\ partial' = partial
  BY DEF Complete
<1>2. unz.zip \in Zips
  BY <1>1 DEF UnzipInv, UnzOK
<1>3. Keeps /\ FoldersOK'
  BY <1>1, <1>2, SameArchive DEF Keeps, UnzipInv, FoldersOK
<1>4. Unpacked'
  <2>1. ASSUME NEW z \in complete', Telling(z), NEW e \in Wanted(z) PROVE Whole(z, e)
    <3>1. CASE z \in complete
      BY <2>1, <3>1 DEF UnzipInv, Unpacked, Whole
    <3>2. CASE z = unz.zip
      BY <1>1, <2>1, <3>2 DEF UnzipInv, UnzOK
    <3> QED
      BY <1>1, <3>1, <3>2
  <2> QED
    BY <1>1, <2>1, SameArchive DEF Unpacked, Whole, Same
<1>5. unz' = [zip |-> unz.zip, step |-> "zip", todo |-> {}, taken |-> {}, name |-> <<>>, n |-> 1]
  BY <1>1 DEF Idle
<1>6. UnzOK' /\ UnzFields'
  BY <1>5 DEF UnzOK, UnzFields
<1> QED
  BY <1>3, <1>4, <1>6, SameArchive DEF UnzipInv

LEMMA IntrudeStep ==
  ASSUME UnzipInv, Same, NEW z \in Zips, NEW name \in Names, Intrude(z, name)
  PROVE  UnzipInv' /\ Keeps
<1>1. /\ disk[z][name] = Nothing /\ disk' = [disk EXCEPT ![z][name] = Alien]
      /\ UNCHANGED <<partial, complete, unz>>
  BY DEF Intrude
<1>2. Keeps
  BY <1>1 DEF Keeps, UnzipInv, FoldersOK
<1>3. FoldersOK'
  <2>1. /\ DOMAIN disk' = Zips /\ DOMAIN partial' = Zips /\ complete' \subseteq Zips
        /\ \A y \in Zips : DOMAIN disk'[y] = Names /\ DOMAIN partial'[y] = Names
    BY <1>1 DEF UnzipInv, FoldersOK
  <2>2. \A y \in Zips, m \in Names : disk'[y][m] \in {Nothing, Alien} \cup Contents(y)
    BY <1>1 DEF UnzipInv, FoldersOK
  <2> QED
    BY <2>1, <2>2, SameArchive DEF FoldersOK
<1>4. UnzOK'
  <2>1. ASSUME unz.step # "zip", Telling(unz.zip), NEW e \in Wanted(unz.zip) \ unz.todo,
               NEW y, y = unz.zip
        PROVE  Whole(y, e)'
    BY <1>2, <2>1, WholeStays DEF UnzipInv, UnzOK, Keeps
  <2>2. (unz.step # "zip" =>
           /\ unz.zip \in Zips /\ unz.todo \subseteq Wanted(unz.zip)
           /\ Telling(unz.zip) => \A e \in Wanted(unz.zip) \ unz.todo : Whole(unz.zip, e))'
    BY <1>1, <2>1, SameArchive DEF UnzipInv, UnzOK, Whole
  <2>3. Indexed(Bases)' = Indexed(Bases) /\ Current' = Current
    BY <1>1, SameArchive DEF Indexed, Current
  <2>4. (/\ unz.step \in {"zip", "file", "look", "copy", "move"}
         /\ unz.step \in {"look", "copy", "move"} =>
              unz.todo # {} /\ unz.name \in Indexed(Bases) /\ unz.n \in 1 .. MaxIndex
         /\ unz.step = "move" => partial[unz.zip][unz.name] = arch[Current].hash)'
    BY <1>1, <2>3 DEF UnzipInv, UnzOK, Same
  <2> QED
    BY <2>2, <2>4 DEF UnzOK
<1> QED
  BY <1>1, <1>2, <1>3, <1>4, UnpackedStays, SameArchive DEF UnzipInv, UnzFields

-----------------------------------------------------------------------------
\* The runs

NothingUnzipped == UNCHANGED <<arch, disk, partial, complete>>

LEMMA RestStep ==
  ASSUME UnzipInv, NothingUnzipped, unz' = unz \/ unz' = Idle
  PROVE  UnzipInv' /\ Keeps
<1>1. Same /\ Keeps /\ disk' = disk /\ partial' = partial /\ complete' = complete
  BY DEF NothingUnzipped, Same, Keeps
<1>2. FoldersOK'
  BY <1>1, SameArchive DEF UnzipInv, FoldersOK
<1>3. CASE unz' = Idle
  BY <1>1, <1>2, <1>3, IdleStep
<1>4. CASE unz' = unz
  <2>1. Indexed(Bases)' = Indexed(Bases) /\ Current' = Current
    BY <1>1, <1>4, SameArchive DEF Indexed, Current
  <2>2. UnzOK' /\ UnzFields'
    BY <1>1, <1>4, <2>1, SameArchive DEF UnzipInv, UnzOK, UnzFields, Whole, Same
  <2> QED
    BY <1>1, <1>2, <2>2, UnpackedStays, SameArchive DEF UnzipInv
<1> QED
  BY <1>1, <1>3, <1>4

LEMMA UnzippingStep ==
  ASSUME UnzipInv, Same, Unzipping
  PROVE  UnzipInv' /\ Keeps
BY NextZipStep, NextFileStep, LookStep, CreateStep, CopyStep, MoveStep, CompleteStep DEF Unzipping

LEMMA ReviewStep ==
  ASSUME UnzipInv, [Next]_vars
  PROVE  UnzipInv' /\ Keeps
<1>1. CASE UNCHANGED vars
  BY <1>1, RestStep DEF vars, NothingUnzipped
<1>2. ASSUME NEW readable, Start(readable) PROVE UnzipInv' /\ Keeps
  BY <1>2, RestStep DEF Start, unzipped, NothingUnzipped
<1>3. CASE UnzipStep
  BY <1>3, UnzippingStep DEF UnzipStep, Same
<1>4. CASE UnzipFails
  BY <1>4, FailsStep DEF UnzipFails, Same
<1>5. CASE AddAlien
  BY <1>5, IntrudeStep DEF AddAlien, Same
<1>6. CASE \/ UnzipDone \/ ConfirmDuplicates \/ Preflight \/ Finish \/ Stop
           \/ NextPhase("copy", "tags") \/ NextPhase("tags", "place")
  <2>1. NothingUnzipped /\ unz' = unz
    BY <1>6 DEF UnzipDone, ConfirmDuplicates, Preflight, Finish, Stop, NextPhase, NoUnzip,
                unzipped, NothingUnzipped
  <2> QED
    BY <2>1, RestStep
<1>7. ASSUME NEW g \in groups, Handle(g) PROVE UnzipInv' /\ Keeps
  <2>1. Pass(g)
    BY <1>7 DEF Handle, LeaveOut, Adopt, Extract, ExtractFails, Tag, StaysPlaced, Place, PlaceFails
  <2>2. NothingUnzipped /\ unz' = unz
    BY <2>1 DEF Pass, NoUnzip, unzipped, NothingUnzipped
  <2> QED
    BY <2>2, RestStep
<1> QED
  BY <1>1, <1>2, <1>3, <1>4, <1>5, <1>6, <1>7 DEF Next

LEMMA ReviewInitOK == Init => UnzipInv
<1> SUFFICES ASSUME Init PROVE UnzipInv
  OBVIOUS
<1>1. Given
  BY DEF Init, Given
<1>2. FoldersOK
  BY DEF Init, UnzipInit, FoldersOK
<1>3. UnzOK /\ UnzFields /\ Unpacked
  BY DEF Init, UnzipInit, Idle, UnzOK, UnzFields, Unpacked
<1> QED
  BY <1>1, <1>2, <1>3 DEF UnzipInv

\* Unzipping goes wrong nowhere, whatever is damaged, stopped, full or added.
THEOREM UnzipInductive == Spec => []UnzipInv
<1>1. UnzipInv /\ [Next]_vars => UnzipInv'
  BY ReviewStep
<1> QED
  BY ReviewInitOK, <1>1, PTL DEF Spec

\* A folder with .complete has every file of its zip, whole, in any later run.
THEOREM ReviewUnpacked == Spec => []Unpacked
<1>1. UnzipInv => Unpacked
  BY DEF UnzipInv
<1> QED
  BY UnzipInductive, <1>1, PTL

\* Unzipping never replaces a file, its own of an earlier run or another's.
THEOREM ReviewKeeps == Spec => UnzipKeeps
<1>1. UnzipInv /\ [Next]_vars =>
        [\A z \in Zips, name \in Names : disk[z][name] # Nothing => disk'[z][name] = disk[z][name]]_disk
  BY ReviewStep DEF Keeps
<1> QED
  BY UnzipInductive, <1>1, PTL DEF Spec, UnzipKeeps

-----------------------------------------------------------------------------
\* The types

Typed == TypeOK /\ RunOK

LEMMA TypedInit == Init => Typed
<1> SUFFICES ASSUME Init PROVE Typed
  OBVIOUS
<1>1. runs \in 0 .. MaxRuns /\ faults \in 0 .. MaxFaults
  BY ReviewConstants DEF Init
<1>2. files \in Seq([dir : Dirs, hash : Hashes])
  BY DEF Init
<1>3. DOMAIN got = {} /\ DOMAIN journal = {}
  BY DEF Init
<1> QED
  BY <1>1, <1>2, <1>3 DEF Init, Typed, TypeOK, RunOK

\* Steps that leave the library, the journal and the groups alone.
Quiet == UNCHANGED <<arch, staging, files, journal, groups>>

LEMMA QuietStep ==
  ASSUME Typed, Quiet, RunOK', got' = got, failed' \subseteq {g.id : g \in groups},
         good' \subseteq DOMAIN arch, todo' \subseteq groups, runs' \in 0 .. MaxRuns,
         faults' \in 0 .. MaxFaults,
         phase' \in {"off", "unzip", "duplicates", "copy", "tags", "place"}
  PROVE  Typed'
<1>1. Hashes' = Hashes /\ Entry' = Entry
  BY DEF Quiet, Hashes, Entry
<1> QED
  BY <1>1 DEF Typed, TypeOK, Quiet

LEMMA FaultTypes ==
  ASSUME Typed, NEW kind, Fault(kind)
  PROVE  faults' \in 0 .. MaxFaults
BY ReviewConstants DEF Typed, TypeOK, Fault

LEMMA StartTyped ==
  ASSUME Typed, NEW readable \in SUBSET DOMAIN arch, Start(readable)
  PROVE  Typed'
<1>1. /\ UNCHANGED <<arch, staging, files, journal, faults>>
      /\ got' = <<>> /\ failed' = {} /\ todo' = {} /\ groups' = {} /\ good' = readable
      /\ phase' \in {"unzip", "duplicates"} /\ runs' = runs + 1 /\ runs < MaxRuns
  BY DEF Start, NoResults, results
<1>2. Hashes' = Hashes /\ Entry' = Entry /\ DOMAIN got' = {}
  BY <1>1 DEF Hashes, Entry
<1>3. runs' \in 0 .. MaxRuns
  BY <1>1, ReviewConstants DEF Typed, TypeOK
<1> QED
  BY <1>1, <1>2, <1>3 DEF Typed, TypeOK, RunOK

LEMMA ConfirmTyped ==
  ASSUME Typed, ConfirmDuplicates
  PROVE  Typed'
<1>1. /\ UNCHANGED <<arch, good, staging, files, journal, faults, runs, got, failed>>
      /\ todo' = groups' /\ phase' = "copy" /\ got = <<>> /\ failed = {}
  BY DEF ConfirmDuplicates, results, Typed, RunOK
<1>2. Hashes' = Hashes /\ Entry' = Entry /\ DOMAIN got = {}
  BY <1>1 DEF Hashes, Entry
<1> QED
  BY <1>1, <1>2 DEF Typed, TypeOK, RunOK

LEMMA PhaseTyped ==
  ASSUME Typed,
         \/ UnzipStep \/ UnzipFails \/ UnzipDone \/ AddAlien \/ Preflight \/ Finish \/ Stop
         \/ NextPhase("copy", "tags") \/ NextPhase("tags", "place")
  PROVE  Typed'
<1>1. CASE UnzipStep \/ AddAlien
  <2>1. Quiet /\ UNCHANGED <<good, phase, todo, got, failed, runs, faults>>
    BY <1>1 DEF UnzipStep, AddAlien, NoResults, results, run, Quiet
  <2> QED
    BY <2>1, QuietStep DEF Typed, TypeOK, RunOK, Quiet
<1>2. CASE UnzipFails \/ Preflight \/ Stop
  <2>1. faults' \in 0 .. MaxFaults
    BY <1>2, FaultTypes DEF UnzipFails, Preflight, Stop, Typed, TypeOK
  <2>2. Quiet /\ UNCHANGED <<good, todo, got, failed, runs>> /\ phase' = "off"
    BY <1>2 DEF UnzipFails, Preflight, Stop, NoResults, results, Quiet
  <2> QED
    BY <2>1, <2>2, QuietStep DEF Typed, TypeOK, RunOK, Quiet
<1>3. CASE UnzipDone \/ Finish
  <2>1. /\ Quiet /\ UNCHANGED <<good, todo, got, failed, runs, faults>>
        /\ phase' \in {"off", "duplicates"} /\ (phase' = "duplicates" => phase = "unzip")
    BY <1>3 DEF UnzipDone, Finish, NoResults, results, Quiet
  <2> QED
    BY <2>1, QuietStep DEF Typed, TypeOK, RunOK, Quiet
<1>4. CASE NextPhase("copy", "tags") \/ NextPhase("tags", "place")
  <2>1. /\ Quiet /\ UNCHANGED <<good, got, failed, runs, faults>> /\ phase' \in {"tags", "place"}
        /\ todo' = {g \in groups : g.id \in DOMAIN got /\ g.id \notin failed}
    BY <1>4 DEF NextPhase, NoResults, results, Quiet
  <2> QED
    BY <2>1, QuietStep DEF Typed, TypeOK, RunOK, Quiet
<1> QED
  BY <1>1, <1>2, <1>3, <1>4

\* A step of a group g in its turn.
LEMMA GroupTyped ==
  ASSUME Typed, NEW g \in groups, Pass(g), faults' \in 0 .. MaxFaults,
         failed' = failed \/ Fail(g),
         got' = got \/ \E h \in Hashes : got' = With(got, g.id, h),
         staging' \subseteq Hashes, files' \in Seq([dir : Dirs, hash : Hashes]),
         \A id \in DOMAIN journal' : journal'[id] \in Entry',
         phase \in {"copy", "tags", "place"}
  PROVE  Typed'
<1>1. /\ UNCHANGED <<arch, good, phase, groups, runs>> /\ todo' = todo \ {g}
      /\ Hashes' = Hashes
  BY DEF Pass, Hashes
<1>2. /\ \A id \in DOMAIN got' : got'[id] \in Hashes
      /\ DOMAIN got \subseteq DOMAIN got' /\ DOMAIN got' \subseteq DOMAIN got \cup {g.id}
  <2>1. CASE got' = got
    BY <2>1 DEF Typed, TypeOK
  <2>2. ASSUME NEW h \in Hashes, got' = With(got, g.id, h)
        PROVE  DOMAIN got' = DOMAIN got \cup {g.id} /\ \A id \in DOMAIN got' : got'[id] \in Hashes
    <3>1. \A id \in DOMAIN got : got[id] \in Hashes
      BY DEF Typed, TypeOK
    <3>2. DOMAIN got' = DOMAIN got \cup {g.id}
      BY <2>2 DEF With
    <3>3. \A id \in DOMAIN got' : got'[id] = IF id = g.id THEN h ELSE got[id]
      BY <2>2 DEF With
    <3> QED
      BY <3>1, <3>2, <3>3
  <2> QED
    BY <2>1, <2>2
<1>3. failed' \subseteq {h.id : h \in groups}
  BY DEF Fail, Typed, TypeOK
<1>4. RunOK'
  BY <1>1, <1>2 DEF Typed, RunOK
<1> QED
  BY <1>1, <1>2, <1>3, <1>4 DEF Typed, TypeOK

\* Records of the journal stay right when the library grows.
LEMMA PutTypes ==
  ASSUME Typed, arch' = arch, Len(files') \in Nat, Len(files) <= Len(files'),
         journal' = journal \/
         \E hash \in Hashes, stage \in {"staged", "tagged", "placed"}, path \in 0 .. Len(files') :
           \E id : Put(id, stage, hash, path)
  PROVE  \A id \in DOMAIN journal' : journal'[id] \in Entry'
<1>0. /\ Len(files) \in Nat
      /\ Entry' = [stage : {"staged", "tagged", "placed"}, hash : Hashes, path : 0 .. Len(files')]
  BY DEF Typed, TypeOK, Entry, Hashes
<1>1. 0 .. Len(files) \subseteq 0 .. Len(files')
  BY <1>0
<1>2. Entry \subseteq Entry'
  BY <1>0, <1>1 DEF Entry
<1>3. \A id \in DOMAIN journal : journal[id] \in Entry'
  BY <1>2 DEF Typed, TypeOK
<1>4. ASSUME NEW hash \in Hashes, NEW stage \in {"staged", "tagged", "placed"},
             NEW path \in 0 .. Len(files'), NEW id, Put(id, stage, hash, path)
      PROVE  \A i \in DOMAIN journal' : journal'[i] \in Entry'
  <2> DEFINE rec == [stage |-> stage, hash |-> hash, path |-> path]
  <2>1. rec \in Entry'
    BY <1>0
  <2> HIDE DEF rec
  <2>2. /\ DOMAIN journal' = DOMAIN journal \cup {id}
        /\ \A i \in DOMAIN journal' : journal'[i] = IF i = id THEN rec ELSE journal[i]
    BY <1>4 DEF Put, With, rec
  <2> QED
    BY <1>3, <2>1, <2>2
<1> QED
  BY <1>3, <1>4

LEMMA HandleTyped ==
  ASSUME Typed, NEW g \in groups, Handle(g)
  PROVE  Typed'
<1>1. /\ Pass(g) /\ g \in todo /\ phase \in {"copy", "tags", "place"}
      /\ phase \in {"tags", "place"} => g.id \in DOMAIN got
  BY DEF Handle, LeaveOut, Adopt, Extract, ExtractFails, Tag, StaysPlaced, Place, PlaceFails,
         Turn, Typed, RunOK
<1>2. /\ arch' = arch /\ Hashes' = Hashes /\ Len(files) \in Nat
      /\ \A id \in DOMAIN got : got[id] \in Hashes
      /\ faults \in 0 .. MaxFaults /\ staging \subseteq Hashes /\ good \subseteq DOMAIN arch
      /\ files \in Seq([dir : Dirs, hash : Hashes])
      /\ \A id \in DOMAIN journal : journal[id].hash \in Hashes
  BY <1>1 DEF Pass, Hashes, Typed, TypeOK, Entry
<1>3. CASE LeaveOut(g) \/ StaysPlaced(g)
  <2>1. UNCHANGED <<got, failed, staging, journal, files, faults>>
    BY <1>3 DEF LeaveOut, StaysPlaced, results
  <2>2. \A id \in DOMAIN journal' : journal'[id] \in Entry'
    BY <1>2, <2>1, PutTypes
  <2> QED
    BY <1>1, <1>2, <2>1, <2>2, GroupTyped
<1>4. CASE ExtractFails(g) \/ PlaceFails(g)
  <2>1. UNCHANGED <<got, staging, journal, files>> /\ Fail(g)
    BY <1>4 DEF ExtractFails, PlaceFails, results
  <2>2. faults' \in 0 .. MaxFaults
    BY <1>2, <1>4, FaultTypes DEF ExtractFails, PlaceFails
  <2>3. \A id \in DOMAIN journal' : journal'[id] \in Entry'
    BY <1>2, <2>1, PutTypes
  <2> QED
    BY <1>1, <1>2, <2>1, <2>2, <2>3, GroupTyped
<1>5. CASE Adopt(g)
  <2>1. UNCHANGED <<failed, staging, journal, files, faults>> /\ got' = With(got, g.id, Get(g.id).hash)
    BY <1>5 DEF Adopt, results
  <2>2. g.id \in DOMAIN journal
    BY <1>5 DEF Adopt, Resumable, Get, NoRec
  <2>3. Get(g.id).hash \in Hashes
    BY <1>2, <2>2 DEF Get
  <2>4. \A id \in DOMAIN journal' : journal'[id] \in Entry'
    BY <1>2, <2>1, PutTypes
  <2>5. \E h \in Hashes : got' = With(got, g.id, h)
    BY <2>1, <2>3
  <2> QED
    BY <1>1, <1>2, <2>1, <2>4, <2>5, GroupTyped
<1>6. CASE Extract(g)
  <2> DEFINE h == arch[g.canon].hash
  <2>1. /\ UNCHANGED <<failed, files, faults>> /\ got' = With(got, g.id, h)
        /\ staging' = staging \cup {h} /\ Put(g.id, "staged", h, 0) /\ g.canon \in good
    BY <1>6 DEF Extract
  <2>2. h \in Hashes
    BY <1>2, <2>1 DEF Hashes
  <2> HIDE DEF h
  <2>3. \A id \in DOMAIN journal' : journal'[id] \in Entry'
    <3>1. 0 \in 0 .. Len(files')
      BY <1>2, <2>1
    <3> QED
      BY <1>2, <2>1, <2>2, <3>1, PutTypes
  <2>4. staging' \subseteq Hashes /\ \E x \in Hashes : got' = With(got, g.id, x)
    BY <1>2, <2>1, <2>2
  <2> QED
    BY <1>1, <1>2, <2>1, <2>3, <2>4, GroupTyped
<1>7. CASE Tag(g)
  <2>1. /\ UNCHANGED <<got, failed, staging, files, faults>>
        /\ journal' = journal \/ Put(g.id, "tagged", got[g.id], 0)
        /\ got[g.id] \in Hashes /\ 0 \in 0 .. Len(files')
    BY <1>1, <1>2, <1>7 DEF Tag, Turn
  <2>2. \A id \in DOMAIN journal' : journal'[id] \in Entry'
    BY <1>2, <2>1, PutTypes
  <2> QED
    BY <1>1, <1>2, <2>1, <2>2, GroupTyped
<1>8. CASE Place(g)
  <2>1. /\ UNCHANGED <<got, failed, faults>> /\ staging' \subseteq staging /\ got[g.id] \in staging
        /\ files' = Append(files, [dir |-> Folder(g), hash |-> got[g.id]])
        /\ Put(g.id, "placed", got[g.id], Len(files'))
    BY <1>8 DEF Place
  <2>2. Folder(g) \in Dirs /\ got[g.id] \in Hashes
    BY <1>2, <2>1 DEF Folder, Dirs
  <2>3. [dir |-> Folder(g), hash |-> got[g.id]] \in [dir : Dirs, hash : Hashes]
    BY <2>2
  <2>4. files' \in Seq([dir : Dirs, hash : Hashes]) /\ Len(files') = Len(files) + 1
    BY <1>2, <2>1, <2>3
  <2>5. Len(files') \in Nat /\ Len(files) <= Len(files') /\ Len(files') \in 0 .. Len(files')
    BY <1>2, <2>4
  <2>6. \A id \in DOMAIN journal' : journal'[id] \in Entry'
    BY <1>2, <2>1, <2>2, <2>5, PutTypes
  <2> QED
    BY <1>1, <1>2, <2>1, <2>4, <2>6, GroupTyped
<1> QED
  BY <1>3, <1>4, <1>5, <1>6, <1>7, <1>8 DEF Handle

\* The library, the journal and the staging folder only ever hold bytes of the
\* zips, a record points at a file that is there, and a run tags and places only
\* what it has copied or found.
THEOREM ReviewTypes == Spec => [](TypeOK /\ RunOK)
<1>1. ASSUME Typed, [Next]_vars PROVE Typed'
  <2>1. CASE UNCHANGED vars
    BY <1>1, <2>1 DEF vars, run, results, Typed, TypeOK, RunOK, Hashes, Entry
  <2>2. CASE Next
    BY <1>1, <2>2, StartTyped, ConfirmTyped, PhaseTyped, HandleTyped DEF Next
  <2> QED
    BY <1>1, <2>1, <2>2
<1> QED
  BY TypedInit, <1>1, PTL DEF Spec, Typed

-----------------------------------------------------------------------------
\* The groups

Folders == {"year", "archive", "album", "trash"}

LEMMA EntryTypes ==
  ASSUME Given
  PROVE  /\ IsFiniteSet(DOMAIN arch) /\ Media \subseteq DOMAIN arch /\ Ranks \in Nat
         /\ \A e \in DOMAIN arch :
              /\ e \in Nat /\ arch[e].hash \in 0 .. Ranks - 1 /\ arch[e].folder \in Folders
              /\ arch[e].kind \in {"media", "screenshot", "json", "system", "symlink"}
         /\ \A d, e \in DOMAIN arch : arch[d].hash = arch[e].hash => arch[d].sig = arch[e].sig
BY ReviewConstants DEF Given, Media, Folders

LEMMA Scores ==
  ASSUME NEW folder \in Folders
  PROVE  Score(folder) \in Nat /\ (Score(folder) >= 4 => folder = "trash")
         /\ Score("trash") = 4
BY DEF Score, Folders

\* One member comes before the others.
LEMMA CanonIsFirst ==
  ASSUME Given, NEW S \in SUBSET Media, S # {}
  PROVE  Canon(S) \in S /\ \A c \in S : Before(Canon(S), c)
<1> DEFINE scores == {Score(arch[e].folder) : e \in S}
<1>1. scores \in SUBSET Nat /\ scores # {}
  BY EntryTypes, Scores
<1>2. PICK low \in scores : \A n \in scores : low <= n
  BY <1>1, Least
<1> DEFINE best == {e \in S : Score(arch[e].folder) = low}
<1>3. best \in SUBSET Nat /\ best # {}
  BY EntryTypes
<1>4. PICK m \in best : \A n \in best : m <= n
  BY <1>3, Least
<1>5. \A c \in S : Score(arch[c].folder) \in Nat /\ low <= Score(arch[c].folder)
  BY <1>1, <1>2
<1>6. \A c \in S : Before(m, c)
  BY <1>1, <1>4, <1>5 DEF Before
<1> QED
  BY <1>4, <1>6 DEF Canon

LEMMA Keys ==
  ASSUME Given
  PROVE  /\ \A e \in Media : Key(e) \in Nat
         /\ \A e \in Media \cap good : Key(e) = arch[e].hash /\ Key(e) < Ranks
         /\ \A e \in Media \ good : Key(e) >= Ranks
         /\ \A d, e \in Media : Key(d) = Key(e) =>
              arch[d].hash = arch[e].hash /\ (d \in good <=> e \in good)
BY EntryTypes DEF Key

\* The entries that end up in one group with e, and what it is.
Peers(e) == {d \in Alike(e) : Key(d) = Key(e)}
GroupFrom(S) ==
  [id |-> Id(Canon(S)), members |-> S, canon |-> Canon(S), placeholder |-> Placeholder(S)]

LEMMA GroupIs ==
  ASSUME NEW e \in Media
  PROVE  GroupOf(e) = GroupFrom(Peers(e)) /\ e \in Peers(e) /\ Peers(e) \subseteq Media
<1>1. e \in Alike(e) /\ Alike(e) \subseteq Media
  BY DEF Alike
<1>2. {d \in Alike(e) : d = e \/ Confirmed(d, e)} = Peers(e)
  BY <1>1 DEF Confirmed, Equal, Peers
<1> QED
  BY <1>1, <1>2 DEF GroupOf, GroupFrom, Peers

LEMMA GroupShape ==
  ASSUME Given, NEW e \in Media, NEW g, g = GroupOf(e)
  PROVE  /\ g \in Confirm /\ g.members = Peers(e) /\ e \in g.members /\ g.members \subseteq Media
         /\ g.canon \in g.members /\ g.canon \in Media
         /\ arch[g.canon].sig = arch[e].sig /\ Key(g.canon) = Key(e)
         /\ g.id = Id(g.canon) /\ g.id[1] = arch[e].sig
         /\ g.placeholder = Placeholder(g.members)
         /\ \A c \in g.members : Before(g.canon, c)
<1>1. g = GroupFrom(Peers(e)) /\ e \in Peers(e) /\ Peers(e) \subseteq Media
  BY GroupIs
<1>2. Canon(Peers(e)) \in Peers(e) /\ \A c \in Peers(e) : Before(Canon(Peers(e)), c)
  BY <1>1, CanonIsFirst
<1>3. /\ g.members = Peers(e) /\ g.canon = Canon(Peers(e)) /\ g.id = Id(g.canon)
      /\ g.placeholder = Placeholder(g.members)
  BY <1>1 DEF GroupFrom
<1>4. arch[g.canon].sig = arch[e].sig /\ Key(g.canon) = Key(e)
  BY <1>2, <1>3 DEF Peers, Alike
<1>5. g.id[1] = arch[e].sig
  BY <1>3, <1>4 DEF Id
<1> QED
  BY <1>1, <1>2, <1>3, <1>4, <1>5 DEF Confirm

\* An id belongs to one content.
LEMMA IdTells ==
  ASSUME Given, NEW d \in Media, NEW e \in Media, Id(d) = Id(e)
  PROVE  arch[d].sig = arch[e].sig /\ Key(d) = Key(e)
<1>1. arch[d].sig = arch[e].sig /\ (Id(d)[2] = Id(e)[2])
  BY DEF Id
<1>2. Alike(d) = Alike(e) /\ d \in Alike(d) /\ e \in Alike(d) /\ Alike(d) \subseteq Media
  BY <1>1 DEF Alike
<1>3. \A c \in Media : Key(c) \in Nat
  BY Keys
<1>4. \A c \in Alike(d) : Id(c)[2] = IF \A b \in Alike(d) : Key(c) <= Key(b) THEN 0 ELSE Key(c)
  BY <1>1, <1>2 DEF Id, Alike
<1>5. \A c \in Alike(d) : Key(c) = 0 => \A b \in Alike(d) : Key(c) <= Key(b)
  BY <1>2, <1>3
<1> QED
  BY <1>1, <1>2, <1>3, <1>4, <1>5

LEMMA OneGroup ==
  ASSUME Given, NEW g \in Confirm, NEW h \in Confirm, g.id = h.id
  PROVE  g = h
<1>1. PICK d \in Media : g = GroupOf(d)
  BY DEF Confirm
<1>2. PICK e \in Media : h = GroupOf(e)
  BY DEF Confirm
<1>3. arch[d].sig = arch[e].sig /\ Key(d) = Key(e)
  BY <1>1, <1>2, GroupShape, IdTells
<1>4. Peers(d) = Peers(e)
  BY <1>3 DEF Peers, Alike
<1> QED
  BY <1>1, <1>2, <1>4, GroupIs

\* Entries with equal bytes have all this in common.
LEMMA SameHash ==
  ASSUME Given, NEW d \in Media, NEW e \in Media, arch[d].hash = arch[e].hash
  PROVE  /\ arch[d].sig = arch[e].sig /\ Alike(d) = Alike(e) /\ IdOf(d) = IdOf(e)
         /\ Sure(d) = Sure(e) /\ Full(d) = Full(e)
<1>1. arch[d].sig = arch[e].sig
  BY EntryTypes
<1>2. Alike(d) = Alike(e)
  BY <1>1 DEF Alike
<1>3. IdOf(d) = IdOf(e) /\ Sure(d) = Sure(e)
  BY <1>1, <1>2 DEF IdOf, Sure
<1>4. {c \in Alike(d) : arch[c].hash = arch[d].hash} = {c \in Alike(e) : arch[c].hash = arch[e].hash}
  BY <1>2
<1> QED
  BY <1>1, <1>2, <1>3, <1>4 DEF Full

LEMMA IdOfTells ==
  ASSUME Given, NEW d \in Media, NEW e \in Media, IdOf(d) = IdOf(e)
  PROVE  arch[d].sig = arch[e].sig /\ arch[d].hash = arch[e].hash
<1>1. arch[d].sig = arch[e].sig /\ (IdOf(d)[2] = IdOf(e)[2])
  BY DEF IdOf
<1>2. Alike(d) = Alike(e) /\ d \in Alike(d) /\ e \in Alike(d) /\ Alike(d) \subseteq Media
  BY <1>1 DEF Alike
<1>3. \A c \in Media : arch[c].hash \in Nat
  BY EntryTypes
<1>4. \A c \in Alike(d) : IdOf(c)[2] =
        IF \A b \in Alike(d) : arch[c].hash <= arch[b].hash THEN 0 ELSE arch[c].hash
  BY <1>1, <1>2 DEF IdOf, Alike
<1>5. \A c \in Alike(d) : arch[c].hash = 0 => \A b \in Alike(d) : arch[c].hash <= arch[b].hash
  BY <1>2, <1>3
<1> QED
  BY <1>1, <1>2, <1>3, <1>4, <1>5

\* A content that can be told is the only one of its size and CRC32, or all of
\* them can be read.
LEMMA SureMeans ==
  ASSUME Given, Noted, NEW e \in Media, Sure(e)
  PROVE  (\A d \in Alike(e) : arch[d].hash = arch[e].hash) \/ Alike(e) \subseteq good
<1>1. CASE arch[e].sig \notin confused
  BY <1>1 DEF Noted, Alike
<1>2. CASE arch[e].sig \notin Ambiguous
  BY <1>2 DEF Ambiguous, Alike
<1> QED
  BY <1>1, <1>2 DEF Sure

LEMMA SureId ==
  ASSUME Given, Noted, NEW e \in Media, Sure(e), e \in good
  PROVE  Id(e) = IdOf(e)
<1>1. Alike(e) \subseteq Media /\ Key(e) = arch[e].hash /\ Key(e) < Ranks
  BY Keys DEF Alike
<1>2. Ranks \in Nat /\ \A d \in Media : arch[d].hash \in Nat
  BY EntryTypes
<1>3. CASE Alike(e) \subseteq good
  <2>1. \A d \in Alike(e) : Key(d) = arch[d].hash
    BY <1>1, <1>3, Keys
  <2> QED
    BY <1>1, <2>1 DEF Id, IdOf
<1>4. CASE \A d \in Alike(e) : arch[d].hash = arch[e].hash
  <2>1. \A d \in Alike(e) : Key(d) = arch[e].hash \/ Key(d) >= Ranks
    BY <1>1, <1>4, Keys
  <2>2. \A d \in Alike(e) : Key(e) <= Key(d) /\ arch[e].hash <= arch[d].hash
    BY <1>1, <1>2, <1>4, <2>1, Keys
  <2> QED
    BY <2>2 DEF Id, IdOf
<1> QED
  BY <1>3, <1>4, SureMeans

\* The bytes under the id of a group whose content can be told are its bytes.
LEMMA NamedIsIt ==
  ASSUME Given, Noted, NEW e \in Media, Sure(e), NEW h, NamedFor(GroupOf(e).id, h)
  PROVE  h = arch[e].hash
<1> DEFINE g == GroupOf(e)
<1>1. /\ g.canon \in Media /\ arch[g.canon].sig = arch[e].sig /\ Key(g.canon) = Key(e)
      /\ g.id = Id(g.canon) /\ g.id[1] = arch[e].sig
  BY GroupShape
<1>2. PICK d \in Media : arch[d].hash = h /\ g.id[1] = arch[d].sig /\ (Sure(d) => g.id = IdOf(d))
  BY DEF NamedFor
<1> HIDE DEF g
<1>3. d \in Alike(e) /\ g.canon \in Alike(e)
  BY <1>1, <1>2 DEF Alike
<1>4. Sure(d) /\ Sure(g.canon)
  BY <1>1, <1>2 DEF Sure
<1>5. CASE Alike(e) \subseteq good
  <2>1. Id(g.canon) = IdOf(g.canon)
    BY <1>1, <1>3, <1>4, <1>5, SureId
  <2>2. arch[g.canon].hash = arch[d].hash
    BY <1>1, <1>2, <1>4, <2>1, IdOfTells
  <2> QED
    BY <1>1, <1>2, <2>2, Keys
<1>6. CASE \A c \in Alike(e) : arch[c].hash = arch[e].hash
  BY <1>2, <1>3, <1>6
<1> QED
  BY <1>5, <1>6, SureMeans

\* When all can be read, a group is what it is in every such run.
LEMMA FullGroup ==
  ASSUME Given, Media \subseteq good, confused = {}, NEW e \in Media
  PROVE  Full(e) = GroupOf(e)
<1>1. Peers(e) = {d \in Alike(e) : arch[d].hash = arch[e].hash}
  BY Keys DEF Peers, Alike
<1> DEFINE c == Canon(Peers(e))
<1>2. c \in Media /\ arch[c].hash = arch[e].hash
  BY <1>1, GroupIs, CanonIsFirst
<1>3. Sure(c) /\ Noted
  BY DEF Sure, Noted
<1>4. Id(c) = IdOf(c)
  BY <1>2, <1>3, SureId
<1>5. IdOf(c) = IdOf(e)
  BY <1>2, SameHash
<1>6. Full(e) = [id |-> IdOf(e), members |-> Peers(e), canon |-> c, placeholder |-> Placeholder(Peers(e))]
  BY <1>1 DEF Full
<1> HIDE DEF c
<1>7. GroupOf(e) = [id |-> Id(c), members |-> Peers(e), canon |-> c, placeholder |-> Placeholder(Peers(e))]
  BY GroupIs DEF c, GroupFrom
<1> QED
  BY <1>4, <1>5, <1>6, <1>7

-----------------------------------------------------------------------------
\* The records and the library

RunInv == Given /\ Typed /\ ReviewInv

\* The archive and the options are the same in all runs.
Fixed == arch' = arch /\ opt' = opt

LEMMA FixedEntries ==
  ASSUME Fixed
  PROVE  /\ Given' = Given /\ Media' = Media /\ Ambiguous' = Ambiguous
         /\ \A e : Alike(e)' = Alike(e) /\ IdOf(e)' = IdOf(e) /\ Full(e)' = Full(e)
         /\ \A g : Skipped(g)' = Skipped(g) /\ Dest(g)' = Dest(g)
<1>1. Given' = Given /\ Media' = Media
  BY DEF Fixed, Given, Media
<1>2. \A e : Alike(e)' = Alike(e)
  BY <1>1 DEF Fixed, Alike
<1>3. Ambiguous' = Ambiguous /\ \A e : IdOf(e)' = IdOf(e)
  BY <1>1, <1>2 DEF Fixed, Ambiguous, IdOf
<1>4. \A S : Canon(S)' = Canon(S) /\ Placeholder(S)' = Placeholder(S)
  BY DEF Fixed, Canon, Before, Placeholder
<1>5. \A e : Full(e)' = Full(e)
  BY <1>2, <1>3, <1>4 DEF Fixed, Full
<1>6. \A g : Skipped(g)' = Skipped(g) /\ Dest(g)' = Dest(g)
  BY DEF Fixed, Skipped, Dest, Dated
<1> QED
  BY <1>1, <1>2, <1>3, <1>5, <1>6

LEMMA NamedStays ==
  ASSUME Fixed, confused \subseteq confused'
  PROVE  /\ \A e : Sure(e)' => Sure(e)
         /\ \A id, hash : NamedFor(id, hash) => NamedFor(id, hash)'
<1>1. \A e : Sure(e)' => Sure(e)
  BY FixedEntries DEF Fixed, Sure
<1> QED
  BY <1>1, FixedEntries DEF Fixed, NamedFor

LEMMA Records ==
  ASSUME Typed
  PROVE  /\ Len(files) \in Nat /\ DOMAIN files = 1 .. Len(files)
         /\ \A i \in DOMAIN files : files[i].dir \in Dirs /\ files[i].hash \in Hashes
         /\ \A id : Get(id).path \in 0 .. Len(files)
         /\ \A id : Get(id).path # 0 => id \in DOMAIN journal /\ Get(id) = journal[id]
         /\ \A id \in DOMAIN got : got[id] \in Hashes
<1>1. \A id \in DOMAIN journal : journal[id].path \in 0 .. Len(files)
  BY DEF Typed, TypeOK, Entry
<1>2. Len(files) \in Nat /\ 0 \in 0 .. Len(files)
  BY DEF Typed, TypeOK
<1>3. \A id : Get(id) = IF id \in DOMAIN journal THEN journal[id] ELSE NoRec
  BY DEF Get
<1>4. NoRec.path = 0
  BY DEF NoRec
<1>5. DOMAIN files = 1 .. Len(files) /\ \A i \in DOMAIN files : files[i] \in [dir : Dirs, hash : Hashes]
  <2> DEFINE F == [dir : Dirs, hash : Hashes]
  <2>1. files \in Seq(F)
    BY DEF Typed, TypeOK
  <2> HIDE DEF F
  <2>2. DOMAIN files = 1 .. Len(files) /\ \A i \in DOMAIN files : files[i] \in F
    BY <2>1
  <2> QED
    BY <2>2 DEF F
<1> QED
  BY <1>1, <1>2, <1>3, <1>4, <1>5 DEF Typed, TypeOK

LEMMA PutGet ==
  ASSUME NEW id, NEW stage, NEW hash, NEW path, Put(id, stage, hash, path)
  PROVE  /\ DOMAIN journal' = DOMAIN journal \cup {id}
         /\ Get(id)' = [stage |-> stage, hash |-> hash, path |-> path]
         /\ \A i : i # id => Get(i)' = Get(i)
<1> DEFINE rec == [stage |-> stage, hash |-> hash, path |-> path]
<1> HIDE DEF rec
<1>1. journal' = [i \in DOMAIN journal \cup {id} |-> IF i = id THEN rec ELSE journal[i]]
  BY DEF Put, With, rec
<1>2. Get(id)' = rec
  BY <1>1 DEF Get
<1>3. \A i : i # id => Get(i)' = Get(i)
  BY <1>1 DEF Get, NoRec
<1> QED
  BY <1>1, <1>2, <1>3 DEF rec

\* Nothing is put or placed.
LEMMA RecordsStay ==
  ASSUME RunInv, Fixed, UNCHANGED <<journal, files>>, confused \subseteq confused'
  PROVE  IdsOK' /\ LibraryOK' /\ \A id : Get(id)' = Get(id)
<1>1. \A id : Get(id)' = Get(id)
  BY DEF Get, NoRec
<1>2. IdsOK'
  BY <1>1, NamedStays, FixedEntries DEF RunInv, ReviewInv, IdsOK, Fixed
<1>3. LibraryOK'
  BY FixedEntries DEF RunInv, ReviewInv, LibraryOK, Fixed
<1> QED
  BY <1>1, <1>2, <1>3

\* The bytes of an id that has no file yet are staged or tagged.
LEMMA RecordPut ==
  ASSUME RunInv, Fixed, files' = files, confused' = confused, NEW id, NEW stage, NEW hash,
         Put(id, stage, hash, 0), Get(id).path = 0, NamedFor(id, hash)
  PROVE  IdsOK' /\ LibraryOK'
<1>1. /\ DOMAIN journal' = DOMAIN journal \cup {id}
      /\ Get(id)' = [stage |-> stage, hash |-> hash, path |-> 0]
      /\ \A i : i # id => Get(i)' = Get(i)
  BY PutGet
<1>2. ASSUME NEW i \in DOMAIN journal'
      PROVE  (/\ NamedFor(i, journal[i].hash)
              /\ journal[i].path # 0 => files[journal[i].path].hash = journal[i].hash)'
  <2>1. Get(i)' = journal'[i]
    BY <1>2 DEF Get
  <2>2. CASE i = id
    BY <1>1, <2>1, <2>2, NamedStays
  <2>3. CASE i # id
    <3>1. i \in DOMAIN journal /\ journal'[i] = journal[i]
      BY <1>1, <1>2, <2>1, <2>3 DEF Get
    <3> QED
      BY <3>1, NamedStays DEF RunInv, ReviewInv, IdsOK
  <2> QED
    BY <2>2, <2>3
<1>3. ASSUME NEW i \in DOMAIN files
      PROVE  \E e \in Media : /\ arch[e].hash = files[i].hash
                              /\ Sure(e) => \A own : own = IdOf(e) => Get(own)'.path = i
  <2>1. PICK e \in Media : arch[e].hash = files[i].hash /\ (Sure(e) => Get(IdOf(e)).path = i)
    BY DEF RunInv, ReviewInv, IdsOK
  <2>2. i # 0
    BY Records DEF RunInv
  <2> QED
    BY <1>1, <2>1, <2>2
<1>4. IdsOK'
  <2>1. \A e : Sure(e)' => Sure(e)
    BY NamedStays
  <2> QED
    BY <1>2, <1>3, <2>1, FixedEntries DEF IdsOK, Fixed
<1>5. LibraryOK'
  BY FixedEntries DEF RunInv, ReviewInv, LibraryOK, Fixed
<1> QED
  BY <1>4, <1>5

-----------------------------------------------------------------------------
\* The steps of a run

LEMMA FixedGroups ==
  ASSUME Fixed, good' = good
  PROVE  Confirm' = Confirm
<1>1. Media' = Media /\ \A e : Alike(e)' = Alike(e)
  BY FixedEntries
<1>2. \A e : Key(e)' = Key(e)
  BY DEF Fixed, Key
<1>3. \A d, e : Confirmed(d, e)' = Confirmed(d, e)
  BY <1>2 DEF Confirmed, Equal
<1>4. \A e : Id(e)' = Id(e)
  BY <1>1, <1>2 DEF Fixed, Id
<1>5. \A S : Canon(S)' = Canon(S) /\ Placeholder(S)' = Placeholder(S)
  BY DEF Fixed, Canon, Before, Placeholder
<1>6. \A e : GroupOf(e)' = GroupOf(e)
  BY <1>1, <1>3, <1>4, <1>5 DEF GroupOf
<1> QED
  BY <1>1, <1>6 DEF Confirm

\* A step after which no run works on groups.
LEMMA OutsideStep ==
  ASSUME RunInv, Fixed, UNCHANGED <<journal, files, confused>>, ~Underway',
         report' \in {None, report}, phase' \in {"unzip", "duplicates"} => home' = <<>>
  PROVE  ReviewInv'
<1>1. IdsOK' /\ LibraryOK'
  BY RecordsStay
<1>2. ASSUME report' # None PROVE Accounted' /\ Counted'
  <2>1. report' = report /\ report # None /\ Accounted /\ Counted
    BY <1>2 DEF RunInv, ReviewInv
  <2>2. \A e : Sure(e)' = Sure(e)
    BY FixedEntries DEF Fixed, Sure
  <2>3. \A h : Wants(h)' = Wants(h) /\ Copies(h)' = Copies(h) /\ Admitted(h)' = Admitted(h)
    BY <2>1, FixedEntries DEF Fixed, Wants, Copies, Admitted
  <2>4. \A dir : Within(dir)' = Within(dir)
    BY DEF Within
  <2> QED
    BY <2>1, <2>3, <2>4, FixedEntries DEF Fixed, Accounted, Counted
<1> QED
  BY <1>1, <1>2 DEF ReviewInv

\* A step of a group in its turn.
LEMMA TurnStep ==
  ASSUME RunInv, NEW g \in groups, Pass(g), Underway, IdsOK', LibraryOK', HeldOK',
         report' = report, failed \subseteq failed', DOMAIN got \subseteq DOMAIN got',
         DOMAIN home \subseteq DOMAIN home',
         phase = "copy" => Skipped(g) \/ g.id \in failed' \/ g.id \in DOMAIN got',
         phase = "place" => Skipped(g) \/ g.id \in failed' \/ g.id \in DOMAIN home'
  PROVE  ReviewInv'
<1>1. Fixed /\ UNCHANGED <<good, phase, groups, confused>> /\ todo' = todo \ {g}
  BY DEF Pass, Fixed
<1>2. WorkOK /\ DoneOK /\ report = None
  BY DEF RunInv, ReviewInv
<1>3. WorkOK'
  BY <1>1, <1>2, FixedEntries, FixedGroups DEF WorkOK, Noted, Fixed
<1>4. \A h : Skipped(h)' = Skipped(h)
  BY <1>1, FixedEntries
<1>5. DoneOK'
  BY <1>1, <1>2, <1>4 DEF DoneOK
<1> QED
  BY <1>1, <1>2, <1>3, <1>5 DEF ReviewInv, Underway

LEMMA HeldStays ==
  ASSUME RunInv, Underway, Fixed, UNCHANGED <<journal, files, groups, confused, got, home>>
  PROVE  HeldOK'
<1>1. HeldOK /\ \A id : Get(id)' = Get(id)
  BY RecordsStay DEF RunInv, ReviewInv, WorkOK
<1>2. \A h : Skipped(h)' = Skipped(h)
  BY FixedEntries
<1> QED
  BY <1>1, <1>2, NamedStays DEF HeldOK

\* A group is not placed when it has no folder.
LEMMA Homeless ==
  ASSUME RunInv, Underway, NEW g \in groups, HomeOf(g) = None
  PROVE  g.id \notin DOMAIN home /\ (g.id \in DOMAIN got => Get(g.id).path = 0)
<1>1. HeldOK
  BY DEF RunInv, ReviewInv, WorkOK
<1>2. ASSUME g.id \in DOMAIN home PROVE FALSE
  <2>1. home[g.id] = files[Get(g.id).path].dir /\ Get(g.id).path # 0
    BY <1>1, <1>2 DEF HeldOK
  <2>2. Get(g.id).path \in DOMAIN files
    BY <2>1, Records DEF RunInv
  <2>3. home[g.id] \in Dirs
    BY <2>1, <2>2, Records DEF RunInv
  <2> QED
    BY <1>2, <2>3, ReviewConstants DEF HomeOf, Dirs
<1> QED
  BY <1>1, <1>2 DEF HeldOK

LEMMA NoFileStep ==
  ASSUME RunInv, NEW g \in groups,
         LeaveOut(g) \/ ExtractFails(g) \/ StaysPlaced(g) \/ PlaceFails(g)
  PROVE  ReviewInv'
<1>1. /\ Pass(g) /\ Underway /\ phase \in {"copy", "place"}
      /\ UNCHANGED <<journal, files, got, home, report>>
      /\ failed' = failed \/ Fail(g)
  BY DEF LeaveOut, ExtractFails, StaysPlaced, PlaceFails, Turn, Underway, results
<1>2. Fixed /\ UNCHANGED <<groups, confused>>
  BY <1>1 DEF Pass, Fixed
<1>3. \/ Skipped(g) /\ phase = "copy"
      \/ g.id \in failed'
      \/ g.id \in DOMAIN home /\ phase = "place"
  BY DEF LeaveOut, ExtractFails, StaysPlaced, PlaceFails, Fail, HomeOf, Turn
<1>4. IdsOK' /\ LibraryOK' /\ HeldOK'
  BY <1>1, <1>2, RecordsStay, HeldStays
<1>5. failed \subseteq failed'
  BY <1>1 DEF Fail
<1> QED
  BY <1>1, <1>3, <1>4, <1>5, TurnStep

LEMMA AdoptStep ==
  ASSUME RunInv, NEW g \in groups, Adopt(g)
  PROVE  ReviewInv'
<1> DEFINE rec == Get(g.id)
<1>1. /\ Pass(g) /\ Underway /\ phase = "copy" /\ ~Skipped(g) /\ Resumable(g)
      /\ UNCHANGED <<journal, files, failed, report>>
      /\ got' = With(got, g.id, rec.hash)
      /\ home' = IF rec.path = 0 THEN home ELSE With(home, g.id, files[rec.path].dir)
  BY DEF Adopt, Turn, Underway, results
<1>2. Fixed /\ UNCHANGED <<groups, confused>>
  BY <1>1 DEF Pass, Fixed
<1>3. IdsOK' /\ LibraryOK' /\ \A id : Get(id)' = Get(id)
  BY <1>1, <1>2, RecordsStay
<1>4. HeldOK /\ IdsOK
  BY <1>1 DEF RunInv, ReviewInv, WorkOK
<1>5. g.id \in DOMAIN journal /\ rec = journal[g.id]
  BY <1>1 DEF Resumable, Get, NoRec
<1>6. NamedFor(g.id, rec.hash)
  BY <1>4, <1>5 DEF IdsOK
<1>7. /\ DOMAIN got' = DOMAIN got \cup {g.id}
      /\ \A id \in DOMAIN got' : got'[id] = IF id = g.id THEN rec.hash ELSE got[id]
  BY <1>1 DEF With
<1>8. /\ DOMAIN home' = IF rec.path = 0 THEN DOMAIN home ELSE DOMAIN home \cup {g.id}
      /\ \A id \in DOMAIN home' :
           home'[id] = IF rec.path # 0 /\ id = g.id THEN files[rec.path].dir ELSE home[id]
  BY <1>1 DEF With
<1>9. \A id : (\E h \in groups : h.id = id /\ ~Skipped(h)) =>
              (\E h \in groups' : h.id = id /\ ~Skipped(h)')
  BY <1>2, FixedEntries
<1> HIDE DEF rec
<1>10. ASSUME NEW id \in DOMAIN got'
       PROVE  /\ NamedFor(id, got'[id]) /\ \E h \in groups : h.id = id /\ ~Skipped(h)
              /\ id \notin DOMAIN home' => Get(id).path = 0
  BY <1>1, <1>4, <1>6, <1>7, <1>8, <1>10 DEF HeldOK, rec
<1>11. ASSUME NEW id \in DOMAIN home'
       PROVE  /\ id \in DOMAIN got' /\ Get(id).path # 0 /\ Get(id).hash = got'[id]
              /\ home'[id] = files[Get(id).path].dir
  BY <1>4, <1>7, <1>8, <1>11 DEF HeldOK, rec
<1>12. HeldOK'
  <2>1. \A id \in DOMAIN got' : NamedFor(id, got[id])'
    BY <1>2, <1>10, NamedStays
  <2> QED
    BY <1>1, <1>3, <1>9, <1>10, <1>11, <2>1 DEF HeldOK
<1>13. DOMAIN got \subseteq DOMAIN got' /\ DOMAIN home \subseteq DOMAIN home' /\ g.id \in DOMAIN got'
  BY <1>7, <1>8
<1> QED
  BY <1>1, <1>3, <1>12, <1>13, TurnStep

\* A group that has no file yet gets its bytes, or its tags.
LEMMA StagedStep ==
  ASSUME RunInv, NEW g \in groups, Pass(g), phase \in {"copy", "tags"}, ~Skipped(g),
         UNCHANGED <<files, failed, home, report>>, NEW st, NEW h, Put(g.id, st, h, 0),
         Get(g.id).path = 0, NamedFor(g.id, h),
         DOMAIN got' = DOMAIN got \cup {g.id},
         \A id \in DOMAIN got' : got'[id] = IF id = g.id THEN h ELSE got[id]
  PROVE  ReviewInv'
<1>1. Fixed /\ UNCHANGED <<groups, confused>> /\ Underway
  BY DEF Pass, Fixed, Underway
<1>2. IdsOK' /\ LibraryOK'
  BY <1>1, RecordPut
<1>3. HeldOK
  BY <1>1 DEF RunInv, ReviewInv, WorkOK
<1>4. /\ DOMAIN got' = DOMAIN got \cup {g.id}
      /\ \A id \in DOMAIN got' : got'[id] = IF id = g.id THEN h ELSE got[id]
  OBVIOUS
<1>5. /\ Get(g.id)' = [stage |-> st, hash |-> h, path |-> 0]
      /\ \A id : id # g.id => Get(id)' = Get(id)
  <2> DEFINE p == 0
  <2>1. Put(g.id, st, h, p)
    OBVIOUS
  <2> HIDE DEF p
  <2>2. /\ Get(g.id)' = [stage |-> st, hash |-> h, path |-> p]
        /\ \A i : i # g.id => Get(i)' = Get(i)
    BY ONLY <2>1 DEF Put, With, Get, NoRec
  <2> QED
    BY <2>2 DEF p
<1>6. \A id : (\E x \in groups : x.id = id /\ ~Skipped(x)) =>
              (\E x \in groups' : x.id = id /\ ~Skipped(x)')
  BY <1>1, FixedEntries
<1>7. \A id \in DOMAIN got' : NamedFor(id, got'[id]) /\ \E x \in groups : x.id = id /\ ~Skipped(x)
  BY <1>3, <1>4 DEF HeldOK
<1>8. \A id \in DOMAIN got' : NamedFor(id, got[id])'
  BY <1>1, <1>7, NamedStays
<1>9. \A id \in DOMAIN home : id # g.id
  BY <1>3 DEF HeldOK
<1>10. HeldOK'
  <2>1. \A id \in DOMAIN got' : id \notin DOMAIN home' => Get(id)'.path = 0
    BY <1>3, <1>4, <1>5 DEF HeldOK
  <2>2. ASSUME NEW id \in DOMAIN home'
        PROVE  /\ id \in DOMAIN got' /\ Get(id)'.path # 0 /\ Get(id)'.hash = got'[id]
               /\ home'[id] = files'[Get(id)'.path].dir
    <3>1. id \in DOMAIN home /\ id # g.id /\ Get(id)' = Get(id) /\ home' = home /\ files' = files
      BY <1>5, <1>9, <2>2
    <3>2. id \in DOMAIN got /\ got'[id] = got[id]
      BY <1>3, <1>4, <3>1 DEF HeldOK
    <3> QED
      BY <1>3, <1>4, <3>1, <3>2 DEF HeldOK
  <2> QED
    BY <1>6, <1>7, <1>8, <2>1, <2>2 DEF HeldOK
<1>11. DOMAIN got \subseteq DOMAIN got' /\ g.id \in DOMAIN got'
  BY <1>4
<1> QED
  BY <1>1, <1>2, <1>10, <1>11, TurnStep

LEMMA ExtractStep ==
  ASSUME RunInv, NEW g \in groups, Extract(g)
  PROVE  ReviewInv'
<1> DEFINE h == arch[g.canon].hash
<1>1. /\ Pass(g) /\ phase = "copy" /\ ~Skipped(g) /\ ~Resumable(g) /\ g.canon \in good
      /\ UNCHANGED <<files, failed, home, report>>
      /\ got' = With(got, g.id, h) /\ Put(g.id, "staged", h, 0)
  BY DEF Extract, Turn
<1>2. Get(g.id).path = 0
  BY <1>1 DEF Resumable
<1>3. g \in Confirm /\ Noted
  BY <1>1 DEF RunInv, ReviewInv, WorkOK, Underway
<1>4. PICK e \in Media : g = GroupOf(e)
  BY <1>3 DEF Confirm
<1>5. g.canon \in Media /\ g.id = Id(g.canon) /\ g.id[1] = arch[g.canon].sig
  BY <1>4, GroupShape DEF RunInv
<1>6. Sure(g.canon) => g.id = IdOf(g.canon)
  BY <1>1, <1>3, <1>5, SureId DEF RunInv
<1>7. NamedFor(g.id, h)
  BY <1>5, <1>6 DEF NamedFor
<1> HIDE DEF h
<1>8. /\ DOMAIN got' = DOMAIN got \cup {g.id}
      /\ \A id \in DOMAIN got' : got'[id] = IF id = g.id THEN h ELSE got[id]
  BY <1>1 DEF With
<1> QED
  BY <1>1, <1>2, <1>7, <1>8, StagedStep

\* A group that a run has is one that it does not leave out.
LEMMA HeldIsWanted ==
  ASSUME RunInv, Underway, NEW g \in groups, g.id \in DOMAIN got
  PROVE  ~Skipped(g) /\ NamedFor(g.id, got[g.id])
BY OneGroup DEF RunInv, ReviewInv, WorkOK, HeldOK

LEMMA TagStep ==
  ASSUME RunInv, NEW g \in groups, Tag(g)
  PROVE  ReviewInv'
<1>1. /\ Pass(g) /\ phase = "tags" /\ g \in todo /\ Underway
      /\ UNCHANGED <<got, files, failed, home, report>>
  BY DEF Tag, Turn, Underway
<1>2. g.id \in DOMAIN got /\ HeldOK
  BY <1>1 DEF RunInv, Typed, RunOK, ReviewInv, WorkOK
<1>3. CASE journal' = journal
  <2>1. Fixed /\ UNCHANGED <<groups, confused>>
    BY <1>1 DEF Pass, Fixed
  <2>2. IdsOK' /\ LibraryOK' /\ HeldOK'
    BY <1>1, <1>3, <2>1, RecordsStay, HeldStays
  <2> QED
    BY <1>1, <2>2, TurnStep
<1>4. CASE HomeOf(g) = None /\ Put(g.id, "tagged", got[g.id], 0)
  <2>1. NamedFor(g.id, got[g.id]) /\ ~Skipped(g) /\ Get(g.id).path = 0
    BY <1>1, <1>2, <1>4, HeldIsWanted, Homeless
  <2>2. /\ DOMAIN got' = DOMAIN got \cup {g.id}
        /\ \A id \in DOMAIN got' : got'[id] = IF id = g.id THEN got[g.id] ELSE got[id]
    BY <1>1, <1>2
  <2> DEFINE h == got[g.id]
  <2> HIDE DEF h
  <2>3. \A id \in DOMAIN got' : got'[id] = IF id = g.id THEN h ELSE got[id]
    BY <2>2 DEF h
  <2> QED
    BY <1>1, <1>4, <2>1, <2>2, <2>3, StagedStep DEF h
<1> QED
  BY <1>3, <1>4 DEF Tag

\* A file that is added holds the bytes of its group, in the group's folder.
LEMMA PlaceStep ==
  ASSUME RunInv, NEW g \in groups, Place(g)
  PROVE  ReviewInv'
<1> DEFINE h == got[g.id]
           n == Len(files) + 1
           file == [dir |-> Folder(g), hash |-> h]
<1>1. /\ Pass(g) /\ phase = "place" /\ Underway /\ g \in todo /\ HomeOf(g) = None
      /\ UNCHANGED <<got, failed, report>>
      /\ files' = Append(files, file) /\ home' = With(home, g.id, Folder(g))
      /\ Put(g.id, "placed", h, Len(files'))
  BY DEF Place, Turn, Underway
<1>2. Fixed /\ UNCHANGED <<groups, confused>>
  BY <1>1 DEF Pass, Fixed
<1>3. g.id \in DOMAIN got /\ HeldOK /\ IdsOK /\ Noted /\ groups = Confirm /\ LibraryOK
  BY <1>1 DEF RunInv, Typed, RunOK, ReviewInv, WorkOK
<1>4. /\ NamedFor(g.id, h) /\ ~Skipped(g) /\ Get(g.id).path = 0 /\ g.id \notin DOMAIN home
  BY <1>1, <1>3, HeldIsWanted, Homeless
<1> HIDE DEF h, file
<1>5. /\ Len(files) \in Nat /\ DOMAIN files = 1 .. Len(files) /\ Len(files') = n
      /\ DOMAIN files' = 1 .. n /\ files'[n] = file
      /\ \A i \in DOMAIN files : files'[i] = files[i]
  <2> DEFINE F == [dir : Dirs, hash : Hashes]
  <2>1. files \in Seq(F)
    BY DEF RunInv, Typed, TypeOK
  <2> HIDE DEF F
  <2>2. Len(files) \in Nat /\ DOMAIN files = 1 .. Len(files)
    BY <2>1
  <2> QED
    BY <1>1, <2>1, <2>2
<1>6. /\ DOMAIN journal' = DOMAIN journal \cup {g.id}
      /\ Get(g.id)' = [stage |-> "placed", hash |-> h, path |-> n]
      /\ \A i : i # g.id => Get(i)' = Get(i)
  <2>1. Put(g.id, "placed", h, n)
    BY <1>1, <1>5
  <2> QED
    BY ONLY <2>1, PutGet, Zenon
<1>7. \A id : Get(id).path # 0 => Get(id).path \in DOMAIN files
  BY <1>5, Records DEF RunInv
<1>8. ASSUME NEW i \in DOMAIN journal'
      PROVE  (/\ NamedFor(i, journal[i].hash)
              /\ journal[i].path # 0 => files[journal[i].path].hash = journal[i].hash)'
  <2>1. Get(i)' = journal'[i]
    BY <1>8 DEF Get
  <2>2. CASE i = g.id
    BY <1>2, <1>4, <1>5, <1>6, <2>1, <2>2, NamedStays DEF file
  <2>3. CASE i # g.id
    <3>1. i \in DOMAIN journal /\ journal'[i] = journal[i] /\ Get(i) = journal[i]
      BY <1>6, <1>8, <2>1, <2>3 DEF Get
    <3> QED
      BY <1>2, <1>3, <1>5, <1>7, <3>1, NamedStays DEF IdsOK
  <2> QED
    BY <2>2, <2>3
<1>9. ASSUME NEW i \in DOMAIN files'
      PROVE  \E e \in Media : /\ arch[e].hash = files'[i].hash
                              /\ Sure(e) => \A own : own = IdOf(e) => Get(own)'.path = i
  <2>1. CASE i = n
    <3>1. PICK e \in Media : arch[e].hash = h /\ (Sure(e) => g.id = IdOf(e))
      BY <1>4 DEF NamedFor
    <3> QED
      BY <1>5, <1>6, <2>1, <3>1 DEF file
  <2>2. CASE i # n
    <3>1. i \in DOMAIN files /\ i # 0 /\ files'[i] = files[i]
      BY <1>5, <1>9, <2>2
    <3>2. PICK e \in Media : arch[e].hash = files[i].hash /\ (Sure(e) => Get(IdOf(e)).path = i)
      BY <1>3, <3>1 DEF IdsOK
    <3> QED
      BY <1>4, <1>6, <3>1, <3>2
  <2> QED
    BY <2>1, <2>2
<1>10. IdsOK'
  <2>1. \A e : Sure(e)' => Sure(e)
    BY <1>2, NamedStays
  <2> QED
    BY <1>2, <1>8, <1>9, <2>1, FixedEntries DEF IdsOK, Fixed
<1>11. ASSUME confused = {}
       PROVE  \E e \in Media : arch[e].hash = h /\ ~Skipped(Full(e)) /\ Folder(g) = Dest(Full(e))
  <2>1. Media \subseteq good
    BY <1>3, <1>11 DEF Noted
  <2>2. PICK e \in Media : arch[e].hash = h /\ (Sure(e) => g.id = IdOf(e))
    BY <1>4 DEF NamedFor
  <2>3. Full(e) = GroupOf(e) /\ Full(e).id = IdOf(e) /\ Sure(e)
    BY <1>11, <2>1, FullGroup DEF Full, Sure, RunInv
  <2>4. g = Full(e)
    BY <1>3, <2>2, <2>3, OneGroup DEF Confirm, RunInv
  <2>5. Folder(g) = Dest(g)
    BY <1>1, ReviewConstants DEF Folder, Dest, NotImportable
  <2> QED
    BY <1>4, <2>2, <2>4, <2>5
<1>12. LibraryOK'
  <2>1. ASSUME confused = {}, NEW i \in DOMAIN files'
        PROVE  \E e \in Media : /\ arch[e].hash = files'[i].hash
                                /\ ~Skipped(Full(e)) /\ files'[i].dir = Dest(Full(e))
    <3>1. CASE i = n
      BY <1>5, <1>11, <2>1, <3>1 DEF file
    <3>2. CASE i # n
      BY <1>3, <1>5, <2>1, <3>2 DEF LibraryOK
    <3> QED
      BY <3>1, <3>2
  <2>2. \A e : Skipped(Full(e))' = Skipped(Full(e)) /\ Dest(Full(e))' = Dest(Full(e))
    BY <1>2, FixedEntries
  <2> QED
    BY <1>2, <2>1, <2>2, FixedEntries DEF LibraryOK, Fixed
<1>13. /\ DOMAIN home' = DOMAIN home \cup {g.id}
       /\ \A id \in DOMAIN home' : home'[id] = IF id = g.id THEN Folder(g) ELSE home[id]
  BY <1>1 DEF With
<1>14. HeldOK'
  <2>1. ASSUME NEW id \in DOMAIN got'
        PROVE  (/\ NamedFor(id, got[id]) /\ \E x \in groups : x.id = id /\ ~Skipped(x)
                /\ id \notin DOMAIN home => Get(id).path = 0)'
    <3>1. \A x : Skipped(x)' = Skipped(x)
      BY <1>2, FixedEntries
    <3>2. NamedFor(id, got[id]) /\ NamedFor(id, got[id])'
      BY <1>1, <1>2, <1>3, <2>1, NamedStays DEF HeldOK
    <3> QED
      BY <1>1, <1>2, <1>3, <1>6, <1>13, <2>1, <3>1, <3>2 DEF HeldOK
  <2>2. ASSUME NEW id \in DOMAIN home'
        PROVE  (/\ id \in DOMAIN got /\ Get(id).path # 0 /\ Get(id).hash = got[id]
                /\ home[id] = files[Get(id).path].dir)'
    <3>1. CASE id = g.id
      BY <1>1, <1>3, <1>5, <1>6, <1>13, <2>2, <3>1 DEF file, h
    <3>2. CASE id # g.id
      BY <1>1, <1>3, <1>5, <1>6, <1>7, <1>13, <2>2, <3>2 DEF HeldOK
    <3> QED
      BY <3>1, <3>2
  <2> QED
    BY <2>1, <2>2 DEF HeldOK
<1> QED
  BY <1>1, <1>10, <1>12, <1>13, <1>14, TurnStep

LEMMA ConfirmStep ==
  ASSUME RunInv, ConfirmDuplicates
  PROVE  ReviewInv'
<1>1. /\ Fixed /\ phase = "duplicates" /\ phase' = "copy" /\ UNCHANGED <<good, journal, files, got, home>>
      /\ groups' = Confirm /\ todo' = Confirm /\ report' = None
      /\ confused' = confused \cup {arch[e].sig : e \in Media \ good}
  BY DEF ConfirmDuplicates, Fixed, results
<1>2. IdsOK' /\ LibraryOK'
  BY <1>1, RecordsStay
<1>3. got' = <<>> /\ home' = <<>>
  BY <1>1 DEF RunInv, ReviewInv, Typed, RunOK
<1>4. HeldOK'
  BY <1>3 DEF HeldOK
<1>5. Noted' /\ groups' = Confirm'
  BY <1>1, FixedEntries, FixedGroups DEF Noted, Fixed
<1>6. DoneOK'
  BY <1>1 DEF DoneOK
<1> QED
  BY <1>1, <1>2, <1>4, <1>5, <1>6 DEF ReviewInv, WorkOK

LEMMA PhaseStep ==
  ASSUME RunInv, NextPhase("copy", "tags") \/ NextPhase("tags", "place")
  PROVE  ReviewInv'
<1>1. /\ Fixed /\ UNCHANGED <<good, journal, files, got, home, failed, groups, confused, report>>
      /\ todo = {} /\ todo' = {g \in groups : g.id \in DOMAIN got /\ g.id \notin failed}
      /\ Underway /\ Underway' /\ phase' \in {"tags", "place"}
  BY DEF NextPhase, Fixed, NoResults, results, Underway
<1>2. WorkOK /\ DoneOK /\ report = None
  BY <1>1 DEF RunInv, ReviewInv
<1>3. IdsOK' /\ LibraryOK' /\ HeldOK'
  BY <1>1, RecordsStay, HeldStays
<1>4. Noted' /\ groups' = Confirm'
  BY <1>1, <1>2, FixedEntries, FixedGroups DEF WorkOK, Noted, Fixed
<1>5. \A g : Skipped(g)' = Skipped(g)
  BY <1>1, FixedEntries
<1>6. DoneOK'
  BY <1>1, <1>2, <1>5 DEF DoneOK
<1> QED
  BY <1>1, <1>2, <1>3, <1>4, <1>6 DEF ReviewInv, WorkOK

-----------------------------------------------------------------------------
\* The end of a run

\* All that a run does not leave out is placed, or has failed.
AtEnd == RunInv /\ phase = "place" /\ todo = {}

LEMMA EndOfRun ==
  ASSUME AtEnd
  PROVE  /\ groups = Confirm /\ Noted /\ HeldOK /\ IdsOK /\ LibraryOK
         /\ \A g \in groups : Skipped(g) \/ g.id \in failed \/ g.id \in DOMAIN home
BY DEF AtEnd, RunInv, ReviewInv, Underway, WorkOK, DoneOK

\* A placed group has a file of its bytes.
LEMMA PlacedFile ==
  ASSUME AtEnd, NEW e \in Media, Sure(e), NEW g, g = GroupOf(e), g.id \in DOMAIN home
  PROVE  /\ Get(g.id).path \in DOMAIN files
         /\ files[Get(g.id).path].hash = arch[e].hash
         /\ home[g.id] = files[Get(g.id).path].dir
<1>1. g.id \in DOMAIN got /\ Get(g.id).path # 0 /\ Get(g.id).hash = got[g.id]
      /\ home[g.id] = files[Get(g.id).path].dir /\ NamedFor(g.id, got[g.id])
  BY EndOfRun DEF HeldOK
<1>2. Get(g.id) = journal[g.id] /\ g.id \in DOMAIN journal /\ Get(g.id).path \in DOMAIN files
  BY <1>1, Records DEF AtEnd, RunInv
<1>3. files[Get(g.id).path].hash = Get(g.id).hash
  BY <1>1, <1>2, EndOfRun DEF IdsOK
<1>4. got[g.id] = arch[e].hash
  BY <1>1, EndOfRun, NamedIsIt DEF AtEnd, RunInv
<1> QED
  BY <1>1, <1>2, <1>3, <1>4

\* No content that can be told is there twice.
LEMMA OneFile ==
  ASSUME AtEnd, NEW e \in Media, Sure(e), NEW i \in DOMAIN files, files[i].hash = arch[e].hash
  PROVE  Get(IdOf(e)).path = i
<1>1. PICK d \in Media : arch[d].hash = files[i].hash /\ (Sure(d) => Get(IdOf(d)).path = i)
  BY EndOfRun DEF IdsOK
<1> QED
  BY <1>1, SameHash DEF AtEnd, RunInv

\* A group with a member outside of the trash is not left out.
LEMMA NotSkipped ==
  ASSUME Given, NEW e \in Media, arch[e].folder # "trash" \/ opt.trash
  PROVE  ~Skipped(GroupOf(e))
<1> DEFINE g == GroupOf(e)
<1>1. Before(g.canon, e) /\ g.canon \in DOMAIN arch /\ e \in DOMAIN arch
  BY GroupShape, EntryTypes
<1> HIDE DEF g
<1>2. ASSUME arch[g.canon].folder = "trash" PROVE arch[e].folder = "trash"
  <2>1. arch[e].folder \in Folders /\ arch[g.canon].folder \in Folders
    BY <1>1, EntryTypes
  <2>2. Score(arch[g.canon].folder) <= Score(arch[e].folder)
        /\ Score(arch[g.canon].folder) = 4 /\ Score(arch[e].folder) \in Nat
    BY <1>1, <1>2, <2>1, Scores DEF Before
  <2> QED
    BY <2>1, <2>2, Scores
<1> QED
  BY <1>2 DEF Skipped, g

\* A run that ends accounts for each photo that can be told.
LEMMA EndAccounted ==
  ASSUME AtEnd, Finish
  PROVE  Accounted'
<1>1. Fixed /\ UNCHANGED <<files, confused>>
      /\ report'.missing = UNION {g.members : g \in {h \in groups : Fails(h)}}
  BY DEF Finish, Fixed, NoResults, results
<1>2. ASSUME NEW e \in Media, Wants(arch[e].hash), Sure(e)
      PROVE  \/ Cardinality(Copies(arch[e].hash)) = 1
             \/ Copies(arch[e].hash) = {} /\ \E d \in report'.missing : arch[d].hash = arch[e].hash
  <2>1. PICK w \in Media : arch[w].hash = arch[e].hash /\ (arch[w].folder # "trash" \/ opt.trash)
    BY <1>2 DEF Wants
  <2> DEFINE g == GroupOf(w)
  <2>2. Sure(w) /\ ~Skipped(g) /\ g \in groups /\ w \in g.members
    BY <1>2, <2>1, SameHash, NotSkipped, GroupShape, EndOfRun DEF AtEnd, RunInv
  <2>3. \A i, j \in Copies(arch[e].hash) : i = j
    BY <1>2, OneFile DEF Copies
  <2>4. CASE Copies(arch[e].hash) # {}
    <3>1. PICK i : i \in Copies(arch[e].hash)
      BY <2>4
    <3>2. Copies(arch[e].hash) = {i}
      BY <2>3, <3>1
    <3> QED
      BY <3>2, FS_Singleton
  <2>5. CASE g.id \in failed
    <3>1. w \in report'.missing
      BY <1>1, <2>2, <2>5 DEF Fails
    <3> QED
      BY <2>1, <2>4, <3>1
  <2>6. CASE g.id \notin failed
    <3>1. g.id \in DOMAIN home
      BY <2>2, <2>6, EndOfRun
    <3>2. Get(g.id).path \in Copies(arch[e].hash)
      BY <2>1, <2>2, <3>1, PlacedFile DEF Copies
    <3> QED
      BY <2>4, <3>2
  <2> QED
    BY <2>5, <2>6
<1>3. \A h : Wants(h)' = Wants(h) /\ Copies(h)' = Copies(h)
  BY <1>1, FixedEntries DEF Fixed, Wants, Copies
<1> QED
  BY <1>1, <1>2, <1>3, FixedEntries DEF Accounted, Admitted, Sure, Fixed

\* The groups of a finite archive can be counted.
LEMMA GroupsCount ==
  ASSUME Given
  PROVE  IsFiniteSet(Confirm)
<1> DEFINE f == [e \in Media |-> GroupOf(e)]
<1>1. f \in Surjection(Media, Confirm)
  BY DEF Surjection, Confirm
<1>2. IsFiniteSet(Media)
  BY EntryTypes, FS_Subset
<1> QED
  BY <1>1, <1>2, FS_Surjection

LEMMA Apart ==
  ASSUME NEW A, NEW B, IsFiniteSet(A \cup B), A \cap B = {}
  PROVE  /\ IsFiniteSet(A) /\ IsFiniteSet(B)
         /\ Cardinality(A) \in Nat /\ Cardinality(B) \in Nat
         /\ Cardinality(A \cup B) = Cardinality(A) + Cardinality(B)
<1>1. IsFiniteSet(A) /\ IsFiniteSet(B)
  BY FS_Subset
<1>2. Cardinality(A) \in Nat /\ Cardinality(B) \in Nat
  BY <1>1, FS_CardinalityType
<1>3. Cardinality(A \cap B) = 0
  BY FS_EmptySet
<1>4. Cardinality(A \cup B) = Cardinality(A) + Cardinality(B) - Cardinality(A \cap B)
  BY <1>1, FS_Union
<1> QED
  BY <1>1, <1>2, <1>3, <1>4

\* The numbers of report.json add up.
LEMMA SumsUp ==
  ASSUME AtEnd
  PROVE  FillReport.unique + Cardinality({g \in groups : g.placeholder /\ Fails(g)})
           = FillReport.failed + FillReport.library + FillReport.unknown + FillReport.notImportable
             + FillReport.placeholders + Cardinality({g \in groups : Skipped(g) /\ ~Fails(g)})
<1> DEFINE F == {g \in groups : Fails(g)}
           P == {g \in groups : g.placeholder}
           T == {g \in groups : g.placeholder /\ Fails(g)}
           Q == {g \in groups : g.placeholder /\ ~Fails(g)}
           S == {g \in groups : Skipped(g) /\ ~Fails(g)}
           L == {g \in groups : Listed(g)}
           I == {g \in L : NotImportable(g)}
           H == {g \in L : ~NotImportable(g)}
           U == {g \in H : NoDate(g)}
           Y == {g \in H : ~NoDate(g)}
           V == S \cup L
           W == Q \cup V
<1>1. IsFiniteSet(groups)
  BY GroupsCount, EndOfRun DEF AtEnd, RunInv
<1>2. groups = F \cup W /\ F \cap W = {}
  BY DEF Listed, LeftInLibrary
<1>3. W = Q \cup V /\ Q \cap V = {} /\ V = S \cup L /\ S \cap L = {}
  BY DEF Listed, LeftInLibrary, Skipped
<1>4. P = Q \cup T /\ Q \cap T = {} /\ L = I \cup H /\ I \cap H = {} /\ H = U \cup Y /\ U \cap Y = {}
  OBVIOUS
<1>5. FillReport = [unique |-> Cardinality(groups), failed |-> Cardinality(F),
                    placeholders |-> Cardinality(P), notImportable |-> Cardinality(I),
                    unknown |-> Cardinality(U), library |-> Cardinality(Y)]
  BY DEF FillReport
<1>6. P \subseteq groups
  OBVIOUS
<1> HIDE DEF F, P, T, Q, S, L, I, H, U, Y, V, W
<1>7. /\ IsFiniteSet(W) /\ Cardinality(F) \in Nat /\ Cardinality(W) \in Nat
      /\ Cardinality(groups) = Cardinality(F) + Cardinality(W)
  <2>1. IsFiniteSet(F \cup W) /\ F \cap W = {} /\ groups = F \cup W
    BY <1>1, <1>2
  <2>2. /\ IsFiniteSet(W) /\ Cardinality(F) \in Nat /\ Cardinality(W) \in Nat
        /\ Cardinality(F \cup W) = Cardinality(F) + Cardinality(W)
    BY <2>1, Apart
  <2> QED
    BY <2>1, <2>2
<1>8. /\ IsFiniteSet(V) /\ Cardinality(Q) \in Nat /\ Cardinality(V) \in Nat
      /\ Cardinality(W) = Cardinality(Q) + Cardinality(V)
  <2>1. IsFiniteSet(Q \cup V) /\ Q \cap V = {} /\ W = Q \cup V
    BY <1>3, <1>7
  <2>2. /\ IsFiniteSet(V) /\ Cardinality(Q) \in Nat /\ Cardinality(V) \in Nat
        /\ Cardinality(Q \cup V) = Cardinality(Q) + Cardinality(V)
    BY <2>1, Apart
  <2> QED
    BY <2>1, <2>2
<1>9. /\ IsFiniteSet(L) /\ Cardinality(S) \in Nat /\ Cardinality(L) \in Nat
      /\ Cardinality(V) = Cardinality(S) + Cardinality(L)
  <2>1. IsFiniteSet(S \cup L) /\ S \cap L = {} /\ V = S \cup L
    BY <1>3, <1>8
  <2>2. /\ IsFiniteSet(L) /\ Cardinality(S) \in Nat /\ Cardinality(L) \in Nat
        /\ Cardinality(S \cup L) = Cardinality(S) + Cardinality(L)
    BY <2>1, Apart
  <2> QED
    BY <2>1, <2>2
<1>10. /\ IsFiniteSet(H) /\ Cardinality(I) \in Nat /\ Cardinality(H) \in Nat
      /\ Cardinality(L) = Cardinality(I) + Cardinality(H)
  <2>1. IsFiniteSet(I \cup H) /\ I \cap H = {} /\ L = I \cup H
    BY <1>4, <1>9
  <2>2. /\ IsFiniteSet(H) /\ Cardinality(I) \in Nat /\ Cardinality(H) \in Nat
        /\ Cardinality(I \cup H) = Cardinality(I) + Cardinality(H)
    BY <2>1, Apart
  <2> QED
    BY <2>1, <2>2
<1>11. /\ IsFiniteSet(Y) /\ Cardinality(U) \in Nat /\ Cardinality(Y) \in Nat
      /\ Cardinality(H) = Cardinality(U) + Cardinality(Y)
  <2>1. IsFiniteSet(U \cup Y) /\ U \cap Y = {} /\ H = U \cup Y
    BY <1>4, <1>10
  <2>2. /\ IsFiniteSet(Y) /\ Cardinality(U) \in Nat /\ Cardinality(Y) \in Nat
        /\ Cardinality(U \cup Y) = Cardinality(U) + Cardinality(Y)
    BY <2>1, Apart
  <2> QED
    BY <2>1, <2>2
<1>12. IsFiniteSet(P)
  BY <1>1, <1>6, FS_Subset
<1>13. /\ IsFiniteSet(T) /\ Cardinality(Q) \in Nat /\ Cardinality(T) \in Nat
      /\ Cardinality(P) = Cardinality(Q) + Cardinality(T)
  <2>1. IsFiniteSet(Q \cup T) /\ Q \cap T = {} /\ P = Q \cup T
    BY <1>4, <1>12
  <2>2. /\ IsFiniteSet(T) /\ Cardinality(Q) \in Nat /\ Cardinality(T) \in Nat
        /\ Cardinality(Q \cup T) = Cardinality(Q) + Cardinality(T)
    BY <2>1, Apart
  <2> QED
    BY <2>1, <2>2
<1> QED
  BY <1>5, <1>7, <1>8, <1>9, <1>10, <1>11, <1>13 DEF T, S

\* Without a failed group no entry ends as an error.
LEMMA NoErrors ==
  ASSUME AtEnd, failed = {}, NEW e \in DOMAIN arch
  PROVE  Fate(e) # "error"
<1>1. arch[e].kind \in {"media", "screenshot", "json", "system", "symlink"}
  BY EntryTypes DEF AtEnd, RunInv
<1>2. \A g : GroupFate(g) # "error"
  BY DEF GroupFate
<1>3. \A g : MemberFate(g, e) # "error"
  BY <1>2 DEF MemberFate
<1>4. CASE e \in Media
  <2>1. GroupOf(e) \in groups /\ e \in GroupOf(e).members
    BY <1>4, EndOfRun, GroupShape DEF AtEnd, RunInv
  <2>2. {g \in groups : e \in g.members} # {}
    BY <2>1
  <2>3. arch[e].kind = "media" \/ (arch[e].kind = "screenshot" /\ ~opt.shots)
    BY <1>4 DEF Media
  <2> QED
    BY <1>3, <2>2, <2>3 DEF Fate
<1>5. CASE e \notin Media
  BY <1>1, <1>5 DEF Media, Fate
<1> QED
  BY <1>4, <1>5

-----------------------------------------------------------------------------
\* The counts and the folders

\* Nothing failed, now or before.
AllWell == AtEnd /\ failed = {} /\ confused = {}

\* The file of each group that is not left out.
PathOf(g) == Get(g.id).path

LEMMA WellPlaced ==
  ASSUME AllWell, NEW g \in groups, ~Skipped(g)
  PROVE  /\ PathOf(g) \in DOMAIN files /\ files[PathOf(g)].dir = Dest(g) /\ HomeOf(g) = Dest(g)
         /\ \A e \in Media : arch[e].hash = files[PathOf(g)].hash => g = Full(e)
<1>1. groups = Confirm /\ Media \subseteq good /\ LibraryOK /\ g.id \in DOMAIN home /\ Given
  BY EndOfRun DEF AllWell, Noted, AtEnd, RunInv
<1>2. PICK d \in Media : g = GroupOf(d)
  BY <1>1 DEF Confirm
<1>3. Sure(d)
  BY DEF Sure, AllWell
<1>4. /\ PathOf(g) \in DOMAIN files /\ files[PathOf(g)].hash = arch[d].hash
      /\ home[g.id] = files[PathOf(g)].dir
  BY <1>1, <1>2, <1>3, PlacedFile DEF AllWell, PathOf
<1>5. g = Full(d)
  BY <1>1, <1>2, FullGroup DEF AllWell
<1>6. \A e \in Media : arch[e].hash = files[PathOf(g)].hash => g = Full(e)
  BY <1>1, <1>4, <1>5, SameHash
<1>7. PICK e \in Media : arch[e].hash = files[PathOf(g)].hash /\ files[PathOf(g)].dir = Dest(Full(e))
  BY <1>1, <1>4 DEF LibraryOK, AllWell
<1>8. files[PathOf(g)].dir = Dest(g)
  BY <1>6, <1>7
<1> QED
  BY <1>1, <1>4, <1>6, <1>8 DEF HomeOf

\* Each folder has as many files as groups that belong there.
LEMMA OnePerGroup ==
  ASSUME AllWell, NEW dir
  PROVE  Within(dir) = Cardinality({g \in groups : ~Skipped(g) /\ Dest(g) = dir})
<1> DEFINE G == {g \in groups : ~Skipped(g) /\ Dest(g) = dir}
           F == {i \in DOMAIN files : files[i].dir = dir}
           path == [g \in G |-> PathOf(g)]
<1>0. Given /\ groups = Confirm /\ Media \subseteq good /\ LibraryOK
  BY EndOfRun DEF AllWell, AtEnd, RunInv, Noted
<1>1. \A g \in G : PathOf(g) \in F
  BY WellPlaced
<1>2. \A g, h \in G : PathOf(g) = PathOf(h) => g = h
  <2>1. SUFFICES ASSUME NEW g \in G, NEW h \in G, PathOf(g) = PathOf(h) PROVE g = h
    OBVIOUS
  <2>2. PICK e \in Media : arch[e].hash = files[PathOf(g)].hash
    BY <1>0, <1>1 DEF LibraryOK, AllWell
  <2> QED
    BY <2>1, <2>2, WellPlaced
<1>3. \A i \in F : \E g \in G : PathOf(g) = i
  <2>1. SUFFICES ASSUME NEW i \in F PROVE \E g \in G : PathOf(g) = i
    OBVIOUS
  <2>2. PICK e \in Media : /\ arch[e].hash = files[i].hash
                           /\ ~Skipped(Full(e)) /\ files[i].dir = Dest(Full(e))
    BY <1>0, <2>1 DEF LibraryOK, AllWell
  <2>3. Full(e) \in G
    BY <1>0, <2>1, <2>2, FullGroup DEF Confirm, AllWell
  <2>4. Full(e).id = IdOf(e) /\ Sure(e)
    BY DEF Full, Sure, AllWell
  <2>5. PathOf(Full(e)) = i
    BY <2>1, <2>2, <2>4, OneFile DEF AllWell, PathOf
  <2> QED
    BY <2>3, <2>5
<1>4. IsFiniteSet(G)
  BY <1>0, GroupsCount, FS_Subset
<1> HIDE DEF G, F
<1>5. path \in Bijection(G, F)
  <2>1. path \in [G -> F]
    BY <1>1
  <2>2. path \in Injection(G, F)
    BY <1>2, <2>1 DEF Injection, IsInjective
  <2>3. path \in Surjection(G, F)
    BY <1>3, <2>1 DEF Surjection
  <2> QED
    BY <2>2, <2>3 DEF Bijection
<1>6. Cardinality(F) = Cardinality(G)
  BY <1>4, <1>5, FS_Bijection DEF ExistsBijection
<1> QED
  BY <1>6 DEF F, G, Within

LEMMA EndCounted ==
  ASSUME AtEnd, Finish
  PROVE  Counted'
<1>1. /\ UNCHANGED <<files, confused>> /\ arch' = arch
      /\ report'.exit = ExitCode /\ report'.counts = FillReport
      /\ report'.fates = [e \in DOMAIN arch |-> Fate(e)]
      /\ report'.skipped = Cardinality({g \in groups : Skipped(g) /\ ~Fails(g)})
      /\ report'.twice = Cardinality({g \in groups : g.placeholder /\ Fails(g)})
  BY DEF Finish, NoResults, results
<1>2. ExitCode = 0 => failed = {}
  BY DEF ExitCode
<1>3. ASSUME failed = {}, confused = {}
      PROVE  /\ Within("year") = FillReport.library /\ Within("unknown") = FillReport.unknown
             /\ Within("not-importable") = FillReport.notImportable
             /\ Within("placeholders") = FillReport.placeholders
  <2> DEFINE G(dir) == {g \in groups : ~Skipped(g) /\ Dest(g) = dir}
  <2>0. AllWell
    BY <1>3 DEF AllWell
  <2>1. \A dir : Within(dir) = Cardinality(G(dir))
    BY <2>0, OnePerGroup
  <2>2. \A g \in groups : ~Skipped(g) => HomeOf(g) = Dest(g)
    BY <2>0, WellPlaced
  <2>3. \A g : ~Fails(g)
    BY <1>3 DEF Fails
  <2>4. \A g \in groups : Listed(g) <=> ~Skipped(g) /\ ~g.placeholder
    BY <2>3 DEF Listed, LeftInLibrary
  <2>5. ASSUME NEW g \in groups, Listed(g)
        PROVE  /\ NotImportable(g) <=> Dest(g) = "not-importable"
               /\ ~NotImportable(g) => (NoDate(g) <=> Dest(g) = "unknown")
               /\ ~NotImportable(g) => (~NoDate(g) <=> Dest(g) = "year")
    BY <2>2, <2>4, <2>5 DEF NotImportable, NoDate, Dest
  <2>6. \A g \in groups : Dest(g) \in {"year", "unknown", "not-importable"} => ~g.placeholder
    BY DEF Dest
  <2>7. \A g \in groups : ~Skipped(g) /\ Dest(g) = "placeholders" <=> g.placeholder
    BY DEF Dest, Skipped
  <2>8. /\ G("placeholders") = {g \in groups : g.placeholder}
        /\ G("not-importable") = {g \in {h \in groups : Listed(h)} : NotImportable(g)}
        /\ G("unknown") =
             {g \in {h \in {k \in groups : Listed(k)} : ~NotImportable(h)} : NoDate(g)}
        /\ G("year") =
             {g \in {h \in {k \in groups : Listed(k)} : ~NotImportable(h)} : ~NoDate(g)}
    BY <2>4, <2>5, <2>6, <2>7
  <2> HIDE DEF G
  <2> QED
    BY <2>1, <2>8 DEF FillReport
<1>4. \A dir : Within(dir)' = Within(dir)
  BY <1>1 DEF Within
<1>5. ExitCode = 0 => \A e \in DOMAIN arch : Fate(e) # "error"
  BY <1>2, NoErrors
<1> QED
  BY <1>1, <1>2, <1>3, <1>4, <1>5, SumsUp DEF Counted

-----------------------------------------------------------------------------
\* All runs

LEMMA FinishStep ==
  ASSUME RunInv, Finish
  PROVE  ReviewInv'
<1>1. AtEnd
  BY DEF Finish, AtEnd
<1>2. Fixed /\ UNCHANGED <<journal, files, confused>> /\ phase' = "off"
  BY DEF Finish, Fixed, NoResults, results
<1>3. IdsOK' /\ LibraryOK'
  BY <1>2, RecordsStay
<1>4. Accounted' /\ Counted'
  BY <1>1, EndAccounted, EndCounted
<1> QED
  BY <1>2, <1>3, <1>4 DEF ReviewInv, Underway

LEMMA ReviewInvStep ==
  ASSUME RunInv, [Next]_vars
  PROVE  ReviewInv'
<1>1. CASE UNCHANGED vars
  <2>1. Fixed /\ UNCHANGED <<good, phase, todo, groups, got, failed, home, journal, files, report, confused>>
    BY <1>1 DEF vars, run, results, Fixed
  <2>2. CASE ~Underway
    BY <2>1, <2>2, OutsideStep DEF Underway, RunInv, ReviewInv
  <2>3. CASE Underway
    <3>1. WorkOK /\ DoneOK /\ report = None
      BY <2>3 DEF RunInv, ReviewInv
    <3>2. IdsOK' /\ LibraryOK' /\ HeldOK'
      BY <2>1, <2>3, RecordsStay, HeldStays
    <3>3. Noted' /\ groups' = Confirm'
      BY <2>1, <3>1, FixedEntries, FixedGroups DEF WorkOK, Noted, Fixed
    <3>4. \A g : Skipped(g)' = Skipped(g)
      BY <2>1, FixedEntries
    <3>5. DoneOK'
      BY <2>1, <3>1, <3>4 DEF DoneOK
    <3> QED
      BY <2>1, <2>3, <3>1, <3>2, <3>3, <3>5 DEF ReviewInv, WorkOK, Underway
  <2> QED
    BY <2>2, <2>3
<1>2. ASSUME NEW readable, Start(readable) PROVE ReviewInv'
  BY <1>2, OutsideStep DEF Start, NoResults, results, Fixed, Underway
<1>3. CASE UnzipStep \/ AddAlien
  BY <1>3, OutsideStep DEF UnzipStep, AddAlien, NoResults, results, run, Fixed, Underway, RunInv, ReviewInv
<1>4. CASE UnzipFails \/ UnzipDone \/ Preflight \/ Stop
  BY <1>4, OutsideStep DEF UnzipFails, UnzipDone, Preflight, Stop, NoResults, results, Fixed,
                           Underway, RunInv, ReviewInv
<1>5. CASE ConfirmDuplicates \/ Finish \/ NextPhase("copy", "tags") \/ NextPhase("tags", "place")
  BY <1>5, ConfirmStep, FinishStep, PhaseStep
<1>6. ASSUME NEW g \in groups, Handle(g) PROVE ReviewInv'
  BY <1>6, NoFileStep, AdoptStep, ExtractStep, TagStep, PlaceStep DEF Handle
<1> QED
  BY <1>1, <1>2, <1>3, <1>4, <1>5, <1>6 DEF Next

LEMMA ReviewInvInit == Init => ReviewInv
<1> SUFFICES ASSUME Init PROVE ReviewInv
  OBVIOUS
<1>1. phase = "off" /\ report = None /\ files = <<>> /\ journal = <<>>
  BY DEF Init
<1>2. DOMAIN files = {} /\ DOMAIN journal = {}
  BY <1>1
<1> QED
  BY <1>1, <1>2 DEF ReviewInv, IdsOK, LibraryOK, Underway

\* Whatever is damaged, stopped or full, in any run: a record's bytes are those
\* of its id, a file of content that can be told has a record, and a run forgets
\* no group that it does not leave out.
THEOREM ReviewInductive == Spec => []ReviewInv
<1>1. ASSUME UnzipInv, TypeOK /\ RunOK, ReviewInv, [Next]_vars PROVE ReviewInv'
  BY <1>1, ReviewInvStep DEF RunInv, UnzipInv, Typed
<1> QED
  BY ReviewInvInit, UnzipInductive, ReviewTypes, <1>1, PTL DEF Spec

\* A run that ends accounts for each photo whose content can be told: it is in
\* the library once, or a file of it is among the failed ones (confirmDuplicates,
\* placeAll, failedFiles), for any zips, options, damage, faults and runs before.
THEOREM EveryPhotoAccounted == Spec => []NothingLost
<1>1. ReviewInv => NothingLost
  BY DEF ReviewInv, NothingLost
<1> QED
  BY ReviewInductive, <1>1, PTL

\* The numbers of report.json add up, exit code 0 says that no entry is an
\* error, and when nothing was damaged they are the files in the folders.
THEOREM ReportAddsUp == Spec => []ReportTrue
<1>1. ReviewInv => ReportTrue
  BY DEF ReviewInv, ReportTrue
<1> QED
  BY ReviewInductive, <1>1, PTL

=============================================================================
