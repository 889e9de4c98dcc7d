------------------------------- MODULE Unzip --------------------------------
(***************************************************************************)
(* --keep-unzipped and --unzip-only: unzipAll, unzipOne, unzipFile,        *)
(* extractTo and unzipRel of internal/pipeline.  Each zip goes to a folder *)
(* of its own, where the user or another program may add files, and any    *)
(* step may be the last one of its run.                                    *)
(*                                                                         *)
(* A name is a sequence: <<b>> is a name, <<b, 2>> is "b (2)".  arch[e].rel*)
(* is what unzipRel makes of the name of e in the zip, without an index.   *)
(***************************************************************************)
EXTENDS Archive, Naturals, Sequences, FiniteSets

CONSTANTS
  Nothing, Torn, Alien,  \* no file, part of a file, a file of someone else
  MaxAliens,
  MaxIndex               \* bound on the number a name may get

VARIABLES
  disk,        \* disk[z][name]: the bytes of the file, Nothing, Torn or Alien
  partial,     \* partial[z][name]: the bytes of name.partial
  complete,    \* the zips whose folder has .complete
  aliens,
  unz          \* what the run is unzipping

unzipped == <<disk, partial, complete>>

Zips == {arch[e].zip : e \in DOMAIN arch}
Bases == {arch[e].rel : e \in DOMAIN arch}
WithIndex(name, n) == IF n = 1 THEN name ELSE Append(name, n)
Indexed(S) == {WithIndex(b, n) : b \in S, n \in 1 .. MaxIndex}
Names == Indexed(Indexed(Bases))
Hashes == {arch[e].hash : e \in DOMAIN arch}

\* Symbolic links and files of an operating system are left out.
Wanted(z) == {e \in DOMAIN arch : arch[e].zip = z /\ arch[e].kind \notin {"system", "symlink"}}

Idle == [zip |-> 0, step |-> "zip", todo |-> {}, taken |-> {}, name |-> <<>>, n |-> 1]

UnzipInit ==
  /\ disk = [z \in Zips |-> [name \in Names |-> Nothing]]
  /\ partial = [z \in Zips |-> [name \in Names |-> Nothing]]
  /\ complete = {} /\ aliens = 0 /\ unz = Idle

Current == CHOOSE e \in unz.todo : \A d \in unz.todo : e <= d
Target == WithIndex(unz.name, unz.n)
Found == disk[unz.zip][Target]

\* A zip whose folder has .complete is passed over.
NextZip ==
  /\ unz.step = "zip"
  /\ \E z \in Zips :
       /\ z > unz.zip /\ \A y \in Zips : y > unz.zip => z <= y
       /\ unz' = IF z \in complete THEN [Idle EXCEPT !.zip = z]
                 ELSE [Idle EXCEPT !.zip = z, !.step = "file", !.todo = Wanted(z)]
  /\ UNCHANGED unzipped

\* unzipRel: the first name that no earlier entry of this zip has.
FirstFree(base, n) ==
  /\ WithIndex(base, n) \notin unz.taken
  /\ \A k \in 1 .. n - 1 : WithIndex(base, k) \in unz.taken

NextFile ==
  /\ unz.step = "file" /\ unz.todo # {}
  /\ \E n \in 1 .. MaxIndex :
       LET name == WithIndex(arch[Current].rel, n)
       IN /\ FirstFree(arch[Current].rel, n)
          /\ unz' = [unz EXCEPT !.step = "look", !.name = name, !.n = 1,
                                !.taken = @ \cup {name}]
  /\ UNCHANGED unzipped

SameSizeAndCRC(found, e) ==
  found \in Hashes /\ \E d \in DOMAIN arch : arch[d].hash = found /\ arch[d].sig = arch[e].sig

\* A file of the same size and CRC32 is this one, of an earlier run.
Extracted(found, e) == SameSizeAndCRC(found, e)
\* Variant (must fail): any file of that name is.
ThereAlready(found, e) == TRUE
AlreadyThere(found, e) == Extracted(found, e)

Done == [unz EXCEPT !.step = "file", !.todo = @ \ {Current}]

\* os.Stat finds a file at the target, before or after the extraction.
LookAt ==
  /\ unz.step \in {"look", "move"} /\ Found # Nothing
  /\ \/ AlreadyThere(Found, Current) /\ unz' = Done
     \/ ~AlreadyThere(Found, Current) /\ unz.n < MaxIndex /\ unz' = [unz EXCEPT !.n = @ + 1]
  /\ partial' = [partial EXCEPT ![unz.zip][unz.name] =
                   IF AlreadyThere(Found, Current) /\ unz.step = "look" THEN Nothing ELSE @]
  /\ UNCHANGED <<disk, complete>>

\* extractTo creates or truncates the .partial file, then copies.
CreatePartial ==
  /\ unz.step = "look" /\ Found = Nothing
  /\ partial' = [partial EXCEPT ![unz.zip][unz.name] = Torn]
  /\ unz' = [unz EXCEPT !.step = "copy"]
  /\ UNCHANGED <<disk, complete>>

Copy ==
  /\ unz.step = "copy" /\ Current \in good
  /\ partial' = [partial EXCEPT ![unz.zip][unz.name] = arch[Current].hash]
  /\ unz' = [unz EXCEPT !.step = "move"]
  /\ UNCHANGED <<disk, complete>>

\* The entry is damaged, or the disk is full: the run ends.
CopyFails ==
  /\ unz.step = "copy"
  /\ partial' = [partial EXCEPT ![unz.zip][unz.name] = Nothing]
  /\ unz' = Idle
  /\ UNCHANGED <<disk, complete>>

Moved ==
  /\ disk' = [disk EXCEPT ![unz.zip][Target] = partial[unz.zip][unz.name]]
  /\ partial' = [partial EXCEPT ![unz.zip][unz.name] = Nothing]
  /\ unz' = Done
  /\ UNCHANGED complete

\* Variant (must fail): a plain rename.
MoveOver == unz.step = "move" /\ Moved
\* The move never replaces a file: at one, the next name is looked at.
MoveFree == unz.step = "move" /\ Found = Nothing /\ Moved
Move == MoveFree

Complete ==
  /\ unz.step = "file" /\ unz.todo = {}
  /\ complete' = complete \cup {unz.zip}
  /\ unz' = [Idle EXCEPT !.zip = unz.zip]
  /\ UNCHANGED <<disk, partial>>

AllUnzipped == unz.step = "zip" /\ \A z \in Zips : z <= unz.zip

Unzipping ==
  /\ \/ NextZip \/ NextFile \/ LookAt \/ CreatePartial \/ Copy \/ Move \/ Complete
  /\ UNCHANGED aliens

Intrude(z, name) ==
  /\ aliens < MaxAliens /\ disk[z][name] = Nothing
  /\ disk' = [disk EXCEPT ![z][name] = Alien] /\ aliens' = aliens + 1
  /\ UNCHANGED <<partial, complete, unz>>

-----------------------------------------------------------------------------
\* No two entries of the zip have the size and CRC32 of each other and other bytes.
Telling(z) ==
  \A d, e \in Wanted(z) : arch[d].sig = arch[e].sig => arch[d].hash = arch[e].hash

\* A folder with .complete has every file of its zip, whole, whatever a run
\* before was stopped at ("a later run must not keep a truncated file" is what
\* the .partial name and the size and CRC32 test of unzipFile are for).
Unpacked ==
  \A z \in complete :
    Telling(z) => \A e \in Wanted(z) : \E name \in Names : disk[z][name] = arch[e].hash

\* "It never replaces a file" (unzipAll): a file in the folder stays as it is,
\* another program's too if the file system has hard links or a rename that
\* refuses an existing file (Move); on FAT and exFAT media.Rename looks first and
\* then renames, and only takeout's own files are safe.
UnzipKeeps ==
  [][\A z \in Zips, name \in Names : disk[z][name] # Nothing => disk'[z][name] = disk[z][name]]_disk

-----------------------------------------------------------------------------
\* The inductive invariant behind Unpacked and UnzipKeeps (Review_proofs)

Contents(z) == {arch[e].hash : e \in Wanted(z)}
Whole(z, e) == \E name \in Names : disk[z][name] = arch[e].hash

\* A folder holds whole files of its zip, and those of others.
FoldersOK ==
  /\ DOMAIN disk = Zips /\ DOMAIN partial = Zips /\ complete \subseteq Zips
  /\ \A z \in Zips : DOMAIN disk[z] = Names /\ DOMAIN partial[z] = Names
  /\ \A z \in Zips, name \in Names : disk[z][name] \in {Nothing, Alien} \cup Contents(z)

UnzFields ==
  unz = [zip |-> unz.zip, step |-> unz.step, todo |-> unz.todo, taken |-> unz.taken,
         name |-> unz.name, n |-> unz.n]

\* What is moved is whole; what is not to do any more is there.
UnzOK ==
  /\ unz.step \in {"zip", "file", "look", "copy", "move"}
  /\ unz.step # "zip" =>
       /\ unz.zip \in Zips /\ unz.todo \subseteq Wanted(unz.zip)
       /\ Telling(unz.zip) => \A e \in Wanted(unz.zip) \ unz.todo : Whole(unz.zip, e)
  /\ unz.step \in {"look", "copy", "move"} =>
       unz.todo # {} /\ unz.name \in Indexed(Bases) /\ unz.n \in 1 .. MaxIndex
  /\ unz.step = "move" => partial[unz.zip][unz.name] = arch[Current].hash
=============================================================================
