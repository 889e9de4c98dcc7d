------------------------------ MODULE MCReview ------------------------------
(* Zips and options for TLC.  Hashes 1 and 2 share size and CRC32.          *)
EXTENDS Review

SigOf(h) == IF h < 3 THEN 1 ELSE h
Photo(h, folder) ==
  [kind |-> "media", zip |-> 1, rel |-> <<"a">>, sig |-> SigOf(h), hash |-> h, folder |-> folder,
   taken |-> None, small |-> FALSE, dated |-> TRUE, doc |-> FALSE]
Other(kind) == [Photo(9, "year") EXCEPT !.kind = kind]

\* Copies and lookalikes in the library, an album and the trash.
Copied(f) ==
  {<<Photo(h, "year"), Photo(i, "album"), Photo(j, f)>> : h \in 1 .. 3, i \in 1 .. 3, j \in 1 .. 3}

\* Small pictures that three photos share, and a document or one without a date.
Small(h, t) == [Photo(h, "year") EXCEPT !.small = TRUE, !.taken = t]
Shared ==
  {<<Small(h, 1), Small(1, 2), Small(1, 3), d>> :
     h \in 1 .. 2, d \in {[Photo(3, "album") EXCEPT !.doc = TRUE], [Photo(3, "year") EXCEPT !.dated = FALSE]}}

\* Entries that are no photos.
Mixed == {<<Photo(1, "year"), Other("json"), Other("screenshot"), Other("system")>>,
          <<Photo(2, "trash"), Photo(1, "album"), Other("screenshot"), Other("symlink")>>}

\* What two zips make of their names.
In(z, rel, e) == [e EXCEPT !.zip = z, !.rel = rel]
Named ==
  {<<In(1, <<"a">>, Photo(1, "year")), In(1, r, Photo(h, "year")), In(2, <<"a">>, Photo(3, "year"))>> :
     r \in {<<"a">>, <<"a", 2>>}, h \in {1, 4}}

Given(archives, options) == {[arch |-> a, opt |-> o] : a \in archives, o \in options}
Option(keep, shots, trash) == [keep |-> keep, shots |-> shots, trash |-> trash]

MCCommands ==
  Given(Copied("trash"), {Option(FALSE, FALSE, t) : t \in BOOLEAN})
    \cup Given(Copied("archive"), {Option(FALSE, FALSE, FALSE)})
    \cup Given(Shared, {Option(FALSE, FALSE, FALSE)})
    \cup Given(Mixed, {Option(FALSE, s, t) : s, t \in BOOLEAN})
    \cup Given(Named, {Option(TRUE, FALSE, FALSE)})
=============================================================================
