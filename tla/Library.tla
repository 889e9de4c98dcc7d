------------------------------ MODULE Library ------------------------------
(***************************************************************************)
(* What a results folder promises, whatever happens while it is filled:    *)
(* every photo gets at most one place in the year folders, a place that    *)
(* is used is never given to anything else, and files other programs put   *)
(* there stay.  This is the abstract specification; Placement.tla is the   *)
(* program that keeps the promise through crashes, failed writes and       *)
(* repeated runs.                                                          *)
(***************************************************************************)
CONSTANTS Group,   \* the photos of the archives, one per distinct content
          Path,    \* the file names a photo can get under the results folder
          Other,   \* the owner of a file this program did not make
          Nobody   \* the owner of a name that is not in use

VARIABLE shelf     \* whose bytes are at each name

Init == shelf = [p \in Path |-> Nobody]

\* A photo that has no place gets one that nothing uses.
PutAway(g, p) ==
  /\ \A q \in Path : shelf[q] # g
  /\ shelf[p] = Nobody
  /\ shelf' = [shelf EXCEPT ![p] = g]

\* Another program makes a file in the results folder.
Intrude(p) ==
  /\ shelf[p] = Nobody
  /\ shelf' = [shelf EXCEPT ![p] = Other]

Next ==
  \/ \E g \in Group, p \in Path : PutAway(g, p)
  \/ \E p \in Path : Intrude(p)

Spec == Init /\ [][Next]_shelf
=============================================================================
