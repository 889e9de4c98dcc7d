------------------------------ MODULE MCAlbums ------------------------------
(***************************************************************************)
(* Small instances of Albums.  Photos 1 and 2 have the name "a" and photo  *)
(* 3 is called "a (2)", all in the album trip; photo 1 is also in the      *)
(* album home.                                                             *)
(***************************************************************************)
EXTENDS Albums

CONSTANTS trip, home,        \* two albums
          a1, a2, a3, a4, a5, a6, \* "a", "a (2)", "a (3)", "a (2) (2)", "a (4)", "a (5)"
          sA, sA2            \* the stems "a" and "a (2)"

\* The last names of a stem are never needed here: any will do.
MCNamed == [s \in {sA, sA2} |-> IF s = sA THEN <<a1, a2, a3, a5, a6, a4>>
                               ELSE <<a2, a4, a6, a5, a3, a1>>]
MCMembers == [g \in Group |-> IF g = 1 THEN {trip, home} ELSE {trip}]
MCStemOf == [g \in Group |-> IF g = 3 THEN sA2 ELSE sA]
=============================================================================
