---------------------------- MODULE MCPlacement ----------------------------
(***************************************************************************)
(* Small instances of Placement.  vid is a WebM whose conversion gets the  *)
(* name the photo pic has; "a (2)" is also the plain name of a third stem, *)
(* as in "IMG (2).jpg".                                                    *)
(***************************************************************************)
EXTENDS Placement

CONSTANTS pic, vid, copy,    \* a photo, a WebM video and a photo called "a (2)"
          a1, a2, a3, a4, b1, \* "a", "a (2)", "a (3)", "a (4)" and "b"
          sA, sA2, sB        \* stems "a", "a (2)" and "b"

\* With index 2 the stem "a" is the plain name "a (2)".  The other numbered
\* names are never needed by the few files here, and any name will do.
MCNamed == [s \in {sA, sA2, sB} |->
              CASE s = sA -> <<a1, a2, a3, a4>>
                [] s = sA2 -> <<a2, b1, a3, a4>>
                [] s = sB -> <<b1, a4, a3, a2>>]

\* Both want the name "a"; a video that stays WebM goes to not-importable/b.
MCStemOf == [x \in Group |->
               [orig |-> CASE x \in Webm -> sB
                           [] x = copy -> sA2
                           [] OTHER -> sA,
                mov  |-> sA]]
=============================================================================
