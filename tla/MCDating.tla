------------------------------ MODULE MCDating ------------------------------
(* Libraries for TLC: a day has two hours and a year two days, so that      *)
(* hours 3 and 4 are on the two sides of a New Year.                        *)
EXTENDS Dating

NoSidecar == [taken |-> None, creation |-> None, zone |-> None]
Bare(k) == [kind |-> k, clock |-> None, off |-> None, name |-> None, sc |-> NoSidecar,
            cid |-> None, stem |-> "s"]

TakenAt(t, z) == [NoSidecar EXCEPT !.taken = t, !.zone = z]
Sidecars == {NoSidecar, TakenAt(3, 1), [NoSidecar EXCEPT !.taken = 99, !.creation = 3]}
              \cup {TakenAt(t, None) : t \in {3, 4}}

\* A file with any date of its own, and one beside it, of the same moment or of
\* another one, that may give it its zone.
Dated(k) ==
  {[Bare(k) EXCEPT !.sc = s, !.name = n, !.clock = c, !.off = o] :
     s \in Sidecars, n \in {None, 4}, c \in {None, 3, 4}, o \in {None, 1}}
Beside == {[Bare("jpeg") EXCEPT !.sc = s] : s \in {NoSidecar, TakenAt(3, 1), TakenAt(8, 1)}}
            \cup {[Bare("jpeg") EXCEPT !.clock = 4, !.off = 1]}

Singles == {<<[f EXCEPT !.stem = "t"], g>> :
              f \in UNION {Dated(k) : k \in {"jpeg", "gif", "video"}}, g \in Beside}
Pairs == {<<g, f>> : f \in Dated("video"), g \in Beside \cup {[Bare("jpeg") EXCEPT !.name = 4]}}

\* Four files, of which any may be halves of a pair.
Ids(k) == {[Bare(k) EXCEPT !.cid = c] : c \in {None, "x"}}
Some == Ids("jpeg") \cup Ids("heic") \cup Ids("video")
Crowds == {<<a, b, c, [d EXCEPT !.stem = t]>> :
             a \in Some, b \in Some, c \in Some, d \in Ids("video"), t \in {"s", "t"}}

\* Three photos of which each one is the neighbor of the next.
Chain == << [Bare("jpeg") EXCEPT !.sc = TakenAt(3, None), !.stem = "t"],
            [Bare("jpeg") EXCEPT !.sc = TakenAt(6, None)], [Bare("jpeg") EXCEPT !.sc = TakenAt(9, 0)] >>

MCLibrary == Singles \cup Pairs
MCPairs == Singles \cup Pairs \cup Crowds \cup {Chain}
MCModern == 0 .. 9
MCDatable == -4 .. 9
=============================================================================
