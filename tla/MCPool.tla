------------------------------- MODULE MCPool -------------------------------
(***************************************************************************)
(* Small instances of Pool.  Four processes are as many as two in the pool *)
(* can have at once: two old ones, one being started, one on probation.    *)
(***************************************************************************)
EXTENDS Pool, TLC

\* Callers are alike, and so are processes.
Alike == Permutations(Caller) \cup Permutations(Proc)
=============================================================================
