------------------------------ MODULE Archive -------------------------------
(***************************************************************************)
(* The entries of the zips, in the order of the zips (zipindex.Open):      *)
(*                                                                         *)
(*   [kind, zip, rel, sig, hash, folder, taken, small, dated, doc]         *)
(*                                                                         *)
(* sig stands for size and CRC32, hash for the bytes: hash is the rank of  *)
(* the SHA-256 among the hashes of the entries.  Two entries with one hash *)
(* have one sig.                                                           *)
(***************************************************************************)
VARIABLES
  arch,  \* the entries, by number
  good   \* those whose bytes can be read: a damaged zip has others
=============================================================================
