------------------------------ MODULE MCTagging -----------------------------
(***************************************************************************)
(* Small instances of Tagging.                                             *)
(***************************************************************************)
EXTENDS Tagging

Fresh == [stage |-> "staged", written |-> FALSE, temp |-> FALSE]

\* A file in the library, not tagged, with what a killed ExifTool left.
Killed == [stage |-> "placed", written |-> FALSE, temp |-> TRUE]

\* Two writes among groups that need no ExifTool.
MCPlan   == <<"caption", "none", "unread", "dates">>
MCBefore == <<Killed, Fresh, Fresh, Fresh>>
=============================================================================
