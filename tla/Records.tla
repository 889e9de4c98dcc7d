------------------------------ MODULE Records ------------------------------
(***************************************************************************)
(* What the pipeline takes the journal for (Placement.tla, Albums.tla): a  *)
(* map of records that one run at a time reads when it starts and then     *)
(* keeps in memory and on disk.  A record that was put without an error is *)
(* on disk and stays there; one that was not may be.                       *)
(*   There is one exception, and it is all that torn stands for: after a   *)
(* Put that failed part of the way the map promises nothing of the next    *)
(* one.  Its record may be lost with what the failed Put left, and Put     *)
(* returns without an error all the same.  Placement and Albums are        *)
(* without it: there, a run does not outlive a write cut short.            *)
(*   Journal.tla is the file that keeps this promise.                      *)
(***************************************************************************)
CONSTANTS Id, Value, Blank, Nothing

VARIABLES open, mem, disk,   \* a run has it open; its records; those on disk
          kept,              \* those on disk that nothing takes away again
          torn,              \* the last Put failed part of the way
          putting, told      \* the id being put; what the last Put returned

records == <<open, mem, disk, kept, torn, putting, told>>

Init == /\ open = FALSE /\ mem = [i \in Id |-> Blank] /\ disk = mem
        /\ kept = disk /\ torn = FALSE
        /\ putting = Nothing /\ told = "none"

\* A new run ends the torn line: what is on disk now is kept.
Open == /\ ~open /\ open' = TRUE /\ mem' = disk /\ told' = "none"
        /\ kept' = disk /\ torn' = FALSE
        /\ UNCHANGED <<disk, putting>>

Begin(i, v) == /\ open /\ putting = Nothing
               /\ putting' = i /\ mem' = [mem EXCEPT ![i] = v] /\ told' = "none"
               /\ UNCHANGED <<open, disk, kept, torn>>

Store == /\ putting # Nothing /\ ~torn
         /\ disk' = [disk EXCEPT ![putting] = mem[putting]]
         /\ kept' \in {kept, disk'}
         /\ UNCHANGED <<open, mem, torn, putting, told>>

\* The record is glued to what the failed Put left, and both are lost.
Lose == /\ putting # Nothing /\ torn
        /\ disk' = kept
        /\ UNCHANGED <<open, mem, kept, torn, putting, told>>

Return(e) == /\ putting # Nothing
             /\ e = "ok" => torn \/ disk[putting] = mem[putting]
             /\ torn' \in BOOLEAN /\ (e = "ok" => ~torn') /\ (~torn' => kept = disk)
             /\ putting' = Nothing /\ told' = e
             /\ UNCHANGED <<open, mem, disk, kept>>

\* The run closes the journal or its process ends.
Stop == /\ open /\ open' = FALSE /\ putting' = Nothing /\ torn' = FALSE
        /\ mem' = [i \in Id |-> Blank] /\ told' = "none" /\ UNCHANGED <<disk, kept>>

Next == \/ Open \/ Store \/ Lose \/ Stop
        \/ \E i \in Id, v \in Value : Begin(i, v)
        \/ \E e \in {"ok", "error"} : Return(e)

Spec == Init /\ [][Next]_records
=============================================================================
