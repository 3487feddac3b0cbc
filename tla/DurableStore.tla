---------------------------- MODULE DurableStore ----------------------------
(***************************************************************************)
(* What the daemon promises about its settings, with everything else       *)
(* abstracted away: there is a state in memory, a state in the file and a  *)
(* mark that says that they may differ.  Only a marked change is ever      *)
(* lost, and what a start brings back is exactly what the file holds.      *)
(***************************************************************************)
VARIABLES memory, disk, dirty

vars == <<memory, disk, dirty>>

Init == memory = disk /\ dirty = FALSE

\* A request changes a setting: the write-out is scheduled.
Change == dirty' = TRUE /\ disk' = disk

\* Everything is written at once, what has just been changed included.
Sync == disk' = memory' /\ dirty' \in {dirty, FALSE}

\* What was not written is lost.
Crash == memory' = disk /\ disk' = disk /\ dirty' = FALSE

Next == Change \/ Sync \/ Crash

Spec == Init /\ [][Next]_vars

Clean == ~dirty => memory = disk
=============================================================================
