------------------------- MODULE DurableStoreProofs -------------------------
(***************************************************************************)
(* What DurableStore promises of any states of memory and file, and so     *)
(* what everything that implements it does.                                *)
(***************************************************************************)
EXTENDS DurableStore, TLAPS

(***************************************************************************)
(* Memory and file differ only while a change is marked: with the          *)
(* refinement of module Settings, only while the write-out timer runs, so  *)
(* that a crash loses nothing that is older (scheduleWriteSettings).       *)
(***************************************************************************)
THEOREM StaysClean == Spec => []Clean
<1>1. Init => Clean
  BY DEF Init, Clean
<1>2. ASSUME Clean, [Next]_vars
      PROVE  Clean'
  <2>1. CASE Change
    BY <2>1 DEF Change, Clean
  <2>2. CASE Sync
    <3>1. dirty' = TRUE \/ disk' = memory'
      BY <2>2 DEF Sync
    <3> QED
      BY <3>1, <2>2 DEF Sync, Clean
  <2>3. CASE Crash
    BY <2>3 DEF Crash, Clean
  <2>4. CASE UNCHANGED vars
    BY <1>2, <2>4 DEF vars, Clean
  <2> QED
    BY <1>2, <2>1, <2>2, <2>3, <2>4 DEF Next
<1> QED
  BY <1>1, <1>2, PTL DEF Spec
=============================================================================
