------------------------------ MODULE MCSystem ------------------------------
(***************************************************************************)
(* Model values for checking System: the slots of thread.h, and messages   *)
(* just long enough for task A's line.                                     *)
(***************************************************************************)
EXTENDS System

MCLengths == 0 .. TASK_A_MSG
MCRetVals == {FAIL} \cup Slots \cup MCLengths
=============================================================================
