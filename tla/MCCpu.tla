------------------------------- MODULE MCCpu -------------------------------
(***************************************************************************)
(* Model values for checking Cpu: two tasks and the idle thread, the two   *)
(* results every task may see.                                             *)
(***************************************************************************)
EXTENDS Cpu

MCRetVals == {FAIL, 0}
=============================================================================
