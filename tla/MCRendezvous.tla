---------------------------- MODULE MCRendezvous ----------------------------
(***************************************************************************)
(* Model values for checking Rendezvous: as in MCKernel.                   *)
(***************************************************************************)
EXTENDS Rendezvous

MCLengths == 0 .. IPC_MSG_SIZE + 1
MCRetVals == {FAIL} \cup Slots \cup MCLengths
=============================================================================
