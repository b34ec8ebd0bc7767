------------------------------ MODULE MCKernel ------------------------------
(***************************************************************************)
(* Model values for checking Kernel: four slots as in thread.h, and the    *)
(* shortest messages that tell a full, a truncated and an oversized        *)
(* transfer apart.  The history variable of RoundRobin goes along.         *)
(***************************************************************************)
EXTENDS Kernel, RoundRobin

MCLengths == 0 .. IPC_MSG_SIZE + 1
MCRetVals == {FAIL} \cup Slots \cup MCLengths

MCInit == Init /\ RRInit

MCNext == Next /\ Passes

MCSpec == MCInit /\ [][MCNext]_<<vars, passed>>
=============================================================================
