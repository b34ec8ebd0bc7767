---------------------------- MODULE WriteService ----------------------------
(***************************************************************************)
(* What SYS_write promises task A in either kernel flavour: every byte of  *)
(* the message is printed before the call returns, none of them twice, and *)
(* the call does return.  Who prints it is left open: the kernel within    *)
(* the call, or a server while the caller waits.                           *)
(***************************************************************************)
EXTENDS Naturals

CONSTANT Messages   (* the lengths of the messages, none of them 0          *)

VARIABLES
  asked,    (* the length of the write in progress, 0 when there is none   *)
  printed   (* bytes of the last message that have been printed            *)

vars == <<asked, printed>>

Init == asked = 0 /\ printed = 0

(* A write that is printed within the call.                                *)
Direct(len) == asked = 0 /\ printed' = len /\ UNCHANGED asked

(* A write that somebody else is asked to print.                           *)
Ask(len) == asked = 0 /\ asked' = len /\ printed' = 0

Output == asked # 0 /\ printed = 0 /\ printed' = asked /\ UNCHANGED asked

Return == asked # 0 /\ printed = asked /\ asked' = 0 /\ UNCHANGED printed

Next ==
  \/ \E len \in Messages : Direct(len) \/ Ask(len)
  \/ Output
  \/ Return

Spec == Init /\ [][Next]_vars /\ WF_vars(Output) /\ WF_vars(Return)
=============================================================================
