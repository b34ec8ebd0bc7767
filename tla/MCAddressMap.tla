---------------------------- MODULE MCAddressMap ----------------------------
(***************************************************************************)
(* Model values for checking AddressMap: tables of four entries, blocks of *)
(* four bytes, a kernel of three blocks whose last is the sandbox, with a  *)
(* byte of code and a stack of one byte for each of the three tasks.       *)
(***************************************************************************)
EXTENDS AddressMap

MCStacks ==
  [A |-> [bottom |-> 26, top |-> 27], B |-> [bottom |-> 27, top |-> 28],
   C |-> [bottom |-> 25, top |-> 26]]
=============================================================================
