----------------------------- MODULE Rendezvous -----------------------------
(***************************************************************************)
(* IPC as servers that keep its protocol see it: the kernel (Kernel) with  *)
(* arbitrary clients, and with servers that receive before they reply, as  *)
(* tasks B and C of el0/user_tasks.c do, and otherwise do as they please:  *)
(* they fault, call each other, supervise and pass bad buffers.            *)
(***************************************************************************)
EXTENDS Kernel

VARIABLES
  sender,      (* history: who sent the queued request                     *)
  serving      (* history: whose request the owner received last, until it *)
               (* has replied or died                                      *)

rvVars == <<vars, sender, serving>>

RvInit ==
  /\ Init
  /\ sender = [ep \in Eps |-> NONE]
  /\ serving = [ep \in Eps |-> NONE]

Owns(ep) == ep \in Eps /\ owner_slot(ep) = current

(* The step makes the current task the caller on an endpoint.              *)
Calls(ep) == caller[ep] # current /\ caller'[ep] = current

(* A client's request is queued or goes straight to the waiting owner.  No *)
(* server calls itself.                                                    *)
Ask ==
  /\ \/ \E len \in Lengths, ok, elrOk \in BOOLEAN : SYS_write(len, ok, elrOk)
     \/ \E ep \in EpIds, len, cap \in Lengths, ok, elrOk \in BOOLEAN :
          ~Owns(ep) /\ SYS_ipc_call(ep, len, cap, ok, elrOk)
  /\ sender' = [ep \in Eps |-> IF Calls(ep) /\ receiver[ep] = NONE
                               THEN current ELSE sender[ep]]
  /\ serving' = [ep \in Eps |-> IF Calls(ep) /\ receiver[ep] # NONE
                                THEN current ELSE serving[ep]]

(* A server receives when it serves nobody.                                *)
Receive ==
  \E ep \in EpIds, cap \in Lengths, ok, elrOk \in BOOLEAN :
    /\ Owns(ep) => serving[ep] = NONE
    /\ SYS_ipc_recv(ep, cap, ok, elrOk)
    /\ IF Serves(ep, ok) /\ pending[ep] # NONE
       THEN /\ serving' = [serving EXCEPT ![ep] = sender[ep]]
            /\ sender' = [sender EXCEPT ![ep] = NONE]
       ELSE UNCHANGED <<sender, serving>>

(* A server replies when it serves somebody.                               *)
Reply ==
  \E ep \in EpIds, len \in Lengths, ok \in BOOLEAN :
    /\ Owns(ep) => serving[ep] # NONE
    /\ SYS_ipc_reply(ep, len, ok)
    /\ serving' = IF ReplyAdmitted(ep, len, ok)
                  THEN [serving EXCEPT ![ep] = NONE] ELSE serving
    /\ UNCHANGED sender

Others ==
  /\ \/ \E elrOk \in BOOLEAN :
          SYS_yield(elrOk) \/ SYS_exit(elrOk) \/ SYS_supervise_wait(elrOk)
     \/ SYS_time_ticks
     \/ \E s \in Slots : SYS_task_restart(s)
     \/ SYS_unknown
     \/ \E elrOk \in BOOLEAN : thread_user_fault(elrOk)
     \/ Internal
  /\ UNCHANGED <<sender, serving>>

(* A server that dies forgets what it served.                              *)
Returns ==
  /\ TaskReturns
  /\ serving' = [ep \in Eps |-> IF Owns(ep) /\ reason[current] \in Deaths
                                THEN NONE ELSE serving[ep]]
  /\ sender' = [ep \in Eps |-> IF pending'[ep] = NONE
                               THEN NONE ELSE sender[ep]]

RvNext == Ask \/ Receive \/ Reply \/ Others \/ Returns

RvSpec == RvInit /\ [][RvNext]_rvVars

-----------------------------------------------------------------------------
(* A server that serves somebody replies to him: whoever called, died, was *)
(* aborted or restarted in between, the caller the reply would wake is the *)
(* one whose request was received last (ipc_syscall_reply looks only at    *)
(* blocked_caller_slot).                                                   *)
RepliesMatch ==
  \A ep \in Eps : serving[ep] # NONE => caller[ep] = serving[ep]

(* The request in the slot is the waiting caller's: none is left behind by *)
(* a death or a reply, to be served in another's place or to block the     *)
(* endpoint (ipc_handle_task_death, ipc_syscall_recv).                     *)
RequestHasCaller ==
  \A ep \in Eps : pending[ep] # NONE => caller[ep] = sender[ep]

(* A caller waits for something: his request is queued, or is being served *)
(* by an owner that is alive or about to be cleaned up after.              *)
CallerIsServed ==
  \A ep \in Eps :
    caller[ep] # NONE => pending[ep] # NONE \/ serving[ep] = caller[ep]
=============================================================================
