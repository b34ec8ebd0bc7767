-------------------------------- MODULE Ipc --------------------------------
(***************************************************************************)
(* Synchronous IPC (kernel/core/ipc.c): a static table of endpoints, each  *)
(* with an owner, one request slot, one blocked caller and one blocked     *)
(* receiver.  A call blocks its caller until the owner replies; a receive  *)
(* takes the queued request or blocks the owner until one comes.           *)
(*                                                                         *)
(* A message is abstracted to its length: the lengths and capacities of    *)
(* the calls decide what the two sides see returned.  The verdict of       *)
(* el0_buf_range_ok on a call's buffers is a Boolean input (bufOk), and so *)
(* is that of thread_user_trap_redirect on the ELR of the trap (elrOk).    *)
(***************************************************************************)
EXTENDS Thread

CONSTANTS
  BENCH_MODE,          (* "OFF", "LATENCY" or "RECOVERY"                   *)
  IPC_MSG_SIZE,        (* the longest message                              *)
  Lengths              (* the buffer lengths the tasks pass                *)

EP_NONE  == 0
EP_UART  == 1
EP_BENCH == 2
EP_COUNT == 3
EpIds    == EP_NONE .. EP_COUNT          (* what a task may pass           *)
Eps      == EpIds \ {EP_NONE, EP_COUNT}  (* endpoint_valid                 *)

Modes == {"OFF", "LATENCY", "RECOVERY"}

ASSUME IpcAssumption ==
  /\ BENCH_MODE \in Modes
  /\ IPC_MSG_SIZE \in Nat
  /\ Lengths \subseteq Nat
  /\ Lengths \subseteq RetVals

VARIABLES
  caller,    (* blocked_caller_slot                                        *)
  replyCap,  (* caller_reply_cap                                           *)
  override,  (* caller_result_override                                     *)
  receiver,  (* blocked_receiver_slot                                      *)
  recvCap,   (* receiver_buf_cap                                           *)
  pending    (* pending_len when has_pending, else NONE                    *)

ipcVars == <<caller, replyCap, override, receiver, recvCap, pending>>

(* The owners ipc_init sets up; they never change.                         *)
owner_slot(ep) ==
  IF ep = EP_UART THEN THREAD_SLOT_TASK_B
  ELSE IF ep = EP_BENCH /\ BENCH_MODE = "LATENCY" THEN THREAD_SLOT_TASK_C
  ELSE NONE

IpcInit ==
  /\ caller = [ep \in Eps |-> NONE]
  /\ replyCap = [ep \in Eps |-> 0]
  /\ override = [ep \in Eps |-> 0]
  /\ receiver = [ep \in Eps |-> NONE]
  /\ recvCap = [ep \in Eps |-> 0]
  /\ pending = [ep \in Eps |-> NONE]

min_u64(a, b) == IF a < b THEN a ELSE b

(* A call that returns r at once and leaves the endpoints alone.           *)
Answer(r) == SyscallReturn(r, NoWake) /\ UNCHANGED ipcVars

-----------------------------------------------------------------------------
(* Calling                                                                 *)

(* Mutant: a call whose request was taken no longer holds the endpoint.    *)
admitted_if_slot_free(ep, len, bufOk) ==
  /\ ep \in Eps
  /\ len <= IPC_MSG_SIZE
  /\ owner_slot(ep) # NONE
  /\ bufOk
  /\ pending[ep] = NONE

(* The checks on a request before it is admitted: the endpoint exists and  *)
(* has an owner, the buffers are sound, the message fits, and no other     *)
(* call is in flight on the endpoint.                                      *)
CallAdmitted(ep, len, bufOk) ==
  /\ ep \in Eps
  /\ len <= IPC_MSG_SIZE
  /\ owner_slot(ep) # NONE
  /\ bufOk
  /\ pending[ep] = NONE
  /\ caller[ep] = NONE

(* Mutant: the receiver that is handed the message stays registered.       *)
request_keeps_receiver(ep, len, cap, ovr, elrOk) ==
  LET waiting == {s \in UserSlots : s = receiver[ep]}
      wake == [s \in waiting |-> min_u64(len, recvCap[ep])]
  IN /\ caller' = [caller EXCEPT ![ep] = current]
     /\ replyCap' = [replyCap EXCEPT ![ep] = cap]
     /\ override' = [override EXCEPT ![ep] = ovr]
     /\ IF receiver[ep] # NONE THEN UNCHANGED pending
        ELSE pending' = [pending EXCEPT ![ep] = len]
     /\ UNCHANGED <<receiver, recvCap>>
     /\ thread_user_trap_redirect("IPC_BLOCK", elrOk, wake)

(* The current task becomes the endpoint's blocked caller; its message     *)
(* goes to a waiting receiver, or else to the request slot.                *)
Request(ep, len, cap, ovr, elrOk) ==
  LET waiting == {s \in UserSlots : s = receiver[ep]}
      wake == [s \in waiting |-> min_u64(len, recvCap[ep])]
  IN /\ caller' = [caller EXCEPT ![ep] = current]
     /\ replyCap' = [replyCap EXCEPT ![ep] = cap]
     /\ override' = [override EXCEPT ![ep] = ovr]
     /\ IF receiver[ep] # NONE
        THEN /\ receiver' = [receiver EXCEPT ![ep] = NONE]
             /\ recvCap' = [recvCap EXCEPT ![ep] = 0]
             /\ UNCHANGED pending
        ELSE /\ pending' = [pending EXCEPT ![ep] = len]
             /\ UNCHANGED <<receiver, recvCap>>
     /\ thread_user_trap_redirect("IPC_BLOCK", elrOk, wake)

ipc_syscall_call(ep, len, cap, bufOk, elrOk) ==
  IF CallAdmitted(ep, len, bufOk)
  THEN Request(ep, len, cap, 0, elrOk)
  ELSE Answer(FAIL)

(* Mutant: the caller gets the length of the empty reply.                  *)
route_without_override(len, bufOk, elrOk) ==
  IF CallAdmitted(EP_UART, len, bufOk)
  THEN Request(EP_UART, len, 0, 0, elrOk)
  ELSE Answer(FAIL)

(* A SYS_write routed to the UART server: no reply buffer, and the whole   *)
(* length as the result whatever the reply.                                *)
ipc_route_uart_write(len, bufOk, elrOk) ==
  IF CallAdmitted(EP_UART, len, bufOk)
  THEN Request(EP_UART, len, 0, len, elrOk)
  ELSE Answer(FAIL)

-----------------------------------------------------------------------------
(* Receiving and replying                                                  *)

Serves(ep, bufOk) == ep \in Eps /\ bufOk /\ owner_slot(ep) = current

RecvBlocks(ep, bufOk) ==
  Serves(ep, bufOk) /\ pending[ep] = NONE /\ receiver[ep] = NONE

(* Mutant: the queue is looked at only when a receiver is registered.      *)
recv_blocks_first(ep, cap, bufOk, elrOk) ==
  IF Serves(ep, bufOk) /\ receiver[ep] = NONE
  THEN /\ receiver' = [receiver EXCEPT ![ep] = current]
       /\ recvCap' = [recvCap EXCEPT ![ep] = cap]
       /\ UNCHANGED <<caller, replyCap, override, pending>>
       /\ thread_user_trap_redirect("IPC_BLOCK", elrOk, NoWake)
  ELSE Answer(FAIL)

ipc_syscall_recv(ep, cap, bufOk, elrOk) ==
  IF Serves(ep, bufOk) /\ pending[ep] # NONE
  THEN /\ pending' = [pending EXCEPT ![ep] = NONE]
       /\ UNCHANGED <<caller, replyCap, override, receiver, recvCap>>
       /\ SyscallReturn(min_u64(pending[ep], cap), NoWake)
  ELSE IF RecvBlocks(ep, bufOk)
  THEN /\ receiver' = [receiver EXCEPT ![ep] = current]
       /\ recvCap' = [recvCap EXCEPT ![ep] = cap]
       /\ UNCHANGED <<caller, replyCap, override, pending>>
       /\ thread_user_trap_redirect("IPC_BLOCK", elrOk, NoWake)
  ELSE Answer(FAIL)

ReplyAdmitted(ep, len, bufOk) ==
  /\ len <= IPC_MSG_SIZE
  /\ Serves(ep, bufOk)
  /\ caller[ep] # NONE

(* Mutant: an override of 0 counts too.                                    *)
result_is_override(ep, len) == override[ep]

(* What the caller gets back: the bytes copied, or the override.           *)
ReplyResult(ep, len) ==
  IF override[ep] # 0 THEN override[ep] ELSE min_u64(len, replyCap[ep])

(* Mutant: the caller that is woken stays registered.                      *)
reply_keeps_caller(ep, len, bufOk) ==
  IF ReplyAdmitted(ep, len, bufOk)
  THEN LET wake == [s \in {caller[ep]} |-> ReplyResult(ep, len)] IN
       UNCHANGED ipcVars /\ SyscallReturn(0, wake)
  ELSE Answer(FAIL)

(* The bytes of the reply go to the blocked caller, which is woken.        *)
ipc_syscall_reply(ep, len, bufOk) ==
  IF ReplyAdmitted(ep, len, bufOk)
  THEN LET wake == [s \in {caller[ep]} |-> ReplyResult(ep, len)] IN
       /\ caller' = [caller EXCEPT ![ep] = NONE]
       /\ replyCap' = [replyCap EXCEPT ![ep] = 0]
       /\ override' = [override EXCEPT ![ep] = 0]
       /\ UNCHANGED <<receiver, recvCap, pending>>
       /\ SyscallReturn(0, wake)
  ELSE Answer(FAIL)

-----------------------------------------------------------------------------
(* The clean-up after the death of task t: t no longer waits to receive,   *)
(* calls on its endpoints are aborted, and its own calls are forgotten.    *)

(* Mutant: a call is aborted only while its request is queued.             *)
aborted_if_queued(t) ==
  {ep \in Eps : owner_slot(ep) = t /\ caller[ep] # NONE /\ pending[ep] # NONE}

Aborted(t) == {ep \in Eps : owner_slot(ep) = t /\ caller[ep] # NONE}
Forgotten(t) == {ep \in Eps : caller[ep] = t}

(* Mutant: the request of an aborted call stays in the slot.               *)
death_keeps_request(t) ==
  LET cleared == Aborted(t) \cup Forgotten(t)
      deaf == {ep \in Eps : receiver[ep] = t}
      Clear(f, S, v) == [ep \in Eps |-> IF ep \in S THEN v ELSE f[ep]]
  IN /\ caller' = Clear(caller, cleared, NONE)
     /\ replyCap' = Clear(replyCap, cleared, 0)
     /\ override' = Clear(override, cleared, 0)
     /\ receiver' = Clear(receiver, deaf, NONE)
     /\ recvCap' = Clear(recvCap, deaf, 0)
     /\ UNCHANGED pending

ipc_handle_task_death(t) ==
  LET cleared == Aborted(t) \cup Forgotten(t)
      deaf == {ep \in Eps : receiver[ep] = t}
      Clear(f, S, v) == [ep \in Eps |-> IF ep \in S THEN v ELSE f[ep]]
  IN /\ caller' = Clear(caller, cleared, NONE)
     /\ replyCap' = Clear(replyCap, cleared, 0)
     /\ override' = Clear(override, cleared, 0)
     /\ pending' = Clear(pending, cleared, NONE)
     /\ receiver' = Clear(receiver, deaf, NONE)
     /\ recvCap' = Clear(recvCap, deaf, 0)

(* The callers that clean-up wakes with an error.                          *)
AbortedCallers(t) == {caller[ep] : ep \in Aborted(t)}
=============================================================================
