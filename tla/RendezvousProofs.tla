-------------------------- MODULE RendezvousProofs --------------------------
(***************************************************************************)
(* Proofs that the kernel matches replies to requests for servers that     *)
(* keep the protocol, on top of the kernel's invariant.                    *)
(***************************************************************************)
EXTENDS Rendezvous, KernelProofs

(* An endpoint is free, its caller's request is queued, or its owner       *)
(* serves its caller and does not wait for another request.                *)
EndpointInv(ep) ==
  /\ serving[ep] # NONE =>
       caller[ep] = serving[ep] /\ receiver[ep] = NONE
  /\ pending[ep] # NONE =>
       caller[ep] = sender[ep] /\ caller[ep] # NONE /\ serving[ep] = NONE
  /\ caller[ep] # NONE => pending[ep] # NONE \/ serving[ep] = caller[ep]

(* The inductive invariant, next to the kernel's.                          *)
RvInv ==
  /\ sender \in [Eps -> UserSlots \cup {NONE}]
  /\ serving \in [Eps -> UserSlots \cup {NONE}]
  /\ \A ep \in Eps : EndpointInv(ep)

(* Nothing the invariant speaks of changes.                                *)
Still == UNCHANGED <<caller, receiver, pending, sender, serving>>

LEMMA StillStep == ASSUME RvInv, Still PROVE RvInv'
BY DEF RvInv, EndpointInv, Still

(* A request is admitted on a free endpoint: it is queued, or handed to    *)
(* the waiting owner, who thereby serves its sender.                       *)
LEMMA RvRequest ==
  ASSUME KernelInv, RvInv,
         NEW e, NEW len \in Lengths, NEW cap, NEW ovr, NEW ok, NEW elrOk,
         CallAdmitted(e, len, ok), Request(e, len, cap, ovr, elrOk),
         sender' = [ep \in Eps |-> IF Calls(ep) /\ receiver[ep] = NONE
                                   THEN current ELSE sender[ep]],
         serving' = [ep \in Eps |-> IF Calls(ep) /\ receiver[ep] # NONE
                                    THEN current ELSE serving[ep]]
  PROVE  RvInv'
<1>1. /\ e \in Eps /\ caller[e] = NONE /\ pending[e] = NONE
      /\ IpcTypeOK
  BY DEF CallAdmitted, KernelInv, TypeOK
<1>2. current \in UserSlots /\ current # NONE
  BY WaitersAtEL0, NoneIsNoTask DEF Request, thread_user_trap_redirect
<1>3. /\ caller' = [caller EXCEPT ![e] = current]
      /\ receiver[e] # NONE => /\ receiver' = [receiver EXCEPT ![e] = NONE]
                               /\ pending' = pending
      /\ receiver[e] = NONE => /\ receiver' = receiver
                               /\ pending' = [pending EXCEPT ![e] = len]
  BY DEF Request
<1>4. serving[e] = NONE
  BY <1>1 DEF RvInv, EndpointInv
<1>5. Calls(e) /\ \A ep \in Eps : ep # e => ~Calls(ep)
  BY <1>1, <1>2, <1>3 DEF Calls, IpcTypeOK
<1>6. /\ sender' \in [Eps -> UserSlots \cup {NONE}]
      /\ serving' \in [Eps -> UserSlots \cup {NONE}]
  BY <1>2 DEF RvInv
<1>7. ASSUME NEW ep \in Eps PROVE EndpointInv(ep)'
  <2>1. CASE ep # e
    <3>1. /\ caller'[ep] = caller[ep] /\ receiver'[ep] = receiver[ep]
          /\ pending'[ep] = pending[ep] /\ sender'[ep] = sender[ep]
          /\ serving'[ep] = serving[ep]
      BY <1>1, <1>3, <1>5, <2>1 DEF IpcTypeOK
    <3> QED BY <3>1 DEF RvInv, EndpointInv
  <2>2. CASE ep = e /\ receiver[e] # NONE
    <3>1. /\ caller'[ep] = current /\ receiver'[ep] = NONE
          /\ pending'[ep] = NONE /\ serving'[ep] = current
      BY <1>1, <1>3, <1>5, <2>2 DEF IpcTypeOK
    <3> QED BY <3>1 DEF EndpointInv
  <2>3. CASE ep = e /\ receiver[e] = NONE
    <3>1. /\ caller'[ep] = current /\ pending'[ep] = len
          /\ sender'[ep] = current /\ serving'[ep] = NONE
      BY <1>1, <1>3, <1>4, <1>5, <2>3 DEF IpcTypeOK
    <3>2. len # NONE
      BY IpcAssumption DEF NONE
    <3> QED BY <1>2, <3>1, <3>2 DEF EndpointInv
  <2> QED BY <2>1, <2>2, <2>3
<1> QED BY <1>6, <1>7 DEF RvInv

(* A call that is not admitted changes nothing.                            *)
LEMMA RvRefused ==
  ASSUME KernelInv, RvInv, UNCHANGED ipcVars,
         sender' = [ep \in Eps |-> IF Calls(ep) /\ receiver[ep] = NONE
                                   THEN current ELSE sender[ep]],
         serving' = [ep \in Eps |-> IF Calls(ep) /\ receiver[ep] # NONE
                                    THEN current ELSE serving[ep]]
  PROVE  RvInv'
<1>1. \A ep \in Eps : ~Calls(ep)
  BY DEF Calls, ipcVars
<1>2. sender' = sender /\ serving' = serving
  BY <1>1 DEF RvInv
<1> QED BY <1>2, StillStep DEF Still, ipcVars

LEMMA RvAsk == ASSUME KernelInv, RvInv, Ask PROVE RvInv'
<1> USE DEF Ask
<1>1. CASE \E len \in Lengths, ok, elrOk \in BOOLEAN : SYS_write(len, ok, elrOk)
  <2>1. PICK len \in Lengths, ok \in BOOLEAN, elrOk \in BOOLEAN :
          SYS_write(len, ok, elrOk)
    BY <1>1
  <2>2. CASE RoutesWrite /\ ok /\ CallAdmitted(EP_UART, len, ok)
    <3>1. Request(EP_UART, len, 0, len, elrOk)
      BY <2>1, <2>2 DEF SYS_write, ipc_route_uart_write
    <3> QED BY <2>2, <3>1, RvRequest
  <2>3. CASE ~(RoutesWrite /\ ok /\ CallAdmitted(EP_UART, len, ok))
    <3>1. UNCHANGED ipcVars
      BY <2>1, <2>3 DEF SYS_write, ipc_route_uart_write, Answer, Return
    <3> QED BY <3>1, RvRefused
  <2> QED BY <2>2, <2>3
<1>2. CASE \E ep \in EpIds, len, cap \in Lengths, ok, elrOk \in BOOLEAN :
             ~Owns(ep) /\ SYS_ipc_call(ep, len, cap, ok, elrOk)
  <2>1. PICK ep \in EpIds, len \in Lengths, cap \in Lengths,
             ok \in BOOLEAN, elrOk \in BOOLEAN :
          SYS_ipc_call(ep, len, cap, ok, elrOk)
    BY <1>2
  <2>2. CASE CallAdmitted(ep, len, ok)
    <3>1. Request(ep, len, cap, 0, elrOk)
      BY <2>1, <2>2 DEF SYS_ipc_call, ipc_syscall_call
    <3> QED BY <2>2, <3>1, RvRequest
  <2>3. CASE ~CallAdmitted(ep, len, ok)
    <3>1. UNCHANGED ipcVars
      BY <2>1, <2>3 DEF SYS_ipc_call, ipc_syscall_call, Answer
    <3> QED BY <3>1, RvRefused
  <2> QED BY <2>2, <2>3
<1> QED BY <1>1, <1>2

(* A receive that finds a request begins to serve its sender; one that     *)
(* waits is the owner's, who serves nobody.                                *)
LEMMA RvReceive == ASSUME KernelInv, RvInv, Receive PROVE RvInv'
<1>1. PICK e \in EpIds, cap \in Lengths, ok \in BOOLEAN, elrOk \in BOOLEAN :
        /\ Owns(e) => serving[e] = NONE
        /\ SYS_ipc_recv(e, cap, ok, elrOk)
        /\ IF Serves(e, ok) /\ pending[e] # NONE
           THEN /\ serving' = [serving EXCEPT ![e] = sender[e]]
                /\ sender' = [sender EXCEPT ![e] = NONE]
           ELSE UNCHANGED <<sender, serving>>
  BY DEF Receive
<1>2. IpcTypeOK
  BY DEF KernelInv, TypeOK
<1>3. CASE Serves(e, ok) /\ pending[e] # NONE
  <2>1. /\ e \in Eps /\ pending' = [pending EXCEPT ![e] = NONE]
        /\ UNCHANGED <<caller, receiver>>
        /\ serving' = [serving EXCEPT ![e] = sender[e]]
        /\ sender' = [sender EXCEPT ![e] = NONE]
    BY <1>1, <1>3 DEF SYS_ipc_recv, ipc_syscall_recv, Serves
  <2>2. caller[e] = sender[e] /\ caller[e] # NONE
    BY <1>3, <2>1 DEF RvInv, EndpointInv
  <2>3. receiver[e] = NONE
    <3>1. At("el0") /\ owner_slot(e) = current
      BY <1>1, <1>3 DEF SYS_ipc_recv, ipc_syscall_recv, SyscallReturn, Serves
    <3>2. receiver[e] # current
      BY <2>1, <3>1, WaitersAtEL0 DEF Queued
    <3> QED BY <2>1, <3>1, <3>2 DEF KernelInv, WaitersAreOwners
  <2>4. ASSUME NEW ep \in Eps PROVE EndpointInv(ep)'
    <3>1. CASE ep = e
      BY <1>2, <2>1, <2>2, <2>3, <3>1 DEF EndpointInv, RvInv, IpcTypeOK
    <3>2. CASE ep # e
      BY <1>2, <2>1, <3>2 DEF EndpointInv, RvInv, IpcTypeOK
    <3> QED BY <3>1, <3>2
  <2> QED BY <2>1, <2>4 DEF RvInv
<1>4. CASE RecvBlocks(e, ok)
  <2>1. /\ e \in Eps /\ Owns(e) /\ receiver' = [receiver EXCEPT ![e] = current]
        /\ UNCHANGED <<caller, pending, sender, serving>>
    BY <1>1, <1>4 DEF SYS_ipc_recv, ipc_syscall_recv, RecvBlocks, Serves, Owns
  <2>2. ASSUME NEW ep \in Eps PROVE EndpointInv(ep)'
    <3>1. CASE ep = e
      BY <1>1, <2>1, <3>1 DEF EndpointInv, RvInv
    <3>2. CASE ep # e
      BY <1>2, <2>1, <3>2 DEF EndpointInv, RvInv, IpcTypeOK
    <3> QED BY <3>1, <3>2
  <2> QED BY <2>1, <2>2 DEF RvInv
<1>5. CASE ~(Serves(e, ok) /\ pending[e] # NONE) /\ ~RecvBlocks(e, ok)
  <2>1. Still
    BY <1>1, <1>5 DEF SYS_ipc_recv, ipc_syscall_recv, Answer, ipcVars, Still
  <2> QED BY <2>1, StillStep
<1> QED BY <1>3, <1>4, <1>5

(* A server's reply wakes whom it serves; the request is no longer in the  *)
(* slot, so the endpoint is free.                                          *)
LEMMA RvReply == ASSUME KernelInv, RvInv, Reply PROVE RvInv'
<1>1. PICK e \in EpIds, len \in Lengths, ok \in BOOLEAN :
        /\ Owns(e) => serving[e] # NONE
        /\ SYS_ipc_reply(e, len, ok)
        /\ serving' = IF ReplyAdmitted(e, len, ok)
                      THEN [serving EXCEPT ![e] = NONE] ELSE serving
        /\ UNCHANGED sender
  BY DEF Reply
<1>2. IpcTypeOK
  BY DEF KernelInv, TypeOK
<1>3. CASE ReplyAdmitted(e, len, ok)
  <2>1. /\ e \in Eps /\ Owns(e)
        /\ caller' = [caller EXCEPT ![e] = NONE]
        /\ serving' = [serving EXCEPT ![e] = NONE]
        /\ UNCHANGED <<receiver, pending, sender>>
    BY <1>1, <1>3
       DEF SYS_ipc_reply, ipc_syscall_reply, ReplyAdmitted, Serves, Owns
  <2>2. pending[e] = NONE
    BY <1>1, <2>1 DEF RvInv, EndpointInv
  <2>3. ASSUME NEW ep \in Eps PROVE EndpointInv(ep)'
    <3>1. CASE ep = e
      BY <1>2, <2>1, <2>2, <3>1 DEF EndpointInv, RvInv, IpcTypeOK
    <3>2. CASE ep # e
      BY <1>2, <2>1, <3>2 DEF EndpointInv, RvInv, IpcTypeOK
    <3> QED BY <3>1, <3>2
  <2> QED BY <2>1, <2>3 DEF RvInv
<1>4. CASE ~ReplyAdmitted(e, len, ok)
  <2>1. Still
    BY <1>1, <1>4 DEF SYS_ipc_reply, ipc_syscall_reply, Answer, ipcVars, Still
  <2> QED BY <2>1, StillStep
<1> QED BY <1>3, <1>4

(* The death of an owner frees its endpoints; the death of another changes *)
(* none, since it waits nowhere.                                           *)
LEMMA RvReturns == ASSUME KernelInv, RvInv, Returns PROVE RvInv'
<1>1. /\ TaskReturns
      /\ serving' = [ep \in Eps |-> IF Owns(ep) /\ reason[current] \in Deaths
                                    THEN NONE ELSE serving[ep]]
      /\ sender' = [ep \in Eps |-> IF pending'[ep] = NONE
                                   THEN NONE ELSE sender[ep]]
  BY DEF Returns
<1>2. IpcTypeOK
  BY DEF KernelInv, TypeOK
<1>3. /\ sender' \in [Eps -> UserSlots \cup {NONE}]
      /\ serving' \in [Eps -> UserSlots \cup {NONE}]
  BY <1>1 DEF RvInv
<1>4. CASE reason[current] \notin Deaths
  <2>1. UNCHANGED <<caller, receiver, pending>> /\ serving' = serving
    BY <1>1, <1>4 DEF TaskReturns, ipcVars, RvInv
  <2>2. ASSUME NEW ep \in Eps PROVE EndpointInv(ep)'
    BY <1>1, <2>1 DEF RvInv, EndpointInv
  <2> QED BY <1>3, <2>2 DEF RvInv
<1>5. CASE reason[current] \in Deaths
  <2>1. ipc_handle_task_death(current) /\ At("trapped")
    BY <1>1, <1>5 DEF TaskReturns, user_task_return_step
  <2>2. reason[current] \notin Blocks
    BY <1>5 DEF Deaths, Blocks
  <2>3. current \in UserSlots /\ ~Queued(current)
    BY <2>1, <2>2, WaitersAtDeath
  <2>4. Forgotten(current) = {}
    BY <2>3 DEF Forgotten, Queued
  <2>5. \A ep \in Eps : receiver[ep] # current
    BY <2>3 DEF Queued
  <2>6. \A ep \in Eps :
          /\ caller'[ep] = IF ep \in Aborted(current) THEN NONE ELSE caller[ep]
          /\ pending'[ep] = IF ep \in Aborted(current) THEN NONE ELSE pending[ep]
          /\ receiver'[ep] = receiver[ep]
    BY <1>2, <2>1, <2>4, <2>5 DEF ipc_handle_task_death, IpcTypeOK
  <2>7. ASSUME NEW ep \in Eps PROVE EndpointInv(ep)'
    <3>1. CASE Owns(ep)
      <4>1. caller[ep] # NONE => ep \in Aborted(current)
        BY <3>1 DEF Owns, Aborted
      <4>2. caller'[ep] = NONE /\ pending'[ep] = NONE
        BY <2>6, <4>1 DEF RvInv, EndpointInv
      <4>3. serving'[ep] = NONE
        BY <1>1, <1>5, <3>1
      <4> QED BY <4>2, <4>3 DEF EndpointInv
    <3>2. CASE ~Owns(ep)
      <4>1. ep \notin Aborted(current)
        BY <3>2 DEF Owns, Aborted
      <4>2. /\ caller'[ep] = caller[ep] /\ pending'[ep] = pending[ep]
            /\ receiver'[ep] = receiver[ep] /\ serving'[ep] = serving[ep]
        BY <1>1, <2>6, <3>2, <4>1
      <4> QED BY <1>1, <4>2 DEF RvInv, EndpointInv
    <3> QED BY <3>1, <3>2
  <2> QED BY <1>3, <2>7 DEF RvInv
<1> QED BY <1>4, <1>5

(* All else leaves the endpoints alone.                                    *)
LEMMA RvOthers == ASSUME Others, RvInv PROVE RvInv'
<1>1. UNCHANGED ipcVars
  BY DEF Others, SYS_yield, SYS_exit, SYS_time_ticks, SYS_supervise_wait,
         SYS_task_restart, SYS_unknown, thread_user_fault, Internal, Redirect,
         Return, Answer
<1> QED BY <1>1, StillStep DEF Others, Still, ipcVars

-----------------------------------------------------------------------------
(* The protocol restricts the programs: its steps are the kernel's.        *)
LEMMA RvIsKernel == RvSpec => Spec
<1>1. RvInit => Init
  BY DEF RvInit
<1>2. RvNext => Next
  <2>1. Ask => Next
    BY DEF Ask, Next, Syscall
  <2>2. Receive => Next
    BY DEF Receive, Next, Syscall
  <2>3. Reply => Next
    BY DEF Reply, Next, Syscall
  <2>4. Others => Next
    BY DEF Others, Next, Syscall
  <2>5. Returns => Next
    BY DEF Returns, Next
  <2> QED BY <2>1, <2>2, <2>3, <2>4, <2>5 DEF RvNext
<1>3. [RvNext]_rvVars => [Next]_vars
  BY <1>2 DEF rvVars
<1> QED BY <1>1, <1>3, PTL DEF RvSpec, Spec

LEMMA RvInvInit == RvInit => RvInv
BY NoneIsNoTask DEF RvInit, Init, IpcInit, RvInv, EndpointInv

LEMMA RvInvStep == KernelInv /\ RvInv /\ [RvNext]_rvVars => RvInv'
<1>1. RvInv /\ UNCHANGED rvVars => RvInv'
  BY StillStep DEF rvVars, vars, ipcVars, Still
<1> QED BY <1>1, RvAsk, RvReceive, RvReply, RvOthers, RvReturns DEF RvNext

LEMMA RvInvariant == RvSpec => []RvInv
<1>1. RvSpec => []KernelInv
  BY RvIsKernel, KernelInvariant, PTL
<1> QED BY <1>1, RvInvInit, RvInvStep, PTL DEF RvSpec

(* Whatever clients, faults and restarts do, a server that replies once to *)
(* each request it receives replies to the task that sent it               *)
(* (ipc_syscall_reply).                                                    *)
THEOREM RepliesCorrect == RvSpec => []RepliesMatch
<1>1. RvInv => RepliesMatch
  BY DEF RvInv, EndpointInv, RepliesMatch
<1> QED BY <1>1, RvInvariant, PTL

(* No request is left behind without the caller that waits for its answer  *)
(* (ipc_handle_task_death, ipc_syscall_recv).                              *)
THEOREM RequestsCorrect == RvSpec => []RequestHasCaller
<1>1. RvInv => RequestHasCaller
  BY DEF RvInv, EndpointInv, RequestHasCaller
<1> QED BY <1>1, RvInvariant, PTL

(* No caller waits for a reply that nobody will give: its request is       *)
(* queued or being served (ipc_syscall_call, ipc_handle_task_death).       *)
THEOREM CallersCorrect == RvSpec => []CallerIsServed
<1>1. RvInv => CallerIsServed
  BY DEF RvInv, EndpointInv, CallerIsServed
<1> QED BY <1>1, RvInvariant, PTL
=============================================================================
