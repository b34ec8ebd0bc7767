---------------------------- MODULE KernelProofs ----------------------------
(***************************************************************************)
(* Proofs about the kernel under arbitrary EL0 programs.  The system calls *)
(* keep to what the thread layer allows, so Spec implements ThreadSpec and *)
(* inherits what ThreadProofs shows of it.  The argument rests on the link *)
(* between the wait places of ipc.c and supervisor.c and the task states   *)
(* of thread.c, which is proved here as the inductive invariant KernelInv. *)
(***************************************************************************)
EXTENDS Kernel, ThreadProofs

(* What the system calls rely on and keep.                                 *)
KernelInv ==
  /\ TypeOK
  /\ SchedulerInv
  /\ NoInternalPanic
  /\ BlockedIffQueued
  /\ OneWaitPlace
  /\ WaitersAreOwners

(* No wait place changes (all of ipc.c's and supervisor.c's variables are  *)
(* left alone).                                                            *)
QueuesSame == UNCHANGED <<ipcVars, supervisorVars>>

-----------------------------------------------------------------------------
(* Facts about a single state                                              *)

(* An endpoint is owned by a user task or by nobody (ipc_init).            *)
LEMMA OwnerType == \A ep : owner_slot(ep) \in UserSlots \cup {NONE}
BY ThreadAssumption DEF owner_slot

(* A length that is handed over is a result a task may see (min_u64).      *)
LEMMA MinType ==
  ASSUME NEW a \in Lengths \cup {0}, NEW b \in Lengths \cup {0}
  PROVE  min_u64(a, b) \in RetVals /\ min_u64(a, b) \in Lengths \cup {0}
BY IpcAssumption, ThreadAssumption DEF min_u64

(* A null slot is no task's slot.                                          *)
LEMMA NoneIsNoTask == NONE \notin UserSlots
BY ThreadAssumption DEF NONE, UserSlots, Slots

(* While the current task runs at EL0 no wait place names it, and whom     *)
(* they name is blocked.                                                   *)
LEMMA WaitersAtEL0 ==
  ASSUME KernelInv, At("el0")
  PROVE  /\ current \in UserSlots /\ ustate[current] = "RUNNING"
         /\ ~Queued(current)
         /\ \A s \in UserSlots : Queued(s) <=> ustate[s] = "BLOCKED"
<1>1. current \in UserSlots /\ ustate[current] = "RUNNING"
  BY DEF KernelInv, SchedulerInv, InTask, At, OnUserTask
<1>2. \A s \in UserSlots : ~Blocking(s)
  BY DEF At, Blocking
<1>3. \A s \in UserSlots : Queued(s) <=> ustate[s] = "BLOCKED"
  BY <1>2 DEF KernelInv, BlockedIffQueued, At
<1> QED BY <1>1, <1>3

(* The same while a task is on its way out after a trap that blocks it     *)
(* nowhere.                                                                *)
LEMMA WaitersAtDeath ==
  ASSUME KernelInv, At("trapped"), reason[current] \notin Blocks
  PROVE  /\ current \in UserSlots /\ ustate[current] = "RUNNING"
         /\ ~Queued(current)
         /\ \A s \in UserSlots : Queued(s) <=> ustate[s] = "BLOCKED"
<1>1. current \in UserSlots /\ ustate[current] = "RUNNING"
  BY DEF KernelInv, SchedulerInv, InTask, At, OnUserTask
<1>2. \A s \in UserSlots : ~Blocking(s)
  BY DEF Blocking
<1>3. \A s \in UserSlots : Queued(s) <=> ustate[s] = "BLOCKED"
  BY <1>2 DEF KernelInv, BlockedIffQueued, At
<1> QED BY <1>1, <1>3

-----------------------------------------------------------------------------
(* How the steps of the thread layer carry BlockedIffQueued                *)

(* A call that returns takes from the wait places exactly whom it wakes.   *)
LEMMA ReturnKeepsQueued ==
  ASSUME KernelInv, NEW ret \in RetVals, NEW wake \in Wakes,
         SyscallReturn(ret, wake),
         \A s \in UserSlots : Queued(s)' <=> Queued(s) /\ s \notin DOMAIN wake
  PROVE  BlockedIffQueued'
<1>1. /\ At("el0") /\ phase' = "el0"
      /\ ustate' = [s \in Slots |->
                      IF s \in DOMAIN wake THEN "RUNNABLE" ELSE ustate[s]]
  BY DEF SyscallReturn, thread_user_wake_with_x0, At
<1>2. \A s \in UserSlots : Queued(s) <=> ustate[s] = "BLOCKED"
  BY <1>1, WaitersAtEL0
<1>3. \A s \in UserSlots : ~Blocking(s)'
  BY <1>1 DEF Blocking
<1> QED BY <1>1, <1>2, <1>3 DEF BlockedIffQueued, UserSlots

(* A call that blocks adds the current task to the wait places and takes   *)
(* whom it wakes; any other trap leaves them alone.                        *)
LEMMA RedirectKeepsQueued ==
  ASSUME KernelInv, NEW r, NEW ok, NEW wake \in Wakes,
         thread_user_trap_redirect(r, ok, wake),
         \A s \in UserSlots :
           Queued(s)' <=> \/ s = current /\ r \in Blocks
                          \/ Queued(s) /\ s \notin DOMAIN wake
  PROVE  BlockedIffQueued'
<1>1. /\ At("el0") /\ phase' = "trapped" /\ current' = current
      /\ reason' = [reason EXCEPT ![current] = r]
      /\ ustate' = [s \in Slots |->
                      IF s \in DOMAIN wake THEN "RUNNABLE" ELSE ustate[s]]
  BY DEF thread_user_trap_redirect, thread_user_wake_with_x0, At
<1>2. /\ current \in UserSlots /\ ustate[current] = "RUNNING"
      /\ \A s \in UserSlots : Queued(s) <=> ustate[s] = "BLOCKED"
  BY <1>1, WaitersAtEL0
<1>3. reason'[current] = r
  BY <1>1, <1>2 DEF KernelInv, TypeOK, ThreadTypeOK, UserSlots
<1>4. \A s \in UserSlots : Blocking(s)' <=> s = current /\ r \in Blocks
  BY <1>1, <1>3 DEF Blocking
<1>5. \A s \in UserSlots : ustate'[s] = "BLOCKED" <=>
                             ustate[s] = "BLOCKED" /\ s \notin DOMAIN wake
  BY <1>1 DEF UserSlots
<1> QED BY <1>2, <1>4, <1>5 DEF BlockedIffQueued

-----------------------------------------------------------------------------
(* The system calls, one lemma for each way to leave one                   *)

(* What is shown of every step of the kernel.                              *)
StepKept ==
  /\ ThreadNext
  /\ IpcTypeOK' /\ SupervisorTypeOK'
  /\ BlockedIffQueued' /\ OneWaitPlace' /\ WaitersAreOwners'

(* Waking nobody is always allowed.                                        *)
LEMMA NoWakeAllowed == NoWake \in Wakes /\ DOMAIN NoWake = {}
<1>1. NoWake \in [{} -> RetVals] /\ DOMAIN NoWake = {}
  BY DEF NoWake
<1>2. {} \in SUBSET {s \in UserSlots : ustate[s] = "BLOCKED"}
  OBVIOUS
<1> QED BY <1>1, <1>2 DEF Wakes

(* Waking one blocked task with a result is allowed.                       *)
LEMMA OneWakeAllowed ==
  ASSUME NEW W \in SUBSET {s \in UserSlots : ustate[s] = "BLOCKED"},
         NEW v, W # {} => v \in RetVals
  PROVE  [s \in W |-> v] \in Wakes
<1>1. [s \in W |-> v] \in [W -> RetVals]
  OBVIOUS
<1> QED BY <1>1 DEF Wakes

(* Steps that leave the wait places alone keep what is said of them.       *)
LEMMA QueuesSameLemma ==
  ASSUME KernelInv, QueuesSame
  PROVE  /\ IpcTypeOK' /\ SupervisorTypeOK' /\ OneWaitPlace' /\ WaitersAreOwners'
         /\ \A s \in UserSlots : Queued(s)' <=> Queued(s)
BY DEF KernelInv, QueuesSame, ipcVars, supervisorVars, TypeOK, IpcTypeOK,
       SupervisorTypeOK, OneWaitPlace, WaitersAreOwners, Queued, owner_slot

(* A call that is answered at once.                                        *)
LEMMA ReturnStep ==
  ASSUME KernelInv, NEW r \in RetVals, SyscallReturn(r, NoWake), QueuesSame
  PROVE  StepKept
<1>1. BlockedIffQueued'
  BY QueuesSameLemma, NoWakeAllowed, ReturnKeepsQueued
<1> QED BY <1>1, QueuesSameLemma, NoWakeAllowed DEF StepKept, ThreadNext

(* A trap that puts the task into no wait place: yield, exit, fault.       *)
LEMMA RedirectStep ==
  ASSUME KernelInv, NEW r \in {"YIELD", "EXIT", "FAULT"}, NEW ok \in BOOLEAN,
         Redirect(r, ok)
  PROVE  StepKept
<1>1. r \notin Blocks /\ r \in Reasons \ {"NONE"}
  BY DEF Blocks, Reasons
<1>2. thread_user_trap_redirect(r, ok, NoWake) /\ QueuesSame
  BY DEF Redirect, QueuesSame
<1>3. BlockedIffQueued'
  BY <1>1, <1>2, QueuesSameLemma, NoWakeAllowed, RedirectKeepsQueued
<1> QED BY <1>1, <1>2, <1>3, QueuesSameLemma, NoWakeAllowed
        DEF StepKept, ThreadNext

(* A request that is admitted: the caller enters the endpoint's caller     *)
(* place, a waiting receiver leaves its place and wakes                    *)
(* (ipc_syscall_call, ipc_route_uart_write).                               *)
LEMMA RequestStep ==
  ASSUME KernelInv,
         NEW ep, NEW len \in Lengths, NEW cap \in Lengths \cup {0},
         NEW ovr \in Lengths \cup {0}, NEW ok, NEW elrOk \in BOOLEAN,
         CallAdmitted(ep, len, ok), Request(ep, len, cap, ovr, elrOk),
         UNCHANGED supervisorVars
  PROVE  StepKept
<1> DEFINE W == {s \in UserSlots : s = receiver[ep]}
           v == min_u64(len, recvCap[ep])
           wake == [s \in W |-> v]
<1>1. /\ ep \in Eps /\ caller[ep] = NONE
      /\ IpcTypeOK /\ SupervisorTypeOK /\ OneWaitPlace /\ WaitersAreOwners
  BY DEF CallAdmitted, KernelInv, TypeOK
<1>2. At("el0") /\ thread_user_trap_redirect("IPC_BLOCK", elrOk, wake)
  BY DEF Request, thread_user_trap_redirect
<1>3. /\ current \in UserSlots /\ ~Queued(current)
      /\ \A s \in UserSlots : Queued(s) <=> ustate[s] = "BLOCKED"
  BY <1>2, WaitersAtEL0
<1>4. wake \in Wakes /\ DOMAIN wake = W
  <2>1. v \in RetVals
    BY <1>1, MinType DEF IpcTypeOK
  <2>2. W \in SUBSET {s \in UserSlots : ustate[s] = "BLOCKED"}
    BY <1>1, <1>3 DEF Queued
  <2> QED BY <2>1, <2>2, OneWakeAllowed
<1>5. /\ caller' = [caller EXCEPT ![ep] = current]
      /\ receiver' = [receiver EXCEPT ![ep] = NONE]
      /\ blockedSupervisor' = blockedSupervisor
      /\ pendingDeath' = pendingDeath
  <2>1. receiver[ep] = NONE => receiver = [receiver EXCEPT ![ep] = NONE]
    BY <1>1 DEF IpcTypeOK
  <2> QED BY <2>1 DEF Request, supervisorVars
<1>6. IpcTypeOK' /\ SupervisorTypeOK'
  BY <1>1, <1>3, <1>5 DEF IpcTypeOK, SupervisorTypeOK, Request
<1>7. \A s \in UserSlots :
        Queued(s)' <=> s = current \/ (Queued(s) /\ s \notin W)
  <2>1. \A e \in Eps : /\ caller'[e] = IF e = ep THEN current ELSE caller[e]
                       /\ receiver'[e] = IF e = ep THEN NONE ELSE receiver[e]
    BY <1>1, <1>5 DEF IpcTypeOK
  <2>2. \A s \in UserSlots : s # NONE
    BY NoneIsNoTask
  <2> QED BY <1>1, <1>5, <2>1, <2>2 DEF Queued, OneWaitPlace
<1>8. BlockedIffQueued'
  <2>1. "IPC_BLOCK" \in Blocks
    BY DEF Blocks
  <2> HIDE DEF wake
  <2> QED BY <1>2, <1>4, <1>7, <2>1, RedirectKeepsQueued
<1>9. OneWaitPlace'
  <2>1. /\ \A e \in Eps : caller[e] # current /\ receiver[e] # current
        /\ blockedSupervisor # current
    BY <1>3 DEF Queued
  <2>2. current # NONE
    BY <1>3, NoneIsNoTask
  <2>3. \A e \in Eps : /\ caller'[e] = IF e = ep THEN current ELSE caller[e]
                       /\ receiver'[e] = IF e = ep THEN NONE ELSE receiver[e]
    BY <1>1, <1>5 DEF IpcTypeOK
  <2> QED BY <1>1, <1>5, <2>1, <2>2, <2>3 DEF OneWaitPlace
<1>10. WaitersAreOwners'
  BY <1>1, <1>5 DEF WaitersAreOwners, IpcTypeOK, owner_slot
<1>11. ThreadNext
  <2>1. "IPC_BLOCK" \in Reasons \ {"NONE"}
    BY DEF Reasons
  <2> HIDE DEF wake
  <2> QED BY <1>2, <1>4, <2>1 DEF ThreadNext
<1> QED BY <1>6, <1>8, <1>9, <1>10, <1>11 DEF StepKept

(* A call either makes a request or fails.                                 *)
LEMMA CallStep ==
  ASSUME KernelInv,
         NEW ep \in EpIds, NEW len \in Lengths, NEW cap \in Lengths,
         NEW ok \in BOOLEAN, NEW elrOk \in BOOLEAN,
         SYS_ipc_call(ep, len, cap, ok, elrOk)
  PROVE  StepKept
<1>1. CASE CallAdmitted(ep, len, ok)
  BY <1>1, RequestStep DEF SYS_ipc_call, ipc_syscall_call
<1>2. CASE ~CallAdmitted(ep, len, ok)
  BY <1>2, ReturnStep, ThreadAssumption
     DEF SYS_ipc_call, ipc_syscall_call, Answer, QueuesSame
<1> QED BY <1>1, <1>2

(* So does a write that is routed to the UART server; any other write      *)
(* returns at once.                                                        *)
LEMMA WriteStep ==
  ASSUME KernelInv, NEW len \in Lengths, NEW ok \in BOOLEAN,
         NEW elrOk \in BOOLEAN, SYS_write(len, ok, elrOk)
  PROVE  StepKept
<1>1. CASE RoutesWrite /\ ok /\ CallAdmitted(EP_UART, len, ok)
  BY <1>1, RequestStep DEF SYS_write, ipc_route_uart_write
<1>2. CASE RoutesWrite /\ ok /\ ~CallAdmitted(EP_UART, len, ok)
  BY <1>2, ReturnStep, ThreadAssumption
     DEF SYS_write, ipc_route_uart_write, Answer, QueuesSame
<1>3. CASE ~(RoutesWrite /\ ok)
  <2>1. (IF ok THEN len ELSE FAIL) \in RetVals
    BY IpcAssumption, ThreadAssumption
  <2> QED BY <1>3, <2>1, ReturnStep DEF SYS_write, Return, Answer, QueuesSame
<1> QED BY <1>1, <1>2, <1>3

(* A receive takes the queued request, registers the owner as receiver, or *)
(* fails.                                                                  *)
LEMMA RecvStep ==
  ASSUME KernelInv, NEW ep \in EpIds, NEW cap \in Lengths, NEW ok \in BOOLEAN,
         NEW elrOk \in BOOLEAN, SYS_ipc_recv(ep, cap, ok, elrOk)
  PROVE  StepKept
<1> USE DEF SYS_ipc_recv, ipc_syscall_recv
<1>0. IpcTypeOK /\ SupervisorTypeOK /\ OneWaitPlace /\ WaitersAreOwners
  BY DEF KernelInv, TypeOK
<1>1. CASE Serves(ep, ok) /\ pending[ep] # NONE
  <2>1. /\ ep \in Eps
        /\ pending' = [pending EXCEPT ![ep] = NONE]
        /\ UNCHANGED <<caller, replyCap, override, receiver, recvCap>>
        /\ UNCHANGED supervisorVars
        /\ SyscallReturn(min_u64(pending[ep], cap), NoWake)
    BY <1>1 DEF Serves
  <2>2. min_u64(pending[ep], cap) \in RetVals
    BY <1>0, <1>1, <2>1, MinType DEF IpcTypeOK
  <2>3. IpcTypeOK' /\ SupervisorTypeOK' /\ OneWaitPlace' /\ WaitersAreOwners'
    BY <1>0, <2>1 DEF IpcTypeOK, SupervisorTypeOK, OneWaitPlace,
                      WaitersAreOwners, owner_slot, supervisorVars
  <2>4. \A s \in UserSlots : Queued(s)' <=> Queued(s)
    BY <2>1 DEF Queued, supervisorVars
  <2>5. BlockedIffQueued'
    BY <2>1, <2>2, <2>4, NoWakeAllowed, ReturnKeepsQueued
  <2> QED BY <2>1, <2>2, <2>3, <2>5, NoWakeAllowed DEF StepKept, ThreadNext
<1>2. CASE RecvBlocks(ep, ok)
  <2>1. /\ ep \in Eps /\ owner_slot(ep) = current
        /\ pending[ep] = NONE /\ receiver[ep] = NONE
        /\ receiver' = [receiver EXCEPT ![ep] = current]
        /\ recvCap' = [recvCap EXCEPT ![ep] = cap]
        /\ UNCHANGED <<caller, replyCap, override, pending>>
        /\ UNCHANGED supervisorVars
        /\ thread_user_trap_redirect("IPC_BLOCK", elrOk, NoWake)
    BY <1>2 DEF RecvBlocks, Serves
  <2>2. /\ current \in UserSlots /\ ~Queued(current) /\ current # NONE
    BY <2>1, WaitersAtEL0, NoneIsNoTask DEF thread_user_trap_redirect
  <2>3. \A e \in Eps : receiver'[e] = IF e = ep THEN current ELSE receiver[e]
    BY <1>0, <2>1 DEF IpcTypeOK
  <2>4. IpcTypeOK' /\ SupervisorTypeOK'
    BY <1>0, <2>1, <2>2 DEF IpcTypeOK, SupervisorTypeOK, supervisorVars
  <2>5. OneWaitPlace'
    BY <1>0, <2>1, <2>2, <2>3 DEF OneWaitPlace, Queued, supervisorVars
  <2>6. WaitersAreOwners'
    BY <1>0, <2>1, <2>3 DEF WaitersAreOwners, owner_slot, supervisorVars
  <2>7. \A s \in UserSlots : Queued(s)' <=> s = current \/ Queued(s)
    BY <2>1, <2>3, NoneIsNoTask DEF Queued, supervisorVars
  <2>8. "IPC_BLOCK" \in Blocks /\ "IPC_BLOCK" \in Reasons \ {"NONE"}
    BY DEF Blocks, Reasons
  <2>9. BlockedIffQueued'
    BY <2>1, <2>7, <2>8, NoWakeAllowed, RedirectKeepsQueued
  <2> QED BY <2>1, <2>4, <2>5, <2>6, <2>8, <2>9, NoWakeAllowed
          DEF StepKept, ThreadNext
<1>3. CASE ~(Serves(ep, ok) /\ pending[ep] # NONE) /\ ~RecvBlocks(ep, ok)
  BY <1>3, ReturnStep, ThreadAssumption DEF Answer, QueuesSame
<1> QED BY <1>1, <1>2, <1>3

(* A reply takes the caller from its place and wakes it.                   *)
LEMMA ReplyStep ==
  ASSUME KernelInv, NEW ep \in EpIds, NEW len \in Lengths, NEW ok \in BOOLEAN,
         SYS_ipc_reply(ep, len, ok)
  PROVE  StepKept
<1> USE DEF SYS_ipc_reply, ipc_syscall_reply
<1>0. IpcTypeOK /\ SupervisorTypeOK /\ OneWaitPlace /\ WaitersAreOwners
  BY DEF KernelInv, TypeOK
<1>1. CASE ReplyAdmitted(ep, len, ok)
  <2> DEFINE v == ReplyResult(ep, len)
             wake == [s \in {caller[ep]} |-> v]
  <2>1. /\ ep \in Eps /\ caller[ep] # NONE
        /\ caller' = [caller EXCEPT ![ep] = NONE]
        /\ replyCap' = [replyCap EXCEPT ![ep] = 0]
        /\ override' = [override EXCEPT ![ep] = 0]
        /\ UNCHANGED <<receiver, recvCap, pending>>
        /\ UNCHANGED supervisorVars
        /\ SyscallReturn(0, wake)
    BY <1>1 DEF ReplyAdmitted, Serves
  <2>2. \A s \in UserSlots : Queued(s) <=> ustate[s] = "BLOCKED"
    BY <2>1, WaitersAtEL0 DEF SyscallReturn
  <2>3. wake \in Wakes /\ DOMAIN wake = {caller[ep]}
    <3>1. v \in RetVals
      BY <1>0, <2>1, MinType, IpcAssumption DEF IpcTypeOK, ReplyResult
    <3>2. {caller[ep]} \in SUBSET {s \in UserSlots : ustate[s] = "BLOCKED"}
      BY <1>0, <2>1, <2>2 DEF IpcTypeOK, Queued
    <3> QED BY <3>1, <3>2, OneWakeAllowed
  <2>4. \A e \in Eps : caller'[e] = IF e = ep THEN NONE ELSE caller[e]
    BY <1>0, <2>1 DEF IpcTypeOK
  <2>5. IpcTypeOK' /\ SupervisorTypeOK'
    BY <1>0, <2>1 DEF IpcTypeOK, SupervisorTypeOK, supervisorVars
  <2>6. OneWaitPlace' /\ WaitersAreOwners'
    BY <1>0, <2>1, <2>4 DEF OneWaitPlace, WaitersAreOwners, owner_slot,
                            supervisorVars
  <2>7. \A s \in UserSlots : Queued(s)' <=> Queued(s) /\ s \notin {caller[ep]}
    BY <1>0, <2>1, <2>4, NoneIsNoTask DEF Queued, OneWaitPlace, supervisorVars
  <2> HIDE DEF wake
  <2>8. BlockedIffQueued'
    BY <2>1, <2>3, <2>7, ReturnKeepsQueued, ThreadAssumption
  <2> QED BY <2>1, <2>3, <2>5, <2>6, <2>8, ThreadAssumption
          DEF StepKept, ThreadNext
<1>2. CASE ~ReplyAdmitted(ep, len, ok)
  BY <1>2, ReturnStep, ThreadAssumption DEF Answer, QueuesSame
<1> QED BY <1>1, <1>2

(* The supervisor takes a waiting notice, enters its wait place, or fails. *)
LEMMA WaitStep ==
  ASSUME KernelInv, NEW elrOk \in BOOLEAN, SYS_supervise_wait(elrOk)
  PROVE  StepKept
<1> USE DEF SYS_supervise_wait, supervisor_syscall_wait
<1>0. IpcTypeOK /\ SupervisorTypeOK /\ OneWaitPlace /\ WaitersAreOwners
  BY DEF KernelInv, TypeOK
<1>1. CASE current = THREAD_SLOT_TASK_C /\ pendingDeath # NONE
  <2>1. /\ SyscallReturn(pendingDeath, NoWake) /\ pendingDeath \in RetVals
        /\ UNCHANGED ipcVars /\ UNCHANGED blockedSupervisor
        /\ pendingDeath' = NONE
    BY <1>0, <1>1, SupervisorAssumption DEF SupervisorTypeOK
  <2>2. IpcTypeOK' /\ SupervisorTypeOK' /\ OneWaitPlace' /\ WaitersAreOwners'
    BY <1>0, <2>1 DEF IpcTypeOK, SupervisorTypeOK, OneWaitPlace,
                      WaitersAreOwners, owner_slot, ipcVars
  <2>3. BlockedIffQueued'
    <3>1. \A s \in UserSlots : Queued(s)' <=> Queued(s)
      BY <2>1 DEF Queued, ipcVars
    <3> QED BY <2>1, <3>1, NoWakeAllowed, ReturnKeepsQueued
  <2> QED BY <2>1, <2>2, <2>3, NoWakeAllowed DEF StepKept, ThreadNext
<1>2. CASE /\ current = THREAD_SLOT_TASK_C /\ pendingDeath = NONE
           /\ blockedSupervisor = NONE
  <2>1. /\ thread_user_trap_redirect("NOTIFY_BLOCK", elrOk, NoWake)
        /\ blockedSupervisor' = current
        /\ UNCHANGED pendingDeath /\ UNCHANGED ipcVars
    BY <1>2
  <2>2. current \in UserSlots /\ ~Queued(current) /\ current # NONE
    BY <2>1, WaitersAtEL0, NoneIsNoTask DEF thread_user_trap_redirect
  <2>3. IpcTypeOK' /\ SupervisorTypeOK' /\ OneWaitPlace' /\ WaitersAreOwners'
    BY <1>0, <1>2, <2>1, <2>2
       DEF IpcTypeOK, SupervisorTypeOK, OneWaitPlace, WaitersAreOwners,
           owner_slot, ipcVars, Queued
  <2>4. "NOTIFY_BLOCK" \in Blocks /\ "NOTIFY_BLOCK" \in Reasons \ {"NONE"}
    BY DEF Blocks, Reasons
  <2>5. BlockedIffQueued'
    <3>1. \A s \in UserSlots : Queued(s)' <=> s = current \/ Queued(s)
      BY <1>2, <2>1, NoneIsNoTask DEF Queued, ipcVars
    <3> QED BY <2>1, <2>4, <3>1, NoWakeAllowed, RedirectKeepsQueued
  <2> QED BY <2>1, <2>3, <2>4, <2>5, NoWakeAllowed DEF StepKept, ThreadNext
<1>3. CASE ~(/\ current = THREAD_SLOT_TASK_C
             /\ pendingDeath # NONE \/ blockedSupervisor = NONE)
  BY <1>3, ReturnStep, ThreadAssumption DEF QueuesSame
<1> QED BY <1>1, <1>2, <1>3

(* A restart revives a dead task, which no wait place names.               *)
LEMMA RestartStep ==
  ASSUME KernelInv, NEW s \in Slots, SYS_task_restart(s)
  PROVE  StepKept
<1> USE DEF SYS_task_restart, supervisor_syscall_restart
<1>1. CASE thread_user_restart(s)
  <2>1. /\ s \in UserSlots /\ QueuesSame /\ At("el0")
        /\ ustate[s] = "DEAD" /\ phase' = "el0"
        /\ ustate' = [ustate EXCEPT ![s] = "RUNNABLE"]
    BY <1>1 DEF thread_user_restart, Restartable, QueuesSame, At
  <2>2. \A t \in UserSlots : Queued(t) <=> ustate[t] = "BLOCKED"
    BY <2>1, WaitersAtEL0
  <2>3. \A t \in UserSlots : ustate'[t] = "BLOCKED" <=> ustate[t] = "BLOCKED"
    BY <2>1 DEF KernelInv, TypeOK, ThreadTypeOK, UserSlots
  <2>4. BlockedIffQueued'
    BY <2>1, <2>2, <2>3, QueuesSameLemma DEF BlockedIffQueued, Blocking
  <2> QED BY <1>1, <2>1, <2>4, QueuesSameLemma DEF StepKept, ThreadNext
<1>2. CASE SyscallReturn(FAIL, NoWake)
  BY <1>2, ReturnStep, ThreadAssumption DEF QueuesSame
<1> QED BY <1>1, <1>2

-----------------------------------------------------------------------------
(* The other steps                                                         *)

(* The task states after the continuation of a trap: the trapped task as   *)
(* its reason says, and after a death the tasks its clean-up wakes.        *)
LEMMA ReturnStepUpdate ==
  ASSUME NEW wake, user_task_return_step(wake)
  PROVE  LET w == IF reason[current] \in Deaths THEN wake ELSE NoWake IN
         ustate' = [s \in Slots |->
             IF s \in DOMAIN w THEN "RUNNABLE"
             ELSE [ustate EXCEPT ![current] = LeftIn(reason[current])][s]]
BY DEF user_task_return_step, thread_user_wake_with_x0

(* The continuation of a trap.  A death takes from the wait places the     *)
(* callers it aborts and the supervisor it notifies, and wakes just these  *)
(* (user_task_return_step, ipc_handle_task_death,                          *)
(* supervisor_note_task_death).                                            *)
LEMMA ReturnsStep ==
  ASSUME KernelInv, TaskReturns
  PROVE  StepKept
<1> DEFINE t == current
           wake == DeathWakes(t)
<1>0. /\ IpcTypeOK /\ SupervisorTypeOK /\ OneWaitPlace /\ WaitersAreOwners
      /\ At("trapped") /\ user_task_return_step(wake)
      /\ current' = current /\ phase' = "pick" /\ reason' = reason
      /\ current \in Slots
  BY DEF KernelInv, TypeOK, TaskReturns, user_task_return_step, At,
         SchedulerInv, OnUserTask, UserSlots
<1>1. \A s \in UserSlots : ~Blocking(s)'
  BY <1>0 DEF Blocking
<1>2. CASE reason[t] \in Deaths
  <2>1. reason[t] \notin Blocks
    BY <1>2 DEF Deaths, Blocks
  <2>2. /\ t \in UserSlots /\ ~Queued(t) /\ ustate[t] = "RUNNING"
        /\ \A s \in UserSlots : Queued(s) <=> ustate[s] = "BLOCKED"
    BY <1>0, <2>1, WaitersAtDeath
  <2>3. ipc_handle_task_death(t) /\ supervisor_note_task_death(t)
    BY <1>2 DEF TaskReturns
  <2>4. Forgotten(t) = {} /\ {ep \in Eps : receiver[ep] = t} = {}
    BY <2>2 DEF Forgotten, Queued
  <2>5. /\ \A ep \in Eps : /\ caller'[ep] = IF ep \in Aborted(t) THEN NONE
                                            ELSE caller[ep]
                          /\ receiver'[ep] = receiver[ep]
        /\ blockedSupervisor' = NONE
    BY <2>3, <2>4 DEF ipc_handle_task_death, supervisor_note_task_death
  <2>6. IpcTypeOK' /\ SupervisorTypeOK'
    BY <1>0, <2>2, <2>3
       DEF IpcTypeOK, SupervisorTypeOK, ipc_handle_task_death,
           supervisor_note_task_death
  <2>7. OneWaitPlace' /\ WaitersAreOwners'
    BY <1>0, <2>5 DEF OneWaitPlace, WaitersAreOwners, owner_slot
  <2>8. \A s \in UserSlots :
          s \in DOMAIN wake <=>
            \/ \E ep \in Aborted(t) : s = caller[ep]
            \/ s = blockedSupervisor
    BY <2>2 DEF DeathWakes, AbortedCallers, Notified, Queued
  <2>9. wake \in Wakes
    <3>1. \A s \in DOMAIN wake : s \in UserSlots /\ ustate[s] = "BLOCKED"
      <4>1. \A ep \in Eps : caller[ep] # NONE => caller[ep] \in UserSlots
        BY <1>0 DEF IpcTypeOK
      <4> QED BY <2>2, <4>1
              DEF DeathWakes, AbortedCallers, Aborted, Notified, Queued
    <3>2. \A s \in DOMAIN wake : wake[s] \in RetVals
      BY <2>2, SupervisorAssumption, ThreadAssumption DEF DeathWakes
    <3>3. wake = [s \in DOMAIN wake |-> wake[s]]
      BY DEF DeathWakes
    <3>4. wake \in [DOMAIN wake -> RetVals]
      BY <3>2, <3>3
    <3> HIDE DEF wake
    <3> QED BY <3>1, <3>4 DEF Wakes
  <2>10. \A s \in UserSlots : Queued(s)' <=> Queued(s) /\ s \notin DOMAIN wake
    <3>1. \A ep \in Aborted(t) : ep \in Eps /\ caller[ep] # NONE
      BY DEF Aborted
    <3> HIDE DEF wake
    <3> QED BY <1>0, <2>5, <2>8, <3>1, NoneIsNoTask DEF Queued, OneWaitPlace
  <2>11. \A s \in UserSlots : ustate'[s] = "BLOCKED" <=>
                                ustate[s] = "BLOCKED" /\ s \notin DOMAIN wake
    <3>1. ustate' = [s \in Slots |->
             IF s \in DOMAIN wake THEN "RUNNABLE"
             ELSE [ustate EXCEPT ![t] = LeftIn(reason[t])][s]]
      BY <1>0, <1>2, ReturnStepUpdate
    <3>2. LeftIn(reason[t]) = "DEAD"
      BY <1>2 DEF LeftIn
    <3> HIDE DEF wake
    <3> QED BY <2>2, <3>1, <3>2
            DEF UserSlots, KernelInv, TypeOK, ThreadTypeOK
  <2>12. BlockedIffQueued'
    BY <1>1, <2>2, <2>10, <2>11 DEF BlockedIffQueued
  <2> HIDE DEF wake
  <2> QED BY <1>0, <2>6, <2>7, <2>9, <2>12 DEF StepKept, ThreadNext
<1>3. CASE reason[t] \notin Deaths
  <2>1. QueuesSame
    BY <1>3 DEF TaskReturns, QueuesSame
  <2>2. user_task_return_step(NoWake)
    BY <1>0, <1>3 DEF user_task_return_step
  <2>3. ustate' = [ustate EXCEPT ![t] = LeftIn(reason[t])]
    <3>1. ustate' = [s \in Slots |->
             IF s \in DOMAIN NoWake THEN "RUNNABLE"
             ELSE [ustate EXCEPT ![t] = LeftIn(reason[t])][s]]
      BY <2>2, <1>3, ReturnStepUpdate
    <3> QED BY <3>1, NoWakeAllowed DEF KernelInv, TypeOK, ThreadTypeOK
  <2>4. LeftIn(reason[t]) = "BLOCKED" <=> reason[t] \in Blocks
    BY <1>3 DEF LeftIn
  <2>5. \A s \in UserSlots :
          Queued(s) <=> ustate[s] = "BLOCKED" \/ (s = t /\ reason[t] \in Blocks)
    BY <1>0 DEF KernelInv, BlockedIffQueued, Blocking, At
  <2>6. ustate[t] # "BLOCKED"
    BY <1>0 DEF KernelInv, SchedulerInv, InTask, At, OnUserTask
  <2>7. \A s \in UserSlots : ustate'[s] = "BLOCKED" <=>
                  ustate[s] = "BLOCKED" \/ (s = t /\ reason[t] \in Blocks)
    BY <2>3, <2>4, <2>6 DEF KernelInv, TypeOK, ThreadTypeOK, UserSlots
  <2>8. BlockedIffQueued'
    BY <1>1, <2>1, <2>5, <2>7, QueuesSameLemma DEF BlockedIffQueued
  <2> QED BY <2>1, <2>2, <2>8, QueuesSameLemma, NoWakeAllowed
          DEF StepKept, ThreadNext
<1> QED BY <1>2, <1>3

(* The scheduler and the tick block and wake nobody.                       *)
LEMMA InternalStep ==
  ASSUME KernelInv, Internal
  PROVE  StepKept
<1>1. QueuesSame
  BY DEF Internal, QueuesSame
<1>2. ThreadNext
  BY DEF Internal, ThreadNext
<1>3. BlockedIffQueued'
  <2> SUFFICES ASSUME panic' = "none", NEW s \in UserSlots
               PROVE  Queued(s)' <=> (ustate[s] = "BLOCKED" \/ Blocking(s))'
    BY DEF BlockedIffQueued
  <2>1. Queued(s)' <=> Queued(s)
    BY <1>1, QueuesSameLemma
  <2>2. Queued(s) <=> ustate[s] = "BLOCKED" \/ Blocking(s)
    <3>1. panic = "none"
      BY DEF Internal, SchedulerStep, Panicked, thread_resched_point_pick,
             thread_switch_to, thread_enter_el0, thread_entry_idle,
             thread_resched_point_idle, user_task_resume, el0_resume,
             thread_tick_irq, ChargeTick, At,
             threadVars
    <3> QED BY <3>1 DEF KernelInv, BlockedIffQueued
  <2>3. CASE thread_enter_el0 \/ user_task_resume
    <3>1. /\ At("landed") /\ phase' = "resume" /\ current \in UserSlots
          /\ ustate' = [ustate EXCEPT ![current] = "RUNNING"]
      BY <2>3 DEF thread_enter_el0, user_task_resume
    <3>2. ustate[current] # "BLOCKED"
      BY <3>1 DEF KernelInv, SchedulerInv, thread_is_selectable, At
    <3> QED BY <2>1, <2>2, <3>1, <3>2
            DEF Blocking, At, KernelInv, TypeOK, ThreadTypeOK, UserSlots
  <2>4. CASE UNCHANGED <<ustate, reason>> /\ phase # "trapped" /\ phase' # "trapped"
    BY <2>1, <2>2, <2>4 DEF Blocking
  <2>5. CASE Panicked
    BY <2>1, <2>2, <2>5 DEF Panicked, threadVars, Blocking
  <2> QED
    BY <2>3, <2>4, <2>5
       DEF Internal, SchedulerStep, thread_resched_point_pick, thread_switch_to,
           thread_entry_idle, thread_resched_point_idle, el0_resume,
           thread_tick_irq, ChargeTick, At, IrqOpen
<1> QED BY <1>1, <1>2, <1>3, QueuesSameLemma DEF StepKept

-----------------------------------------------------------------------------
(* Putting it together                                                     *)

(* The time is a length's worth of ticks, and an unknown call fails.       *)
LEMMA PlainReturnStep ==
  ASSUME KernelInv, SYS_time_ticks \/ SYS_unknown
  PROVE  StepKept
<1>1. ASSUME NEW r \in RetVals, Return(r) PROVE StepKept
  BY <1>1, ReturnStep DEF Return, Answer, QueuesSame
<1> QED BY <1>1, IpcAssumption, ThreadAssumption DEF SYS_time_ticks, SYS_unknown

(* Every step of the kernel is a step of the thread layer and keeps the    *)
(* wait places in order.                                                   *)
LEMMA NextStep == ASSUME KernelInv, Next PROVE StepKept
<1>1. CASE Syscall
  <2>1. ASSUME NEW elrOk \in BOOLEAN, SYS_yield(elrOk) \/ SYS_exit(elrOk)
        PROVE  StepKept
    BY <2>1, RedirectStep DEF SYS_yield, SYS_exit
  <2>2. ASSUME NEW len \in Lengths, NEW ok \in BOOLEAN, NEW elrOk \in BOOLEAN,
               SYS_write(len, ok, elrOk)
        PROVE  StepKept
    BY <2>2, WriteStep
  <2>3. ASSUME NEW ep \in EpIds, NEW len \in Lengths, NEW cap \in Lengths,
               NEW ok \in BOOLEAN, NEW elrOk \in BOOLEAN,
               SYS_ipc_call(ep, len, cap, ok, elrOk)
        PROVE  StepKept
    BY <2>3, CallStep
  <2>4. ASSUME NEW ep \in EpIds, NEW cap \in Lengths, NEW ok \in BOOLEAN,
               NEW elrOk \in BOOLEAN, SYS_ipc_recv(ep, cap, ok, elrOk)
        PROVE  StepKept
    BY <2>4, RecvStep
  <2>5. ASSUME NEW ep \in EpIds, NEW len \in Lengths, NEW ok \in BOOLEAN,
               SYS_ipc_reply(ep, len, ok)
        PROVE  StepKept
    BY <2>5, ReplyStep
  <2>6. ASSUME NEW s \in Slots, SYS_task_restart(s) PROVE StepKept
    BY <2>6, RestartStep
  <2> QED BY <1>1, <2>1, <2>2, <2>3, <2>4, <2>5, <2>6, WaitStep, PlainReturnStep
          DEF Syscall
<1>2. ASSUME NEW ok \in BOOLEAN, thread_user_fault(ok) PROVE StepKept
  BY <1>2, RedirectStep DEF thread_user_fault
<1> QED BY <1>1, <1>2, ReturnsStep, InternalStep DEF Next

(* At boot all wait places are empty and no task is blocked.               *)
LEMMA KernelInvInit == ASSUME Init PROVE KernelInv
<1> USE DEF Init
<1>1. ThreadTypeOK
  BY ThreadInitType
<1>2. SchedulerInv /\ NoInternalPanic
  BY SchedulerInit DEF ThreadInit, NoInternalPanic
<1>3. IpcTypeOK /\ SupervisorTypeOK /\ OneWaitPlace /\ WaitersAreOwners
  BY DEF IpcInit, SupervisorInit, IpcTypeOK, SupervisorTypeOK, OneWaitPlace,
         WaitersAreOwners
<1>4. BlockedIffQueued
  <2>1. \A s \in UserSlots : ustate[s] # "BLOCKED" /\ ~Blocking(s)
    BY DEF ThreadInit, UserSlots, Blocking
  <2>2. \A s \in UserSlots : ~Queued(s)
    BY NoneIsNoTask DEF IpcInit, SupervisorInit, Queued
  <2> QED BY <2>1, <2>2 DEF BlockedIffQueued
<1> QED BY <1>1, <1>2, <1>3, <1>4 DEF KernelInv, TypeOK

(* The invariant is inductive, and every step implements the thread layer. *)
LEMMA KernelInvStep == KernelInv /\ [Next]_vars => KernelInv' /\ [ThreadNext]_threadVars
<1> SUFFICES ASSUME KernelInv, [Next]_vars
             PROVE  KernelInv' /\ [ThreadNext]_threadVars
  OBVIOUS
<1>1. CASE Next
  <2>1. StepKept
    BY <1>1, NextStep
  <2>2. ThreadTypeOK'
    BY <2>1, ThreadTypeStep DEF StepKept, KernelInv, TypeOK
  <2>3. SchedulerInv' /\ NoInternalPanic'
    BY <2>1, SchedulerStepSafe DEF StepKept, KernelInv, TypeOK
  <2> QED BY <2>1, <2>2, <2>3 DEF StepKept, KernelInv, TypeOK
<1>2. CASE UNCHANGED vars
  <2>1. UNCHANGED threadVars /\ QueuesSame
    BY <1>2 DEF vars, QueuesSame
  <2>2. ThreadTypeOK' /\ SchedulerInv' /\ NoInternalPanic'
    BY <2>1, ThreadTypeStep, SchedulerStepSafe DEF KernelInv, TypeOK
  <2>3. BlockedIffQueued'
    BY <2>1, QueuesSameLemma
       DEF KernelInv, BlockedIffQueued, Blocking, threadVars
  <2> QED BY <2>1, <2>2, <2>3, QueuesSameLemma DEF KernelInv, TypeOK
<1> QED BY <1>1, <1>2

(* Whatever the EL0 programs do, KernelInv holds.                          *)
THEOREM KernelInvariant == Spec => []KernelInv
<1> QED BY KernelInvInit, KernelInvStep, PTL DEF Spec

(* Every variable of the kernel keeps its range.                           *)
THEOREM TypeCorrect == Spec => []TypeOK
<1>1. KernelInv => TypeOK
  BY DEF KernelInv
<1> QED BY <1>1, KernelInvariant, PTL

(* Whatever the EL0 programs do, the system calls use the thread layer as  *)
(* it allows: they wake only blocked tasks (thread_user_wake_with_x0 makes *)
(* any task that is not dead runnable) and restart only dead ones.         *)
THEOREM KernelUsesThreadLayer == Spec => UsesThreadLayer
<1>1. Init => ThreadInit
  BY DEF Init
<1> QED BY <1>1, KernelInvariant, KernelInvStep, PTL
        DEF Spec, ThreadSpec, UsesThreadLayer

(* Whatever the EL0 programs do, no panic of the kernel is reached but the *)
(* one of thread_user_trap_redirect on a trap whose ELR lies outside the   *)
(* sandbox: a fault there, or a call that does not return at once (yield,  *)
(* exit, a blocking one) whose svc is the sandbox's last word.             *)
THEOREM KernelNoInternalPanic == Spec => []NoInternalPanic
<1>1. KernelInv => NoInternalPanic
  BY DEF KernelInv
<1> QED BY <1>1, KernelInvariant, PTL

(* With the count of the choices that passed each task over beside it, the *)
(* kernel is RoundRobin: whatever the EL0 programs do, pick_next_thread    *)
(* passes a task that can run over at most once for each other user task.  *)
THEOREM KernelBypass ==
  Init /\ RRInit /\ [][Next /\ Passes]_<<vars, passed>> => []BoundedBypass
<1>1. Init => KernelInv
  BY KernelInvInit
<1>2. KernelInv /\ [Next /\ Passes]_<<vars, passed>> => KernelInv' /\ [RRNext]_rrVars
  <2> SUFFICES ASSUME KernelInv, [Next /\ Passes]_<<vars, passed>>
               PROVE  KernelInv' /\ [RRNext]_rrVars
    OBVIOUS
  <2>1. KernelInv' /\ [ThreadNext]_threadVars
    BY KernelInvStep
  <2>2. CASE Next /\ Passes /\ ThreadNext
    BY <2>1, <2>2 DEF RRNext
  <2>3. CASE Next /\ Passes /\ UNCHANGED threadVars
    <3>1. ~thread_resched_point_pick
      BY <2>3 DEF thread_resched_point_pick, At, threadVars
    <3> QED BY <2>1, <2>3, <3>1 DEF Passes, Choice, rrVars
  <2>4. CASE UNCHANGED <<vars, passed>>
    BY <2>1, <2>4 DEF vars, rrVars
  <2> QED BY <2>1, <2>2, <2>3, <2>4
<1> QED BY <1>1, <1>2, RoundRobinBypass, PTL DEF RRSpec

(* A task is blocked exactly while a wait place of ipc.c or supervisor.c   *)
(* names it: no wake-up is lost and none hits a task that is awake.        *)
THEOREM KernelBlockedIffQueued == Spec => []BlockedIffQueued
<1>1. KernelInv => BlockedIffQueued
  BY DEF KernelInv
<1> QED BY <1>1, KernelInvariant, PTL

(* No task is named by two wait places.                                    *)
THEOREM KernelOneWaitPlace == Spec => []OneWaitPlace
<1>1. KernelInv => OneWaitPlace
  BY DEF KernelInv
<1> QED BY <1>1, KernelInvariant, PTL

(* No task receives on another's endpoint or waits for its notices.        *)
THEOREM KernelWaitersAreOwners == Spec => []WaitersAreOwners
<1>1. KernelInv => WaitersAreOwners
  BY DEF KernelInv
<1> QED BY <1>1, KernelInvariant, PTL

(* Whatever the EL0 programs do, a task that comes out of a blocking call  *)
(* finds a result in x0; inherited from the thread layer.                  *)
THEOREM KernelResults == Spec => []ResultBeforeResume
<1> QED BY KernelUsesThreadLayer, ResultCorrect, PTL DEF UsesThreadLayer

(* Whatever the EL0 programs do, the kernel idles only when it is stuck;   *)
(* inherited from the thread layer.                                        *)
THEOREM KernelIdle == Spec => []IdleOnlyIfStuck
<1> QED BY KernelUsesThreadLayer, IdleCorrect, PTL DEF UsesThreadLayer

-----------------------------------------------------------------------------
(* Requests and notices that wait                                          *)

(* Which steps touch the queues: the calls below, and a death.             *)
LEMMA QueueSteps ==
  ASSUME Next
  PROVE  \/ QueuesSame
         \/ \E ep \in Eps : \E len, cap, ovr, ok, elrOk :
              /\ CallAdmitted(ep, len, ok) /\ Request(ep, len, cap, ovr, elrOk)
              /\ elrOk \in BOOLEAN /\ len \in Lengths
              /\ UNCHANGED supervisorVars
         \/ \E ep \in EpIds, cap \in Lengths, ok, elrOk \in BOOLEAN :
              SYS_ipc_recv(ep, cap, ok, elrOk)
         \/ \E ep \in EpIds, len \in Lengths, ok \in BOOLEAN :
              SYS_ipc_reply(ep, len, ok)
         \/ \E elrOk \in BOOLEAN : SYS_supervise_wait(elrOk)
         \/ /\ TaskReturns /\ ipc_handle_task_death(current)
            /\ supervisor_note_task_death(current)
            /\ reason[current] \in Deaths
<1> DEFINE Requests ==
      \E ep \in Eps : \E len, cap, ovr, ok, elrOk :
        /\ CallAdmitted(ep, len, ok) /\ Request(ep, len, cap, ovr, elrOk)
        /\ elrOk \in BOOLEAN /\ len \in Lengths
        /\ UNCHANGED supervisorVars
<1>1. ASSUME NEW r, Return(r) PROVE QueuesSame
  BY <1>1 DEF Return, Answer, QueuesSame
<1>2. ASSUME NEW r, NEW ok, Redirect(r, ok) PROVE QueuesSame
  BY <1>2 DEF Redirect, QueuesSame
<1>3. ASSUME NEW ep, NEW len \in Lengths, NEW cap, NEW ok, NEW elrOk,
             SYS_ipc_call(ep, len, cap, ok, elrOk)
      PROVE  \/ QueuesSame
             \/ /\ CallAdmitted(ep, len, ok) /\ Request(ep, len, cap, 0, elrOk)
                /\ ep \in Eps /\ UNCHANGED supervisorVars
  BY <1>3 DEF SYS_ipc_call, ipc_syscall_call, Answer, QueuesSame, CallAdmitted
<1>4. ASSUME NEW len \in Lengths, NEW ok, NEW elrOk, SYS_write(len, ok, elrOk)
      PROVE  \/ QueuesSame
             \/ /\ CallAdmitted(EP_UART, len, ok)
                /\ Request(EP_UART, len, 0, len, elrOk)
                /\ EP_UART \in Eps /\ UNCHANGED supervisorVars
  BY <1>1, <1>4
     DEF SYS_write, ipc_route_uart_write, Answer, QueuesSame, CallAdmitted
<1>5. ASSUME NEW s \in Slots, SYS_task_restart(s) PROVE QueuesSame
  BY <1>5 DEF SYS_task_restart, supervisor_syscall_restart, QueuesSame
<1>6. CASE Syscall
  <2>1. \A elrOk : SYS_yield(elrOk) \/ SYS_exit(elrOk) => QueuesSame
    BY <1>2 DEF SYS_yield, SYS_exit
  <2>2. SYS_time_ticks \/ SYS_unknown => QueuesSame
    BY <1>1 DEF SYS_time_ticks, SYS_unknown
  <2>3. ASSUME NEW len \in Lengths, NEW ok \in BOOLEAN, NEW elrOk \in BOOLEAN,
               SYS_write(len, ok, elrOk)
        PROVE  QueuesSame \/ Requests
    BY <2>3, <1>4
  <2>4. ASSUME NEW ep \in EpIds, NEW len \in Lengths, NEW cap \in Lengths,
               NEW ok \in BOOLEAN, NEW elrOk \in BOOLEAN,
               SYS_ipc_call(ep, len, cap, ok, elrOk)
        PROVE  QueuesSame \/ Requests
    BY <2>4, <1>3
  <2>5. \/ QueuesSame \/ Requests
        \/ \E elrOk \in BOOLEAN : SYS_supervise_wait(elrOk)
        \/ \E ep \in EpIds, cap \in Lengths, ok, elrOk \in BOOLEAN :
             SYS_ipc_recv(ep, cap, ok, elrOk)
        \/ \E ep \in EpIds, len \in Lengths, ok \in BOOLEAN :
             SYS_ipc_reply(ep, len, ok)
    <3> HIDE DEF Requests
    <3> QED BY <1>5, <1>6, <2>1, <2>2, <2>3, <2>4, Zenon DEF Syscall
  <2> QED BY <2>5
<1>7. CASE TaskReturns
  BY <1>7 DEF TaskReturns, QueuesSame
<1>8. CASE Internal
  BY <1>8 DEF Internal, QueuesSame
<1> QED BY <1>2, <1>6, <1>7, <1>8 DEF Next, thread_user_fault

(* A server registers as receiver only on an empty endpoint, a request to  *)
(* a registered receiver is handed over at once, and likewise for notices  *)
(* (ipc_syscall_recv, ipc_syscall_call, supervisor_syscall_wait,           *)
(* supervisor_note_task_death).                                            *)
LEMMA SleepStep ==
  ASSUME KernelInv, NoSleepOnPending, [Next]_vars
  PROVE  NoSleepOnPending'
<1> USE DEF NoSleepOnPending
<1>0. IpcTypeOK
  BY DEF KernelInv, TypeOK
<1>1. CASE QueuesSame
  BY <1>1 DEF QueuesSame, ipcVars, supervisorVars
<1>2. ASSUME NEW ep \in Eps, NEW len, NEW cap, NEW ovr, NEW ok, NEW elrOk,
             Request(ep, len, cap, ovr, elrOk), UNCHANGED supervisorVars
      PROVE  NoSleepOnPending'
  BY <1>0, <1>2 DEF Request, IpcTypeOK, supervisorVars
<1>3. ASSUME NEW ep \in EpIds, NEW cap \in Lengths, NEW ok \in BOOLEAN,
             NEW elrOk \in BOOLEAN, SYS_ipc_recv(ep, cap, ok, elrOk)
      PROVE  NoSleepOnPending'
  BY <1>0, <1>3
     DEF SYS_ipc_recv, ipc_syscall_recv, Serves, RecvBlocks, Answer, ipcVars,
         IpcTypeOK, supervisorVars
<1>4. ASSUME NEW ep \in EpIds, NEW len \in Lengths, NEW ok \in BOOLEAN,
             SYS_ipc_reply(ep, len, ok)
      PROVE  NoSleepOnPending'
  BY <1>4 DEF SYS_ipc_reply, ipc_syscall_reply, Answer, ipcVars, supervisorVars
<1>5. CASE \E elrOk \in BOOLEAN : SYS_supervise_wait(elrOk)
  BY <1>5 DEF SYS_supervise_wait, supervisor_syscall_wait, ipcVars,
              supervisorVars
<1>6. CASE ipc_handle_task_death(current) /\ supervisor_note_task_death(current)
  BY <1>6 DEF ipc_handle_task_death, supervisor_note_task_death
<1>7. CASE UNCHANGED vars
  BY <1>7 DEF vars, ipcVars, supervisorVars
<1> QED BY <1>1, <1>2, <1>3, <1>4, <1>5, <1>6, <1>7, QueueSteps

(* Whatever the EL0 programs do, no server sleeps on a queued request and  *)
(* no supervisor on a noted death.                                         *)
THEOREM KernelNoSleepOnPending == Spec => []NoSleepOnPending
<1>1. Init => NoSleepOnPending
  BY DEF Init, IpcInit, SupervisorInit, NoSleepOnPending
<1> QED BY <1>1, SleepStep, KernelInvariant, PTL DEF Spec

-----------------------------------------------------------------------------
(* Calls to a dead server                                                  *)

(* A task dies only in the continuation of its own exit or fault           *)
(* (user_task_return_step).                                                *)
LEMMA DeathStep ==
  ASSUME KernelInv, Next, NEW s \in UserSlots,
         ustate'[s] = "DEAD", ustate[s] # "DEAD"
  PROVE  /\ TaskReturns /\ s = current /\ reason[current] \in Deaths
         /\ ipc_handle_task_death(current)
<1> USE DEF KernelInv, TypeOK, ThreadTypeOK, UserSlots
<1>0. ThreadNext
  BY NextStep DEF StepKept
<1>1. ASSUME NEW wake, NEW u,
             \A t \in Slots : u[t] = "DEAD" => ustate[t] = "DEAD",
             ustate' = [t \in Slots |->
                          IF t \in DOMAIN wake THEN "RUNNABLE" ELSE u[t]]
      PROVE  FALSE
  BY <1>1
<1>2. ASSUME NEW wake \in Wakes, user_task_return_step(wake)
      PROVE  At("trapped") /\ s = current /\ reason[current] \in Deaths
  <2>1. LeftIn(reason[current]) = "DEAD" => reason[current] \in Deaths
    BY DEF LeftIn
  <2> DEFINE w == IF reason[current] \in Deaths THEN wake ELSE NoWake
  <2>2. ustate' = [t \in Slots |->
             IF t \in DOMAIN w THEN "RUNNABLE"
             ELSE [ustate EXCEPT ![current] = LeftIn(reason[current])][t]]
    BY <1>2, ReturnStepUpdate
  <2> HIDE DEF w
  <2>3. At("trapped")
    BY <1>2 DEF user_task_return_step
  <2> QED BY <2>1, <2>2, <2>3
<1>3. At("trapped") /\ s = current /\ reason[current] \in Deaths
  <2>1. ASSUME NEW ret \in RetVals, NEW wake \in Wakes, SyscallReturn(ret, wake)
        PROVE  FALSE
    BY <1>1, <2>1 DEF SyscallReturn, thread_user_wake_with_x0
  <2>2. ASSUME NEW r, NEW ok, NEW wake, thread_user_trap_redirect(r, ok, wake)
        PROVE  FALSE
    BY <1>1, <2>2 DEF thread_user_trap_redirect, thread_user_wake_with_x0
  <2>3. ASSUME NEW t \in UserSlots, thread_user_restart(t) PROVE FALSE
    BY <2>3 DEF thread_user_restart
  <2>4. CASE SchedulerStep
    BY <2>4 DEF SchedulerStep, thread_resched_point_pick, thread_switch_to,
                thread_enter_el0, thread_entry_idle, thread_resched_point_idle,
                user_task_resume, el0_resume
  <2>5. CASE thread_tick_irq \/ Panicked
    BY <2>5 DEF thread_tick_irq, ChargeTick, Panicked, threadVars
  <2> QED BY <1>0, <1>2, <2>1, <2>2, <2>3, <2>4, <2>5 DEF ThreadNext
<1>4. TaskReturns
  <2>1. phase = "trapped" /\ panic = "none"
    BY <1>3 DEF At
  <2>2. ~Syscall
    BY <2>1 DEF Syscall, SYS_yield, SYS_exit, SYS_time_ticks, SYS_write,
         SYS_ipc_call, SYS_ipc_recv, SYS_ipc_reply, SYS_supervise_wait,
         SYS_task_restart, SYS_unknown, Return, Redirect, Answer, Request,
         ipc_route_uart_write, ipc_syscall_call, ipc_syscall_recv,
         ipc_syscall_reply, supervisor_syscall_wait, supervisor_syscall_restart,
         SyscallReturn, thread_user_trap_redirect, thread_user_restart, At
  <2>3. \A ok \in BOOLEAN : ~thread_user_fault(ok)
    BY <2>1 DEF thread_user_fault, Redirect, thread_user_trap_redirect, At
  <2>4. ~Internal
    BY <2>1 DEF Internal, SchedulerStep, thread_resched_point_pick,
         thread_switch_to, thread_enter_el0, thread_entry_idle,
         thread_resched_point_idle, user_task_resume, el0_resume,
         thread_tick_irq, ChargeTick, Panicked,
         At, IrqOpen
  <2> QED BY <2>2, <2>3, <2>4 DEF Next
<1> QED BY <1>3, <1>4 DEF TaskReturns

(* A panic is final.                                                       *)
LEMMA PanicStep == ASSUME KernelInv, Next, panic' = "none" PROVE panic = "none"
<1>1. ThreadNext
  BY NextStep DEF StepKept
<1> QED
  BY <1>1 DEF ThreadNext, SchedulerStep, SyscallReturn, thread_user_trap_redirect,
     thread_user_restart, user_task_return_step, thread_resched_point_pick,
     thread_switch_to, thread_enter_el0, thread_entry_idle,
     thread_resched_point_idle, user_task_resume, el0_resume,
     thread_tick_irq, ChargeTick, Panicked, At,
     threadVars

(* The death of a server aborts the calls it has taken with the others it  *)
(* has not, and a call to a dead server is always queued                   *)
(* (ipc_handle_task_death, ipc_syscall_call).                              *)
LEMMA DeadServerStep ==
  ASSUME KernelInv, DeadServerKeepsRequest, [Next]_vars
  PROVE  DeadServerKeepsRequest'
<1> SUFFICES ASSUME panic' = "none", NEW e \in Eps, caller'[e] # NONE,
                    owner_slot(e) # NONE, ustate'[owner_slot(e)] = "DEAD"
             PROVE  pending'[e] # NONE
  BY DEF DeadServerKeepsRequest, owner_slot
<1> DEFINE o == owner_slot(e)
<1>0. IpcTypeOK /\ WaitersAreOwners /\ o \in UserSlots
  BY OwnerType DEF KernelInv, TypeOK
<1>1. CASE UNCHANGED vars
  BY <1>1 DEF vars, ipcVars, threadVars, DeadServerKeepsRequest
<1>2. CASE Next /\ ustate[o] # "DEAD"
  <2>1. ipc_handle_task_death(current) /\ o = current
    BY <1>0, <1>2, DeathStep
  <2>2. e \in Aborted(current) \/ caller[e] = NONE
    BY <2>1 DEF Aborted
  <2>3. caller'[e] = NONE
    BY <2>1, <2>2 DEF ipc_handle_task_death
  <2> QED BY <2>3
<1>3. CASE Next /\ ustate[o] = "DEAD"
  <2>0. panic = "none" /\ (caller[e] # NONE => pending[e] # NONE)
    BY <1>0, <1>3, PanicStep DEF DeadServerKeepsRequest
  <2>1. CASE QueuesSame
    BY <2>0, <2>1 DEF QueuesSame, ipcVars
  <2>2. ASSUME NEW ep \in Eps, NEW len \in Lengths, NEW cap, NEW ovr, NEW ok,
               NEW elrOk, CallAdmitted(ep, len, ok), Request(ep, len, cap, ovr, elrOk)
        PROVE  pending'[e] # NONE
    <3>1. At("el0")
      BY <2>2 DEF Request, thread_user_trap_redirect
    <3>2. ep = e => receiver[ep] = NONE
      <4>1. ep = e /\ receiver[ep] # NONE => receiver[ep] = o /\ Queued(o)
        BY <1>0 DEF WaitersAreOwners, Queued
      <4> QED BY <1>0, <1>3, <3>1, <4>1, WaitersAtEL0
    <3>3. len # NONE
      BY IpcAssumption DEF NONE
    <3> QED BY <1>0, <2>0, <2>2, <3>2, <3>3 DEF Request, IpcTypeOK
  <2>3. ASSUME NEW ep \in EpIds, NEW cap \in Lengths, NEW ok \in BOOLEAN,
               NEW elrOk \in BOOLEAN, SYS_ipc_recv(ep, cap, ok, elrOk)
        PROVE  pending'[e] # NONE
    <3>1. At("el0") /\ caller' = caller
      BY <2>3 DEF SYS_ipc_recv, ipc_syscall_recv, Answer, SyscallReturn,
                  thread_user_trap_redirect, ipcVars
    <3>2. o # current
      BY <1>3, <3>1, WaitersAtEL0
    <3>3. pending'[e] = pending[e]
      BY <1>0, <2>3, <3>2 DEF SYS_ipc_recv, ipc_syscall_recv, Answer, ipcVars,
                              Serves, IpcTypeOK
    <3> QED BY <2>0, <3>1, <3>3
  <2>4. ASSUME NEW ep \in EpIds, NEW len \in Lengths, NEW ok \in BOOLEAN,
               SYS_ipc_reply(ep, len, ok)
        PROVE  pending'[e] # NONE
    BY <1>0, <2>0, <2>4
       DEF SYS_ipc_reply, ipc_syscall_reply, Answer, ipcVars, IpcTypeOK
  <2>5. CASE \E elrOk \in BOOLEAN : SYS_supervise_wait(elrOk)
    BY <2>0, <2>5 DEF SYS_supervise_wait, ipcVars
  <2>6. CASE ipc_handle_task_death(current)
    BY <2>0, <2>6 DEF ipc_handle_task_death
  <2> QED BY <1>3, <2>1, <2>2, <2>3, <2>4, <2>5, <2>6, QueueSteps
<1> QED BY <1>1, <1>2, <1>3

(* Whatever the EL0 programs do, a task that waits on a dead server has    *)
(* its request queued for the server's next life.                          *)
THEOREM KernelDeadServerKeepsRequest == Spec => []DeadServerKeepsRequest
<1>1. Init => DeadServerKeepsRequest
  BY DEF Init, IpcInit, DeadServerKeepsRequest
<1> QED BY <1>1, DeadServerStep, KernelInvariant, PTL DEF Spec

=============================================================================
