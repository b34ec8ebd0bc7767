---------------------------- MODULE SystemProofs ----------------------------
(***************************************************************************)
(* Proofs about the shipped system.  Its steps are steps of Deadline and   *)
(* of Kernel, or leave these alone, so what is proved of them holds here   *)
(* too; the programs of el0/user_tasks.c add that only the server dies,    *)
(* that it faults inside the sandbox, that its death is not forgotten,     *)
(* that task A's writes are printed as the abstract service promises, and  *)
(* that both servers keep the protocol of Rendezvous.                      *)
(***************************************************************************)
EXTENDS System, KernelProofs

-----------------------------------------------------------------------------
(* Task A's clock, for words of any size                                   *)

(* The inductive invariant: the words are words, and their distance,       *)
(* modulo the wrap-around, is the one of real time.                        *)
DInv ==
  /\ ticks \in Words /\ nextWrite \in Words
  /\ due \in -MAX_LAG .. PERIOD
  /\ Minus(nextWrite, ticks) = IF due >= 0 THEN due ELSE due + WORD

(* Within half the words' range the sign of a difference is the order.     *)
LEMMA DInvMeaning ==
  DInv => /\ tick_reached(ticks, nextWrite) <=> due <= 0
          /\ Signed(Minus(nextWrite, ticks)) = due
<1> SUFFICES ASSUME DInv
             PROVE  /\ tick_reached(ticks, nextWrite) <=> due <= 0
                    /\ Signed(Minus(nextWrite, ticks)) = due
  OBVIOUS
<1> USE DeadlineAssumption DEF DInv, Words
<1>1. Minus(ticks, nextWrite) = IF due > 0 THEN WORD - due ELSE -due
  BY DEF Minus
<1>2. tick_reached(ticks, nextWrite) <=> due <= 0
  BY <1>1 DEF tick_reached, Signed
<1>3. Signed(Minus(nextWrite, ticks)) = due
  BY DEF Signed
<1> QED BY <1>2, <1>3

(* The first deadline is a period away.                                    *)
LEMMA DInvInit == DeadlineInit => DInv
BY DeadlineAssumption DEF DeadlineInit, DInv, Words, Plus, Minus

(* A tick brings both distances one nearer, a write moves both by a        *)
(* period, and happens only when the deadline is reached; a start sets     *)
(* both to a period.                                                       *)
LEMMA DInvStep == DInv /\ [DeadlineNext]_deadlineVars => DInv'
<1> SUFFICES ASSUME DInv, [DeadlineNext]_deadlineVars
             PROVE  DInv'
  OBVIOUS
<1> USE DeadlineAssumption
<1>1. CASE count_tick
  BY <1>1 DEF count_tick, DInv, Words, Plus, Minus
<1>2. CASE write
  <2>1. due <= 0
    BY <1>2, DInvMeaning DEF write
  <2> QED BY <1>2, <2>1 DEF write, advance, DInv, Words, Plus, Minus
<1>3. CASE start
  BY <1>3 DEF start, DInv, Words, Plus, Minus
<1>4. CASE UNCHANGED deadlineVars
  BY <1>4 DEF deadlineVars, DInv, Words, Minus
<1> QED BY <1>1, <1>2, <1>3, <1>4 DEF DeadlineNext

(* Whatever the tick counter starts from and however often it wraps, task  *)
(* A's comparison tells a deadline that has passed from one that has not   *)
(* (tick_reached).                                                         *)
THEOREM DeadlineCorrect == DeadlineSpec => []DeadlineExact
<1>1. DInv => DeadlineExact
  BY DInvMeaning DEF DeadlineExact
<1> QED BY <1>1, DInvInit, DInvStep, PTL DEF DeadlineSpec

(* The deadlines of __el0_task_a_entry stay a period apart: the distance   *)
(* of the words is that of real time.                                      *)
THEOREM DistanceCorrect == DeadlineSpec => []DistanceKept
<1>1. DInv => DistanceKept
  BY DInvMeaning DEF DistanceKept
<1> QED BY <1>1, DInvInit, DInvStep, PTL DEF DeadlineSpec

-----------------------------------------------------------------------------
(* The clock in the composed system                                        *)

Programs == {A, B, C}

PcOK == pc = [t \in Programs |-> pc[t]]

(* Between a poll that found the deadline reached and the advance of the   *)
(* deadline, a routed write may take any number of ticks; the deadline     *)
(* stays reached.                                                          *)
ClockInv ==
  /\ DInv
  /\ PcOK
  /\ pc[A] = "written" => due <= 0

(* What a step may do to the clock, and to whether A is past its write.    *)
ClockStep ==
  /\ [DeadlineNext]_deadlineVars
  /\ PcOK'
  /\ pc'[A] = "written" => due' <= 0

-----------------------------------------------------------------------------
(* A step of a program that leaves the clock alone.                        *)
LEMMA ProgramStep ==
  ASSUME ClockInv, NEW t \in Programs, NEW from, NEW to,
         Goes(t, from, to), UNCHANGED deadlineVars,
         t = A => to # "written" \/ due <= 0
  PROVE  ClockStep
<1>1. pc' = [pc EXCEPT ![t] = to]
  BY DEF Goes
<1>2. PcOK'
  BY <1>1 DEF ClockInv, PcOK
<1>3. pc'[A] = IF t = A THEN to ELSE pc[A]
  BY <1>1 DEF ClockInv, PcOK, Programs
<1>4. due' = due
  BY DEF deadlineVars
<1> QED BY <1>2, <1>3, <1>4 DEF ClockStep, ClockInv

(* Task A's program.                                                       *)
LEMMA TaskAClock == ClockInv /\ TaskA => ClockStep
<1> SUFFICES ASSUME ClockInv, TaskA PROVE ClockStep
  OBVIOUS
<1>0. A \in Programs
  BY DEF Programs
<1>1. CASE task_a_start
  <2>1. pc' = [pc EXCEPT ![A] = "poll"] /\ start
    BY <1>1 DEF task_a_start, Goes
  <2> QED BY <1>0, <2>1 DEF ClockStep, ClockInv, DeadlineNext, PcOK
<1>2. CASE task_a_poll
  BY <1>0, <1>2, ProgramStep DEF task_a_poll
<1>3. CASE task_a_write
  <2>1. due <= 0
    BY <1>3, DInvMeaning DEF task_a_write, ClockInv
  <2> QED BY <1>0, <1>3, <2>1, ProgramStep DEF task_a_write
<1>4. CASE task_a_yield
  <2>1. CASE pc[A] = "written"
    <3>1. pc' = [pc EXCEPT ![A] = "poll"] /\ advance
      BY <1>4, <2>1 DEF task_a_yield, Goes
    <3>2. tick_reached(ticks, nextWrite)
      BY <2>1, DInvMeaning DEF ClockInv
    <3> QED BY <1>0, <3>1, <3>2 DEF ClockStep, ClockInv, DeadlineNext, write, PcOK
  <2>2. CASE pc[A] # "written"
    BY <1>0, <1>4, <2>2, ProgramStep DEF task_a_yield
  <2> QED BY <2>1, <2>2
<1>5. CASE bench_call
  BY <1>0, <1>5, ProgramStep DEF bench_call
<1>6. CASE bench_next
  BY <1>0, <1>6, ProgramStep DEF bench_next
<1> QED BY <1>1, <1>2, <1>3, <1>4, <1>5, <1>6 DEF TaskA

(* The servers' programs.                                                  *)
LEMMA ServerClock == ClockInv /\ (TaskB \/ TaskC) => ClockStep
<1> SUFFICES ASSUME ClockInv, TaskB \/ TaskC PROVE ClockStep
  OBVIOUS
<1>0. B \in Programs /\ C \in Programs /\ B # A /\ C # A
  BY SystemAssumption DEF Programs, A, B, C
<1>1. CASE uart_ready \/ uart_recv \/ uart_write \/ uart_reply \/ uart_crash
  BY <1>0, <1>1, ProgramStep
     DEF uart_ready, uart_recv, uart_write, uart_reply, uart_crash
<1>2. CASE uart_again
  BY <1>0, <1>2, ProgramStep DEF uart_again
<1>3. CASE echo_recv \/ echo_reply
  BY <1>0, <1>3, ProgramStep DEF echo_recv, echo_reply
<1>4. CASE sup_ready \/ sup_wait \/ sup_restarted
  BY <1>0, <1>4, ProgramStep DEF sup_ready, sup_wait, sup_restarted
<1>5. CASE sup_restart
  <2>1. /\ PcOK'
        /\ pc'[A] = pc[A]
    <3>1. CASE x0[C] = B
      <4>1. pc' = [pc EXCEPT ![C] = "restarted",
                             ![B] = IF Restartable(B) THEN Entry(B) ELSE @]
        BY <1>5, <3>1 DEF sup_restart
      <4> QED BY <1>0, <4>1 DEF ClockInv, PcOK, Programs
    <3>2. CASE x0[C] # B
      <4>1. pc' = [pc EXCEPT ![C] = "wait"]
        BY <1>5, <3>2 DEF sup_restart
      <4> QED BY <1>0, <4>1 DEF ClockInv, PcOK, Programs
    <3> QED BY <3>1, <3>2
  <2>2. UNCHANGED deadlineVars /\ due' = due
    BY <1>5 DEF sup_restart, deadlineVars
  <2> QED BY <2>1, <2>2 DEF ClockStep, ClockInv
<1> QED BY <1>1, <1>2, <1>3, <1>4, <1>5 DEF TaskB, TaskC

(* Every step of the system is one the clock allows.                       *)
LEMMA SystemClock == ClockInv /\ [SysNext]_sysVars => ClockStep
<1> SUFFICES ASSUME ClockInv, [SysNext]_sysVars PROVE ClockStep
  OBVIOUS
<1>1. CASE KernelStep \/ UNCHANGED sysVars
  <2>1. UNCHANGED <<pc, deadlineVars>> /\ due' = due
    BY <1>1 DEF KernelStep, sysVars, programVars, deadlineVars
  <2> QED BY <2>1 DEF ClockStep, ClockInv, PcOK
<1>2. CASE Tick
  <2>1. pc' = pc /\ (count_tick \/ UNCHANGED deadlineVars)
    BY <1>2 DEF Tick
  <2>2. due' <= due
    BY <2>1, DeadlineAssumption DEF count_tick, deadlineVars, ClockInv, DInv
  <2>3. due \in Int /\ due' \in Int
    BY <2>1, DeadlineAssumption DEF count_tick, deadlineVars, ClockInv, DInv
  <2> QED BY <2>1, <2>2, <2>3 DEF ClockStep, ClockInv, DeadlineNext, PcOK
<1> QED BY <1>1, <1>2, TaskAClock, ServerClock DEF SysNext, CpuStep

(* In the shipped system, whatever the kernel, the crash and the restart   *)
(* do to the time a write takes, task A's comparison of the wrapping words *)
(* (tick_reached) tells whether its deadline has passed.                   *)
THEOREM SystemDeadline == SysSpec => []DeadlineExact
<1>1. SysInit => ClockInv
  <2> SUFFICES ASSUME SysInit PROVE ClockInv
    OBVIOUS
  <2>1. pc = [t \in Programs |-> Entry(t)]
    BY DEF SysInit, Programs
  <2>2. PcOK
    BY <2>1 DEF PcOK
  <2>3. pc[A] = Entry(A)
    BY <2>1 DEF Programs
  <2>4. pc[A] # "written"
    BY <2>3 DEF Entry
  <2> QED BY <2>2, <2>4, DInvInit DEF SysInit, ClockInv
<1>2. ClockInv /\ [SysNext]_sysVars => ClockInv'
  BY SystemClock, DInvStep DEF ClockStep, ClockInv
<1>3. ClockInv => DeadlineExact
  BY DInvMeaning DEF ClockInv, DeadlineExact
<1> QED BY <1>1, <1>2, <1>3, PTL DEF SysSpec

-----------------------------------------------------------------------------
(* The kernel's side: what the shipped programs make it do                 *)

(* The steps of the kernel that the programs cause.                        *)
ProgramCall ==
  \/ SYS_yield(TRUE)
  \/ SYS_time_ticks
  \/ \E len \in Lengths : SYS_write(len, TRUE, TRUE)
  \/ \E ep \in EpIds, len, cap \in Lengths :
       SYS_ipc_call(ep, len, cap, TRUE, TRUE)
  \/ \E ep \in EpIds, cap \in Lengths : SYS_ipc_recv(ep, cap, TRUE, TRUE)
  \/ \E ep \in EpIds, len \in Lengths : SYS_ipc_reply(ep, len, TRUE)
  \/ SYS_supervise_wait(TRUE)
  \/ SYS_task_restart(B)
  \/ thread_user_fault(TRUE) /\ current = B

ShippedNext ==
  \/ ProgramCall
  \/ TaskReturns
  \/ /\ SchedulerStep \/ thread_tick_irq
     /\ UNCHANGED <<ipcVars, supervisorVars>>

Receiving(s) == \E ep \in Eps : receiver[ep] = s

(* A server that has received, or is about to, finds a length or an error. *)
ReceivedOK ==
  \A t \in {B, C} :
    pc[t] = "got" => Receiving(t) \/ x0[t] \in Lengths \cup {FAIL}

(* Only the server dies, and its notice waits or is in the supervisor's    *)
(* hands.                                                                  *)
NoticeInv ==
  /\ At("trapped") /\ reason[current] \in Deaths => current = B
  /\ blockedSupervisor # NONE => pc[C] = "noticed"
  /\ ustate[B] = "DEAD" =>
       \/ pendingDeath = B
       \/ pc[C] = "noticed" /\ x0[C] = B /\ ~Queued(C)

SysInv ==
  /\ KernelInv
  /\ panic = "none"
  /\ PcOK
  /\ ReceivedOK
  /\ NoticeInv

-----------------------------------------------------------------------------
(* What a step of the kernel does to a task whose turn it is not           *)

(* The task's first register, and the wait places that name it, stay.      *)
Undisturbed(s) ==
  /\ x0'[s] = x0[s]
  /\ Receiving(s) => Receiving(s)'

(* No other task's step puts s into a wait place.  If it changes the x0 of *)
(* s, then by waking it from an endpoint with a length or an error, by     *)
(* waking it as supervisor with the slot of the task that dies, or by      *)
(* restarting it.                                                          *)
Elsewhere(s) ==
  /\ Queued(s)' => Queued(s)
  /\ blockedSupervisor' = s => blockedSupervisor = s
  /\ \/ Undisturbed(s)
     \/ /\ Queued(s) /\ s # blockedSupervisor
        /\ x0'[s] \in Lengths \cup {0, FAIL}
     \/ s = blockedSupervisor /\ x0'[s] = current
     \/ s = B /\ ustate[s] = "DEAD" /\ x0'[s] = 0

(* Steps that leave the wait places alone and wake nobody.                 *)
LEMMA ElsewhereSame ==
  ASSUME NEW s \in UserSlots, QueuesSame, x0'[s] = x0[s]
  PROVE  Elsewhere(s)
BY DEF Elsewhere, Undisturbed, QueuesSame, Queued, Receiving, ipcVars,
       supervisorVars

(* A call of another task that returns, or a trap, with nobody woken.      *)
LEMMA NoWakeX0 ==
  ASSUME KernelInv, NEW s \in UserSlots, NEW r, NEW ok,
         \/ SyscallReturn(r, NoWake)
         \/ thread_user_trap_redirect(r, ok, NoWake),
         ~(At("el0") /\ s = current)
  PROVE  x0'[s] = x0[s]
<1>1. s # current /\ s \in Slots
  BY DEF SyscallReturn, thread_user_trap_redirect, UserSlots
<1> QED
  BY <1>1, NoWakeAllowed
     DEF SyscallReturn, thread_user_trap_redirect, thread_user_wake_with_x0,
         KernelInv, TypeOK, ThreadTypeOK

(* A request wakes the waiting receiver with a length.                     *)
LEMMA RequestElsewhere ==
  ASSUME KernelInv, NEW s \in UserSlots, s # current,
         NEW ep \in Eps, NEW len \in Lengths, NEW cap, NEW ovr, NEW ok,
         CallAdmitted(ep, len, ok), Request(ep, len, cap, ovr, TRUE),
         UNCHANGED supervisorVars
  PROVE  Elsewhere(s)
<1> DEFINE W == {t \in UserSlots : t = receiver[ep]}
           wake == [t \in W |-> min_u64(len, recvCap[ep])]
<1>1. /\ IpcTypeOK /\ OneWaitPlace /\ s # NONE /\ s \in Slots
      /\ x0 \in [Slots -> RetVals \cup {ARG}]
  BY NoneIsNoTask DEF KernelInv, TypeOK, ThreadTypeOK, UserSlots
<1>2. \A e \in Eps : /\ caller'[e] = IF e = ep THEN current ELSE caller[e]
                     /\ receiver'[e] = IF e = ep THEN NONE ELSE receiver[e]
  BY <1>1 DEF IpcTypeOK, Request
<1>3. /\ Queued(s)' => Queued(s)
      /\ blockedSupervisor' = blockedSupervisor
  BY <1>1, <1>2 DEF Queued, supervisorVars
<1>4. x0'[s] = IF s \in W THEN min_u64(len, recvCap[ep]) ELSE x0[s]
  BY <1>1 DEF Request, thread_user_trap_redirect, thread_user_wake_with_x0
<1>5. CASE s = receiver[ep]
  <2>1. min_u64(len, recvCap[ep]) \in Lengths \cup {0}
    BY <1>1, MinType DEF IpcTypeOK
  <2>2. Queued(s) /\ s # blockedSupervisor
    BY <1>1, <1>5 DEF Queued, OneWaitPlace
  <2> QED BY <1>3, <1>4, <1>5, <2>1, <2>2 DEF Elsewhere
<1>6. CASE s # receiver[ep]
  <2>1. Receiving(s) => Receiving(s)'
    BY <1>2, <1>6 DEF Receiving
  <2> QED BY <1>3, <1>4, <1>6, <2>1 DEF Elsewhere, Undisturbed
<1> QED BY <1>5, <1>6

(* A receive touches the places of the current task only.                  *)
LEMMA RecvElsewhere ==
  ASSUME KernelInv, NEW s \in UserSlots, ~(At("el0") /\ s = current),
         NEW ep \in EpIds, NEW cap, NEW ok, NEW elrOk,
         SYS_ipc_recv(ep, cap, ok, elrOk)
  PROVE  Elsewhere(s)
<1> USE DEF SYS_ipc_recv, ipc_syscall_recv, Answer
<1>1. IpcTypeOK /\ s # NONE
  BY NoneIsNoTask DEF KernelInv, TypeOK
<1>2. x0'[s] = x0[s] /\ s # current
  BY NoWakeX0 DEF SyscallReturn, thread_user_trap_redirect
<1>3. /\ caller' = caller /\ UNCHANGED supervisorVars
      /\ \/ receiver' = receiver
         \/ /\ RecvBlocks(ep, ok)
            /\ receiver' = [receiver EXCEPT ![ep] = current]
  BY DEF ipcVars
<1>4. ASSUME NEW e \in Eps PROVE receiver'[e] = s <=> receiver[e] = s
  BY <1>1, <1>2, <1>3 DEF RecvBlocks, Serves, IpcTypeOK
<1> QED BY <1>2, <1>3, <1>4
        DEF Elsewhere, Undisturbed, Queued, Receiving, supervisorVars

(* A reply wakes the caller with a length.                                 *)
LEMMA ReplyElsewhere ==
  ASSUME KernelInv, NEW s \in UserSlots, ~(At("el0") /\ s = current),
         NEW ep \in EpIds, NEW len \in Lengths, NEW ok,
         SYS_ipc_reply(ep, len, ok)
  PROVE  Elsewhere(s)
<1> USE DEF SYS_ipc_reply, ipc_syscall_reply
<1>1. /\ IpcTypeOK /\ OneWaitPlace /\ s # NONE /\ s \in Slots
      /\ x0 \in [Slots -> RetVals \cup {ARG}]
  BY NoneIsNoTask DEF KernelInv, TypeOK, ThreadTypeOK, UserSlots
<1>2. CASE ReplyAdmitted(ep, len, ok)
  <2> DEFINE wake == [t \in {caller[ep]} |-> ReplyResult(ep, len)]
  <2>1. /\ ep \in Eps /\ At("el0") /\ s # current
        /\ caller' = [caller EXCEPT ![ep] = NONE]
        /\ UNCHANGED receiver /\ UNCHANGED supervisorVars
        /\ SyscallReturn(0, wake)
    BY <1>2 DEF ReplyAdmitted, Serves, SyscallReturn
  <2>2. /\ Queued(s)' => Queued(s)
        /\ blockedSupervisor' = blockedSupervisor
        /\ Receiving(s)' <=> Receiving(s)
    BY <1>1, <2>1 DEF Queued, Receiving, supervisorVars, IpcTypeOK
  <2>3. x0'[s] = IF s = caller[ep] THEN ReplyResult(ep, len) ELSE x0[s]
    BY <1>1, <2>1 DEF SyscallReturn, thread_user_wake_with_x0
  <2>4. CASE s = caller[ep]
    <3>1. ReplyResult(ep, len) \in Lengths \cup {0}
      BY <1>1, <2>1, MinType DEF IpcTypeOK, ReplyResult
    <3>2. Queued(s) /\ s # blockedSupervisor
      BY <1>1, <2>1, <2>4 DEF Queued, OneWaitPlace
    <3> QED BY <2>2, <2>3, <2>4, <3>1, <3>2 DEF Elsewhere
  <2>5. CASE s # caller[ep]
    BY <2>2, <2>3, <2>5 DEF Elsewhere, Undisturbed
  <2> QED BY <2>4, <2>5
<1>3. CASE ~ReplyAdmitted(ep, len, ok)
  BY <1>3, NoWakeX0, ElsewhereSame DEF Answer, QueuesSame
<1> QED BY <1>2, <1>3

(* A wait for a notice touches the place of the current task only.         *)
LEMMA WaitElsewhere ==
  ASSUME KernelInv, NEW s \in UserSlots, ~(At("el0") /\ s = current),
         NEW elrOk, SYS_supervise_wait(elrOk)
  PROVE  Elsewhere(s)
<1> USE DEF SYS_supervise_wait, supervisor_syscall_wait
<1>1. x0'[s] = x0[s] /\ s # current
  BY NoWakeX0 DEF SyscallReturn, thread_user_trap_redirect
<1>2. blockedSupervisor' \in {blockedSupervisor, current}
  BY DEF supervisorVars
<1> QED BY <1>1, <1>2 DEF Elsewhere, Undisturbed, Queued, Receiving, ipcVars

(* A restart sets the x0 of task B and of its caller.                      *)
LEMMA RestartElsewhere ==
  ASSUME KernelInv, NEW s \in UserSlots, ~(At("el0") /\ s = current),
         NEW t, SYS_task_restart(t)
  PROVE  Elsewhere(s)
<1> USE DEF SYS_task_restart, supervisor_syscall_restart
<1>1. CASE t = B /\ thread_user_restart(t)
  <2>1. /\ ustate[B] = "DEAD"
        /\ x0'[s] = IF s = B THEN 0 ELSE x0[s]
    BY <1>1 DEF thread_user_restart, Restartable, KernelInv, TypeOK, ThreadTypeOK, UserSlots
  <2> QED BY <2>1 DEF Elsewhere, Undisturbed, Queued, Receiving, ipcVars,
                      supervisorVars
<1>2. CASE SyscallReturn(FAIL, NoWake)
  BY <1>2, NoWakeX0, ElsewhereSame DEF QueuesSame
<1> QED BY <1>1, <1>2 DEF B

(* A death wakes the callers it aborts with an error, and the supervisor   *)
(* with the slot of the task that died.                                    *)
LEMMA ReturnsElsewhere ==
  ASSUME KernelInv, NEW s \in UserSlots, TaskReturns
  PROVE  Elsewhere(s)
<1> DEFINE t == current
<1>1. /\ IpcTypeOK /\ OneWaitPlace /\ s # NONE /\ s \in Slots
      /\ x0 \in [Slots -> RetVals \cup {ARG}] /\ At("trapped")
  BY NoneIsNoTask DEF KernelInv, TypeOK, ThreadTypeOK, UserSlots, TaskReturns,
                      user_task_return_step
<1>2. CASE reason[t] \notin Deaths
  <2>1. x0'[s] = x0[s]
    BY <1>1, <1>2, NoWakeAllowed
       DEF TaskReturns, user_task_return_step, thread_user_wake_with_x0
  <2> QED BY <1>2, <2>1, ElsewhereSame DEF TaskReturns, QueuesSame
<1>3. CASE reason[t] \in Deaths
  <2>1. reason[t] \notin Blocks
    BY <1>3 DEF Deaths, Blocks
  <2>2. ~Queued(t)
    BY <1>1, <2>1, WaitersAtDeath
  <2>3. ipc_handle_task_death(t) /\ supervisor_note_task_death(t)
    BY <1>3 DEF TaskReturns
  <2>4. /\ \A ep \in Eps : /\ caller'[ep] \in {NONE, caller[ep]}
                          /\ receiver'[ep] = receiver[ep]
        /\ blockedSupervisor' = NONE
    BY <2>2, <2>3
       DEF ipc_handle_task_death, supervisor_note_task_death, Queued
  <2>5. (Queued(s)' => Queued(s)) /\ (Receiving(s) => Receiving(s)')
    BY <1>1, <2>4 DEF Queued, Receiving
  <2> DEFINE wake == DeathWakes(t)
  <2>6. x0'[s] = IF s \in DOMAIN wake THEN wake[s] ELSE x0[s]
    BY <1>1, <1>3
       DEF TaskReturns, user_task_return_step, thread_user_wake_with_x0
  <2>7. DOMAIN wake = AbortedCallers(t) \cup Notified(t)
    BY DEF DeathWakes
  <2>8. CASE s \in Notified(t)
    <3>1. wake[s] = t /\ s = blockedSupervisor
      BY <2>8 DEF DeathWakes, Notified
    <3> QED BY <1>1, <2>4, <2>5, <2>6, <2>7, <2>8, <3>1 DEF Elsewhere
  <2>9. CASE s \notin Notified(t) /\ s \in AbortedCallers(t)
    <3>1. wake[s] = FAIL
      BY <2>9 DEF DeathWakes
    <3>2. Queued(s) /\ s # blockedSupervisor
      BY <1>1, <2>9 DEF AbortedCallers, Aborted, Queued, OneWaitPlace
    <3> QED BY <1>1, <2>4, <2>5, <2>6, <2>7, <2>9, <3>1, <3>2 DEF Elsewhere
  <2>10. CASE s \notin DOMAIN wake
    BY <1>1, <2>4, <2>5, <2>6, <2>10 DEF Elsewhere, Undisturbed
  <2> QED BY <2>7, <2>8, <2>9, <2>10
<1> QED BY <1>2, <1>3

(* The programs' calls and what follows them, one by one.                  *)
LEMMA ShippedElsewhere ==
  ASSUME KernelInv, NEW s \in UserSlots, ~(At("el0") /\ s = current),
         ShippedNext
  PROVE  Elsewhere(s)
<1>1. ASSUME NEW r, Return(r) PROVE Elsewhere(s)
  BY <1>1, NoWakeX0, ElsewhereSame DEF Return, Answer, QueuesSame
<1>2. ASSUME NEW r, NEW ok, Redirect(r, ok) PROVE Elsewhere(s)
  BY <1>2, NoWakeX0, ElsewhereSame DEF Redirect, QueuesSame
<1>3. ASSUME NEW ep, NEW len \in Lengths, NEW cap, NEW ovr, CallAdmitted(ep, len, TRUE),
             Request(ep, len, cap, ovr, TRUE), UNCHANGED supervisorVars
      PROVE  Elsewhere(s)
  <2>1. ep \in Eps /\ At("el0") /\ s # current
    BY <1>3 DEF CallAdmitted, Request, thread_user_trap_redirect
  <2> QED BY <1>3, <2>1, RequestElsewhere
<1>4. ASSUME NEW len \in Lengths, SYS_write(len, TRUE, TRUE) PROVE Elsewhere(s)
  BY <1>1, <1>3, <1>4
     DEF SYS_write, ipc_route_uart_write, Return
<1>5. ASSUME NEW ep, NEW len \in Lengths, NEW cap,
             SYS_ipc_call(ep, len, cap, TRUE, TRUE)
      PROVE  Elsewhere(s)
  BY <1>1, <1>3, <1>5 DEF SYS_ipc_call, ipc_syscall_call, Return
<1>6. CASE ProgramCall
  BY <1>1, <1>2, <1>4, <1>5, <1>6, RecvElsewhere, ReplyElsewhere,
     WaitElsewhere, RestartElsewhere
     DEF ProgramCall, SYS_yield, SYS_time_ticks, thread_user_fault
<1>7. CASE /\ SchedulerStep \/ thread_tick_irq
           /\ UNCHANGED <<ipcVars, supervisorVars>>
  <2>1. x0' = x0
    BY <1>7 DEF SchedulerStep, thread_resched_point_pick, thread_switch_to,
       thread_enter_el0, thread_entry_idle, thread_resched_point_idle,
       user_task_resume, el0_resume, thread_tick_irq, ChargeTick
  <2> QED BY <1>7, <2>1, ElsewhereSame DEF QueuesSame
<1> QED BY <1>6, <1>7, ReturnsElsewhere DEF ShippedNext

-----------------------------------------------------------------------------
(* The shipped programs on the kernel                                      *)

LEMMA ShippedIsKernel == ShippedNext => Next
<1>1. B \in Slots
  BY ThreadAssumption DEF B, UserSlots
<1>2. ProgramCall => Syscall \/ thread_user_fault(TRUE)
  BY <1>1 DEF ProgramCall, Syscall
<1> QED BY <1>2 DEF ShippedNext, Next, Internal

(* No program traps with an ELR outside the sandbox, and no other step     *)
(* raises that panic.                                                      *)
LEMMA ShippedPanic == ASSUME panic = "none", ShippedNext PROVE panic' # ElrPanic
<1>1. \A wake, k, u : WakePanic(wake, k, u) # ElrPanic
  BY DEF WakePanic, ElrPanic
<1>2. ASSUME NEW r, NEW wake, SyscallReturn(r, wake) PROVE panic' # ElrPanic
  BY <1>1, <1>2 DEF SyscallReturn
<1>3. ASSUME NEW r, NEW wake, thread_user_trap_redirect(r, TRUE, wake)
      PROVE  panic' # ElrPanic
  BY <1>1, <1>3 DEF thread_user_trap_redirect
<1>4. CASE ProgramCall
  BY <1>1, <1>2, <1>3, <1>4
     DEF ProgramCall, SYS_yield, SYS_time_ticks, SYS_write, SYS_ipc_call,
         SYS_ipc_recv, SYS_ipc_reply, SYS_supervise_wait, SYS_task_restart,
         thread_user_fault, Return, Redirect, Answer, Request,
         ipc_route_uart_write, ipc_syscall_call, ipc_syscall_recv,
         ipc_syscall_reply, supervisor_syscall_wait,
         supervisor_syscall_restart, thread_user_restart
<1>5. CASE TaskReturns
  <2>1. \/ panic' = "unknown user return reason"
        \/ \E wake, k, u : panic' = WakePanic(wake, k, u)
    BY <1>5, Zenon DEF TaskReturns, user_task_return_step
  <2> QED BY <1>1, <2>1 DEF ElrPanic
<1>6. CASE SchedulerStep \/ thread_tick_irq
  BY <1>6 DEF SchedulerStep, thread_resched_point_pick, thread_switch_to,
     thread_enter_el0, thread_entry_idle, thread_resched_point_idle,
     user_task_resume, el0_resume, thread_tick_irq, ChargeTick, ElrPanic
<1> QED BY <1>4, <1>5, <1>6 DEF ShippedNext

(* The programs are three.                                                 *)
LEMMA ProgramSlots ==
  /\ A \in UserSlots /\ B \in UserSlots /\ C \in UserSlots
  /\ A # B /\ A # C /\ B # C
  /\ A = THREAD_SLOT_TASK_A /\ B = THREAD_SLOT_TASK_B /\ C = THREAD_SLOT_TASK_C
BY ThreadAssumption, SystemAssumption DEF A, B, C

LEMMA EndpointIds == EP_UART \in EpIds /\ EP_BENCH \in EpIds
BY DEF EP_UART, EP_BENCH, EpIds, EP_NONE, EP_COUNT

(* A task that runs at EL0 waits nowhere; what the server received is a    *)
(* length or an error.                                                     *)
LEMMA AtWork ==
  ASSUME SysInv, At("el0")
  PROVE  /\ ~Queued(current)
         /\ \A t \in {B, C} : current = t /\ pc[t] = "got"
                               => x0[t] \in Lengths \cup {FAIL}
<1>1. ~Queued(current)
  BY WaitersAtEL0 DEF SysInv
<1> QED BY <1>1 DEF Queued, Receiving, SysInv, ReceivedOK

(* Every step of a program is one of the calls above or is its own affair. *)
LEMMA SysShipped ==
  ASSUME SysInv, SysNext
  PROVE  UNCHANGED vars \/ ShippedNext
<1> USE LengthsAssumption
<1>1. CASE TaskA
  <2>1. CASE task_a_start \/ task_a_poll \/ task_a_yield
    BY <2>1 DEF task_a_start, task_a_poll, task_a_yield, ShippedNext, ProgramCall
  <2>2. CASE task_a_write
    BY <2>2 DEF task_a_write, TaskAWrite, ShippedNext, ProgramCall
  <2>3. CASE bench_call
    BY <2>3, EndpointIds DEF bench_call, TaskAWrite, ShippedNext, ProgramCall
  <2>4. CASE bench_next
    BY <2>4 DEF bench_next
  <2> QED BY <1>1, <2>1, <2>2, <2>3, <2>4 DEF TaskA
<1>2. CASE TaskB
  <2>1. CASE uart_ready \/ uart_recv \/ uart_reply
    BY <2>1, EndpointIds
       DEF uart_ready, uart_recv, uart_reply, ShippedNext, ProgramCall
  <2>2. CASE uart_write
    <3>1. x0[B] \in Lengths
      BY <2>2, AtWork DEF uart_write, Goes
    <3> QED BY <2>2, <3>1 DEF uart_write, ShippedNext, ProgramCall
  <2>3. CASE uart_crash
    BY <2>3 DEF uart_crash, Goes, ShippedNext, ProgramCall
  <2>4. CASE uart_again
    BY <2>4 DEF uart_again
  <2> QED BY <1>2, <2>1, <2>2, <2>3, <2>4 DEF TaskB
<1>3. CASE TaskC
  <2>1. CASE echo_recv
    BY <2>1, EndpointIds DEF echo_recv, ShippedNext, ProgramCall
  <2>2. CASE echo_reply
    <3>1. x0[C] # FAIL => x0[C] \in Lengths
      BY <2>2, AtWork DEF echo_reply, Goes
    <3> QED BY <2>2, <3>1, EndpointIds DEF echo_reply, ShippedNext, ProgramCall
  <2>3. CASE sup_ready \/ sup_wait \/ sup_restarted
    BY <2>3 DEF sup_ready, sup_wait, sup_restarted, ShippedNext, ProgramCall
  <2>4. CASE sup_restart
    BY <2>4 DEF sup_restart, ShippedNext, ProgramCall
  <2> QED BY <1>3, <2>1, <2>2, <2>3, <2>4 DEF TaskC
<1>4. CASE KernelStep \/ Tick
  BY <1>4 DEF KernelStep, Tick, ShippedNext
<1> QED BY <1>1, <1>2, <1>3, <1>4 DEF SysNext, CpuStep

(* A program goes on only when it is its turn, and its turn is over with   *)
(* one step; a restart sets the server back.                               *)
LEMMA Turns ==
  ASSUME SysInv, [SysNext]_sysVars, NEW t \in {B, C}
  PROVE  \/ pc'[t] = pc[t] /\ UNCHANGED vars
         \/ pc'[t] = pc[t] /\ ShippedNext /\ ~(At("el0") /\ current = t)
         \/ At("el0") /\ current = t /\ (IF t = B THEN TaskB ELSE TaskC)
         \/ t = B /\ sup_restart /\ pc'[B] # "got"
              /\ ShippedNext /\ current = C
<1> USE ProgramSlots
<1>0. PcOK /\ t \in Programs
  BY DEF SysInv, Programs
<1>1. CASE UNCHANGED sysVars \/ KernelStep \/ Tick
  <2>1. pc' = pc
    BY <1>1 DEF sysVars, programVars, KernelStep, Tick
  <2>2. CASE UNCHANGED sysVars
    BY <2>1, <2>2 DEF sysVars
  <2>3. CASE KernelStep \/ Tick
    <3>1. ShippedNext
      BY <2>3 DEF KernelStep, Tick, ShippedNext
    <3>2. ~At("el0")
      BY <2>3 DEF KernelStep, TaskReturns, user_task_return_step,
         SchedulerStep, thread_resched_point_pick, thread_switch_to,
         thread_enter_el0, thread_entry_idle, thread_resched_point_idle,
         user_task_resume, el0_resume, Tick, thread_tick_irq, At, IrqOpen
    <3> QED BY <2>1, <3>1, <3>2
  <2> QED BY <1>1, <2>2, <2>3
<1>2. ASSUME NEW u \in Programs, NEW from, NEW to, Goes(u, from, to), u # t,
             UNCHANGED vars \/ ShippedNext
      PROVE  \/ pc'[t] = pc[t] /\ UNCHANGED vars
             \/ pc'[t] = pc[t] /\ ShippedNext /\ ~(At("el0") /\ current = t)
  BY <1>0, <1>2 DEF Goes, PcOK
<1>3. A \in Programs /\ B \in Programs /\ C \in Programs
  BY DEF Programs
<1>4. SysNext => UNCHANGED vars \/ ShippedNext
  BY SysShipped
<1>5. CASE TaskA
  BY <1>2, <1>3, <1>4, <1>5
     DEF TaskA, task_a_start, task_a_poll, task_a_write, task_a_yield,
         bench_call, bench_next, SysNext, CpuStep
<1>6. CASE TaskB
  <2>1. At("el0") /\ current = B
    BY <1>6 DEF TaskB, uart_ready, uart_recv, uart_write, uart_reply,
                uart_crash, uart_again, Goes
  <2>2. CASE t = B
    BY <1>6, <2>1, <2>2
  <2>3. CASE t = C
    BY <1>2, <1>3, <1>4, <1>6, <2>3
       DEF TaskB, uart_ready, uart_recv, uart_write, uart_reply, uart_crash,
           uart_again, SysNext, CpuStep
  <2> QED BY <2>2, <2>3
<1>7. CASE TaskC
  <2>1. At("el0") /\ current = C
    BY <1>7 DEF TaskC, echo_recv, echo_reply, sup_ready, sup_wait, sup_restart,
                sup_restarted, Goes
  <2>2. CASE t = C
    BY <1>7, <2>1, <2>2
  <2>3. CASE t = B /\ ~sup_restart
    BY <1>2, <1>3, <1>4, <1>7, <2>3
       DEF TaskC, echo_recv, echo_reply, sup_ready, sup_wait, sup_restarted,
           SysNext, CpuStep
  <2>4. CASE t = B /\ sup_restart
    <3>1. CASE x0[C] = B
      <4>1. pc'[B] = IF Restartable(B) THEN Entry(B) ELSE pc[B]
        BY <1>0, <1>3, <2>4, <3>1 DEF sup_restart, PcOK
      <4>2. Entry(B) # "got"
        BY DEF Entry
      <4>3. ShippedNext
        BY <2>4, <3>1 DEF sup_restart, ShippedNext, ProgramCall
      <4> QED BY <2>1, <2>4, <4>1, <4>2, <4>3
    <3>2. CASE x0[C] # B
      <4>1. pc'[B] = pc[B]
        BY <1>0, <1>3, <2>4, <3>2 DEF sup_restart, PcOK
      <4> QED BY <2>4, <3>2, <4>1 DEF sup_restart
    <3> QED BY <3>1, <3>2
  <2> QED BY <2>2, <2>3, <2>4
<1> QED BY <1>1, <1>5, <1>6, <1>7 DEF SysNext, CpuStep

(* The names of the wait places depend on ipc.c's variables alone.         *)
LEMMA StillReceived ==
  ASSUME SysInv, NEW t \in {B, C}, pc'[t] = pc[t], UNCHANGED vars
  PROVE  pc'[t] = "got" => Receiving(t)' \/ x0'[t] \in Lengths \cup {FAIL}
BY DEF SysInv, ReceivedOK, vars, ipcVars, threadVars, Receiving

(* What a receive leaves its caller with (ipc_syscall_recv).               *)
LEMMA RecvResult ==
  ASSUME KernelInv, NEW ep \in EpIds, NEW cap \in Lengths,
         SYS_ipc_recv(ep, cap, TRUE, TRUE), NEW t, t = current
  PROVE  Receiving(t)' \/ x0'[t] \in Lengths \cup {FAIL}
<1> USE DEF SYS_ipc_recv, ipc_syscall_recv
<1>1. /\ At("el0") /\ IpcTypeOK /\ current' = current
      /\ x0 \in [Slots -> RetVals \cup {ARG}]
  BY DEF KernelInv, TypeOK, ThreadTypeOK, SyscallReturn, Answer,
         thread_user_trap_redirect
<1>2. current \in Slots
  BY <1>1, WaitersAtEL0 DEF UserSlots
<1>3. ASSUME NEW r, SyscallReturn(r, NoWake) PROVE x0'[current] = r
  BY <1>1, <1>2, <1>3, NoWakeAllowed DEF SyscallReturn, thread_user_wake_with_x0
<1>4. CASE Serves(ep, TRUE) /\ pending[ep] # NONE
  <2>1. min_u64(pending[ep], cap) \in Lengths \cup {0}
    BY <1>1, <1>4, MinType DEF Serves, IpcTypeOK
  <2> QED BY <1>3, <1>4, <2>1, LengthsAssumption
<1>5. CASE RecvBlocks(ep, TRUE)
  <2>1. ep \in Eps /\ receiver' = [receiver EXCEPT ![ep] = current]
    BY <1>5 DEF RecvBlocks, Serves
  <2> QED BY <1>1, <2>1 DEF Receiving, IpcTypeOK
<1> QED BY <1>3, <1>4, <1>5 DEF Answer

LEMMA ReceivedStep ==
  ASSUME SysInv, [SysNext]_sysVars
  PROVE  ReceivedOK'
<1> SUFFICES ASSUME NEW t \in {B, C}, pc'[t] = "got"
             PROVE  Receiving(t)' \/ x0'[t] \in Lengths \cup {FAIL}
  BY DEF ReceivedOK, B, C
<1> USE ProgramSlots
<1>0. KernelInv /\ PcOK /\ B \in Programs /\ C \in Programs
  BY DEF SysInv, Programs
<1>1. CASE pc'[t] = pc[t] /\ ShippedNext /\ ~(At("el0") /\ current = t)
  <2>1. Receiving(t) \/ x0[t] \in Lengths \cup {FAIL}
    BY <1>1 DEF SysInv, ReceivedOK
  <2>2. Elsewhere(t)
    BY <1>0, <1>1, ShippedElsewhere
  <2>3. t # blockedSupervisor
    <3>1. t = blockedSupervisor => t = C /\ pc[C] = "noticed"
      BY <1>0, NoneIsNoTask DEF SysInv, NoticeInv, KernelInv, WaitersAreOwners
    <3> QED BY <1>1, <3>1
  <2> QED BY <2>1, <2>2, <2>3, LengthsAssumption DEF Elsewhere, Undisturbed
<1>2. CASE At("el0") /\ current = t /\ (IF t = B THEN TaskB ELSE TaskC)
  <2>1. CASE t = B /\ uart_recv
    <3>1. SYS_ipc_recv(EP_UART, IPC_MSG_SIZE, TRUE, TRUE)
      BY <2>1 DEF uart_recv
    <3> QED BY <1>0, <1>2, <3>1, EndpointIds, RecvResult, LengthsAssumption
  <2>2. CASE t = C /\ echo_recv
    <3>1. SYS_ipc_recv(EP_BENCH, IPC_MSG_SIZE, TRUE, TRUE)
      BY <2>2 DEF echo_recv
    <3> QED BY <1>0, <1>2, <3>1, EndpointIds, RecvResult, LengthsAssumption
  <2>3. CASE t = B /\ TaskB /\ ~uart_recv
    BY <1>0, <2>3 DEF PcOK, TaskB, uart_ready, uart_write, uart_reply,
                      uart_crash, uart_again, Goes
  <2>4. CASE t = C /\ TaskC /\ ~echo_recv
    <3>1. CASE sup_restart
      BY <1>0, <2>4, <3>1 DEF PcOK, sup_restart
    <3>2. CASE ~sup_restart
      BY <1>0, <2>4, <3>2 DEF PcOK, TaskC, echo_reply, sup_ready, sup_wait,
                              sup_restarted, Goes
    <3> QED BY <3>1, <3>2
  <2> QED BY <1>2, <2>1, <2>2, <2>3, <2>4
<1> QED BY <1>1, <1>2, Turns, StillReceived

(* Only the server faults, and no program exits.                           *)
LEMMA OnlyServerDies ==
  ASSUME SysInv, UNCHANGED vars \/ ShippedNext
  PROVE  At("trapped")' /\ reason'[current'] \in Deaths => current' = B
<1> USE DEF Deaths
<1>0. /\ reason \in [Slots -> Reasons]
      /\ At("el0") => current \in Slots
  BY WaitersAtEL0 DEF SysInv, KernelInv, TypeOK, ThreadTypeOK, UserSlots
<1>1. CASE UNCHANGED vars
  BY <1>1 DEF SysInv, NoticeInv, vars, threadVars, At
<1>2. ASSUME NEW r, NEW wake, SyscallReturn(r, wake) PROVE ~At("trapped")'
  BY <1>2 DEF SyscallReturn, At
<1>3. ASSUME NEW r \in {"YIELD", "IPC_BLOCK", "NOTIFY_BLOCK"}, NEW wake,
             thread_user_trap_redirect(r, TRUE, wake)
      PROVE  reason'[current'] \notin Deaths
  BY <1>0, <1>3 DEF thread_user_trap_redirect, At
<1>4. CASE ProgramCall
  <2>1. CASE thread_user_fault(TRUE) /\ current = B
    BY <2>1 DEF thread_user_fault, Redirect, thread_user_trap_redirect
  <2>2. CASE SYS_task_restart(B)
    BY <1>2, <2>2 DEF SYS_task_restart, supervisor_syscall_restart,
                      thread_user_restart, At
  <2>3. CASE ~SYS_task_restart(B) /\ ~(thread_user_fault(TRUE) /\ current = B)
    BY <1>2, <1>3, <1>4, <2>3
       DEF ProgramCall, SYS_yield, SYS_time_ticks, SYS_write, SYS_ipc_call,
           SYS_ipc_recv, SYS_ipc_reply, SYS_supervise_wait, Return, Redirect,
           Answer, Request, ipc_route_uart_write, ipc_syscall_call,
           ipc_syscall_recv, ipc_syscall_reply, supervisor_syscall_wait
  <2> QED BY <2>1, <2>2, <2>3
<1>5. CASE TaskReturns
  BY <1>5 DEF TaskReturns, user_task_return_step, At
<1>6. CASE SchedulerStep \/ thread_tick_irq
  BY <1>6 DEF SchedulerStep, thread_resched_point_pick, thread_switch_to,
     thread_enter_el0, thread_entry_idle, thread_resched_point_idle,
     user_task_resume, el0_resume, thread_tick_irq, ChargeTick, At, IrqOpen
<1> QED BY <1>1, <1>4, <1>5, <1>6 DEF ShippedNext

(* The notice slot changes when the supervisor asks and when a task dies   *)
(* (supervisor_syscall_wait, supervisor_note_task_death).                  *)
LEMMA NoticeSlot ==
  ASSUME KernelInv, Next
  PROVE  \/ UNCHANGED supervisorVars
         \/ \E elrOk \in BOOLEAN : SYS_supervise_wait(elrOk)
         \/ /\ TaskReturns /\ reason[current] \in Deaths
            /\ supervisor_note_task_death(current)
BY QueueSteps DEF QueuesSame, SYS_ipc_recv, SYS_ipc_reply

(* A supervisor that waits for a notice has asked for one.                 *)
LEMMA WaiterStep ==
  ASSUME SysInv, [SysNext]_sysVars, KernelInv'
  PROVE  blockedSupervisor' # NONE => pc'[C] = "noticed"
<1> USE ProgramSlots
<1> SUFFICES ASSUME blockedSupervisor' # NONE PROVE pc'[C] = "noticed"
  OBVIOUS
<1>0. KernelInv /\ PcOK /\ C \in Programs
  BY DEF SysInv, Programs
<1>1. blockedSupervisor' = C
  BY DEF KernelInv, WaitersAreOwners
<1>2. CASE blockedSupervisor = C /\ pc'[C] = pc[C]
  BY <1>2, NoneIsNoTask DEF SysInv, NoticeInv
<1>3. CASE UNCHANGED vars /\ pc'[C] = pc[C]
  BY <1>1, <1>2, <1>3 DEF vars, supervisorVars
<1>4. CASE pc'[C] = pc[C] /\ ShippedNext /\ ~(At("el0") /\ current = C)
  <2>1. Elsewhere(C)
    BY <1>0, <1>4, ShippedElsewhere
  <2> QED BY <1>1, <1>2, <1>4, <2>1 DEF Elsewhere
<1>5. CASE At("el0") /\ current = C /\ TaskC
  <2>1. blockedSupervisor # C
    BY <1>0, <1>5, WaitersAtEL0 DEF Queued
  <2>2. CASE sup_wait
    BY <1>0, <2>2 DEF sup_wait, Goes, PcOK
  <2>3. CASE ~sup_wait
    <3>1. blockedSupervisor' = blockedSupervisor
      BY <1>5, <2>3
         DEF TaskC, echo_recv, echo_reply, sup_ready, sup_restart,
             sup_restarted, SYS_ipc_recv, SYS_ipc_reply, SYS_write, Return,
             SYS_task_restart, supervisor_syscall_restart, supervisorVars, vars
    <3> QED BY <1>1, <2>1, <3>1
  <2> QED BY <2>2, <2>3
<1> QED BY <1>3, <1>4, <1>5, Turns

(* The notice of the server's death is not lost before the restart.        *)
LEMMA NoticeStep ==
  ASSUME SysInv, [SysNext]_sysVars, KernelInv', panic' = "none",
         ustate'[B] = "DEAD"
  PROVE  \/ pendingDeath' = B
         \/ pc'[C] = "noticed" /\ x0'[C] = B /\ ~Queued(C)'
<1> USE ProgramSlots
<1>0. /\ KernelInv /\ PcOK /\ C \in Programs /\ C \in Slots /\ B \in Slots
      /\ x0 \in [Slots -> RetVals \cup {ARG}]
      /\ ustate \in [Slots -> UStates]
  BY DEF SysInv, Programs, UserSlots, KernelInv, TypeOK, ThreadTypeOK
<1>1. CASE UNCHANGED vars /\ pc'[C] = pc[C]
  BY <1>1 DEF SysInv, NoticeInv, vars, threadVars, ipcVars, supervisorVars,
              Queued
<1>2. CASE pc'[C] = pc[C] /\ ShippedNext /\ ~(At("el0") /\ current = C)
  <2>0. Next /\ Elsewhere(C)
    BY <1>0, <1>2, ShippedElsewhere, ShippedIsKernel
  <2>1. CASE ustate[B] # "DEAD"
    <3>1. TaskReturns /\ B = current /\ reason[current] \in Deaths
      BY <1>0, <2>0, <2>1, DeathStep
    <3>2. /\ blockedSupervisor' = NONE
          /\ pendingDeath' = IF Notified(B) # {} THEN pendingDeath ELSE B
      BY <3>1 DEF TaskReturns, supervisor_note_task_death
    <3>3. CASE Notified(B) # {}
      <4>1. blockedSupervisor = C /\ C \in Notified(B)
        BY <1>0, <3>3, NoneIsNoTask DEF Notified, KernelInv, WaitersAreOwners
      <4>2. pc[C] = "noticed"
        BY <4>1, NoneIsNoTask DEF SysInv, NoticeInv
      <4>3. x0'[C] = B /\ ustate'[C] = "RUNNABLE"
        BY <1>0, <3>1, <4>1
           DEF TaskReturns, user_task_return_step, thread_user_wake_with_x0,
               DeathWakes
      <4>4. ~Queued(C)'
        <5>1. ~Blocking(C)'
          BY <3>1 DEF TaskReturns, user_task_return_step, Blocking
        <5> QED BY <4>3, <5>1 DEF KernelInv, BlockedIffQueued
      <4> QED BY <1>2, <4>2, <4>3, <4>4
    <3>4. CASE Notified(B) = {}
      BY <3>2, <3>4
    <3> QED BY <3>3, <3>4
  <2>2. CASE ustate[B] = "DEAD"
    <3>1. ~(TaskReturns /\ reason[current] \in Deaths)
      <4>1. TaskReturns /\ reason[current] \in Deaths
              => At("trapped") /\ current = B
        BY DEF TaskReturns, user_task_return_step, SysInv, NoticeInv
      <4>2. At("trapped") => ustate[current] = "RUNNING"
        BY <1>0 DEF KernelInv, SchedulerInv, InTask, OnUserTask, At
      <4> QED BY <2>2, <4>1, <4>2
    <3>2. pendingDeath' = pendingDeath
      <4>1. \A elrOk : SYS_supervise_wait(elrOk) => UNCHANGED supervisorVars
        BY <1>2 DEF SYS_supervise_wait, supervisor_syscall_wait, SyscallReturn,
                    thread_user_trap_redirect
      <4> QED BY <1>0, <2>0, <3>1, <4>1, NoticeSlot DEF supervisorVars
    <3>3. CASE pendingDeath = B
      BY <3>2, <3>3
    <3>4. CASE pc[C] = "noticed" /\ x0[C] = B /\ ~Queued(C)
      <4>1. C # blockedSupervisor
        BY <3>4 DEF Queued
      <4>2. x0'[C] = x0[C] /\ ~Queued(C)'
        BY <2>0, <3>4, <4>1 DEF Elsewhere, Undisturbed
      <4> QED BY <1>2, <3>4, <4>2
    <3> QED BY <2>2, <3>3, <3>4 DEF SysInv, NoticeInv
  <2> QED BY <2>1, <2>2
<1>3. CASE At("el0") /\ current = C /\ TaskC
  <2>0. SysNext /\ (UNCHANGED vars \/ Next)
    BY <1>3, SysShipped, ShippedIsKernel DEF SysNext, CpuStep
  <2>1. ustate[B] = "DEAD"
    <3>1. ustate[B] # "DEAD" /\ Next => TaskReturns
      BY <1>0, DeathStep
    <3>2. UNCHANGED vars => ustate'[B] = ustate[B]
      BY DEF vars, threadVars
    <3>3. ~TaskReturns
      BY <1>3 DEF TaskReturns, user_task_return_step, At
    <3> QED BY <2>0, <3>1, <3>2, <3>3
  <2>2. pendingDeath = B \/ (pc[C] = "noticed" /\ x0[C] = B)
    BY <2>1 DEF SysInv, NoticeInv
  <2>3. ~Queued(C)
    BY <1>0, <1>3, WaitersAtEL0
  <2>4. CASE sup_wait
    <3>1. /\ pc[C] = "wait" /\ pc'[C] = "noticed"
          /\ SyscallReturn(pendingDeath, NoWake) /\ blockedSupervisor' = blockedSupervisor
          /\ UNCHANGED ipcVars
      BY <1>0, <1>3, <2>2, <2>4, NoneIsNoTask
         DEF sup_wait, Goes, PcOK, SYS_supervise_wait, supervisor_syscall_wait
    <3>2. x0'[C] = B
      BY <1>0, <1>3, <2>2, <3>1, NoWakeAllowed
         DEF SyscallReturn, thread_user_wake_with_x0
    <3>3. ~Queued(C)'
      BY <2>3, <3>1 DEF Queued, ipcVars
    <3> QED BY <3>1, <3>2, <3>3
  <2>5. CASE ~sup_wait
    <3>1. UNCHANGED supervisorVars
      BY <1>3, <2>5
         DEF TaskC, echo_recv, echo_reply, sup_ready, sup_restart,
             sup_restarted, SYS_ipc_recv, SYS_ipc_reply, SYS_write, Return,
             SYS_task_restart, supervisor_syscall_restart, vars
    <3>2. pendingDeath = B
      <4>1. pc[C] = "noticed" /\ x0[C] = B => sup_restart
        BY <1>3, <2>5 DEF TaskC, echo_recv, echo_reply, sup_ready,
                          sup_restarted, Goes
      <4>2. sup_restart /\ x0[C] = B => FALSE
        <5>1. Restartable(B)
          BY <1>0, <2>1 DEF Restartable, KernelInv, SchedulerInv, SysInv
        <5>2. sup_restart /\ x0[C] = B => thread_user_restart(B)
          BY <1>3, <5>1
             DEF sup_restart, SYS_task_restart, supervisor_syscall_restart
        <5>3. thread_user_restart(B) => ustate'[B] = "RUNNABLE"
          BY <1>0 DEF thread_user_restart
        <5> QED BY <5>2, <5>3
      <4> QED BY <2>2, <4>1, <4>2
    <3> QED BY <3>1, <3>2 DEF supervisorVars
  <2> QED BY <2>4, <2>5
<1> QED BY <1>1, <1>2, <1>3, Turns

(* A step moves the programs' counters to other places in them.            *)
LEMMA PcStep == ASSUME PcOK, [SysNext]_sysVars PROVE PcOK'
<1>1. ASSUME NEW t, NEW from, NEW to, Goes(t, from, to) PROVE PcOK'
  BY <1>1 DEF Goes, PcOK
<1>2. CASE UNCHANGED sysVars \/ KernelStep \/ Tick
  BY <1>2 DEF PcOK, sysVars, programVars, KernelStep, Tick
<1>3. CASE TaskA
  BY <1>1, <1>3 DEF TaskA, task_a_start, task_a_poll, task_a_write,
                    task_a_yield, bench_call, bench_next
<1>4. CASE TaskB
  BY <1>1, <1>4 DEF TaskB, uart_ready, uart_recv, uart_write, uart_reply,
                    uart_crash, uart_again
<1>5. CASE TaskC
  <2>1. CASE sup_restart
    BY <2>1 DEF sup_restart, PcOK
  <2>2. CASE ~sup_restart
    BY <1>1, <1>5, <2>2 DEF TaskC, echo_recv, echo_reply, sup_ready, sup_wait,
                            sup_restarted
  <2> QED BY <2>1, <2>2
<1> QED BY <1>2, <1>3, <1>4, <1>5 DEF SysNext, CpuStep

LEMMA SysInvStep == SysInv /\ [SysNext]_sysVars => SysInv' /\ [Next]_vars
<1> SUFFICES ASSUME SysInv, [SysNext]_sysVars PROVE SysInv' /\ [Next]_vars
  OBVIOUS
<1>1. UNCHANGED vars \/ ShippedNext
  BY SysShipped DEF sysVars
<1>2. [Next]_vars
  BY <1>1, ShippedIsKernel
<1>3. KernelInv'
  BY <1>2, KernelInvStep DEF SysInv
<1>4. panic' = "none"
  <2>1. CASE UNCHANGED vars
    BY <2>1 DEF SysInv, vars, threadVars
  <2>2. CASE ShippedNext
    BY <1>3, <2>2, ShippedPanic DEF SysInv, KernelInv, NoInternalPanic
  <2> QED BY <1>1, <2>1, <2>2
<1>5. PcOK'
  BY PcStep DEF SysInv
<1>6. NoticeInv'
  BY <1>1, <1>3, <1>4, OnlyServerDies, WaiterStep, NoticeStep DEF NoticeInv
<1> QED BY <1>2, <1>3, <1>4, <1>5, <1>6, ReceivedStep DEF SysInv

LEMMA SysInvInit == SysInit => SysInv
<1> SUFFICES ASSUME SysInit PROVE SysInv
  OBVIOUS
<1>1. pc = [t \in Programs |-> Entry(t)]
  BY DEF SysInit, Programs
<1>2. PcOK
  BY <1>1 DEF PcOK
<1>3. KernelInv /\ panic = "none"
  BY KernelInvInit DEF SysInit, Init, ThreadInit
<1>4. \A t \in {B, C} : pc[t] # "got"
  BY <1>1 DEF Programs, Entry
<1>5. NoticeInv
  <2>1. phase = "switch" /\ blockedSupervisor = NONE
    BY DEF SysInit, Init, ThreadInit, SupervisorInit
  <2>2. ustate[B] = "RUNNABLE"
    BY ProgramSlots DEF SysInit, Init, ThreadInit, UserSlots
  <2> QED BY <2>1, <2>2 DEF NoticeInv, At
<1> QED BY <1>2, <1>3, <1>4, <1>5 DEF SysInv, ReceivedOK

(* The shipped system is one of the kernel's: whatever is proved of the    *)
(* kernel under arbitrary programs holds of it.                            *)
THEOREM SystemIsKernel == SysSpec => Spec
<1>1. SysInit => Init
  BY DEF SysInit
<1> QED BY <1>1, SysInvInit, SysInvStep, PTL DEF SysSpec, Spec

LEMMA SysInvariant == SysSpec => []SysInv
BY SysInvInit, SysInvStep, PTL DEF SysSpec

(* The shipped programs never panic the kernel: the one fault among them   *)
(* (brk #0 of the server) is taken inside the sandbox.                     *)
THEOREM SystemNeverPanics == SysSpec => []FaultKillsOnlyTheTask
<1>1. SysInv => FaultKillsOnlyTheTask
  BY DEF SysInv, FaultKillsOnlyTheTask
<1> QED BY <1>1, SysInvariant, PTL

(* In the shipped system a dead server is never forgotten: the notice of   *)
(* its death is in the slot, or in the hands of a supervisor that is awake *)
(* and about to act on it (supervisor.c).                                  *)
THEOREM SystemNoticeKept == SysSpec => []DeathNoticeKept
<1>1. SysInv => DeathNoticeKept
  BY ProgramSlots
     DEF SysInv, NoticeInv, DeathNoticeKept, KernelInv, BlockedIffQueued
<1> QED BY <1>1, SysInvariant, PTL

-----------------------------------------------------------------------------
(* The write service                                                       *)

(* Task A has a write in progress, or its result is still to be read.      *)
Writing ==
  \/ pc[A] = "written"
  \/ pc[A] = "returned" /\ ~Finished /\ Script[section].op = "write"

Length == IF pc[A] = "written" THEN TASK_A_MSG ELSE BENCH_PAYLOAD

(* A write of A on its way: queued, in the server's hands, or printed.     *)
OnItsWay ==
  \/ /\ pc[B] \notin {"got", "written"}
     /\ pending[EP_UART] = Length /\ printed = 0
  \/ /\ pc[B] = "got" /\ ~Queued(B) /\ x0[B] = Length
     /\ pending[EP_UART] = NONE /\ printed = 0
  \/ /\ pc[B] = "written"
     /\ pending[EP_UART] = NONE /\ printed = Length

(* The UART endpoint, the client's place and the server's in their         *)
(* programs, and the bytes that were printed.                              *)
WriteInv ==
  /\ caller[EP_UART] \in {NONE, A}
  /\ receiver[EP_UART] # NONE =>
       /\ caller[EP_UART] = NONE
       /\ pc[B] = "got" /\ recvCap[EP_UART] = IPC_MSG_SIZE
  /\ caller[EP_UART] = A => Writing /\ override[EP_UART] = Length /\ OnItsWay
  /\ caller[EP_UART] = NONE =>
       /\ pending[EP_UART] = NONE
       /\ pc[B] # "written"
       /\ pc[B] = "got" => receiver[EP_UART] # NONE
       /\ Writing => ~Queued(A) /\ x0[A] = Length /\ printed = Length

(* The server dies only when it has replied.                               *)
CrashInv ==
  /\ pc[B] = "served" => At("el0") /\ current = B /\ caller[EP_UART] = NONE
  /\ At("trapped") /\ reason[current] \in Deaths
       => pc[B] = "crashed" /\ caller[EP_UART] = NONE
  /\ ustate[B] = "DEAD" => pc[B] = "crashed"

ServiceInv == SysInv /\ WriteInv /\ CrashInv

UartSame ==
  /\ caller'[EP_UART] = caller[EP_UART]
  /\ override'[EP_UART] = override[EP_UART]
  /\ receiver'[EP_UART] = receiver[EP_UART]
  /\ recvCap'[EP_UART] = recvCap[EP_UART]
  /\ pending'[EP_UART] = pending[EP_UART]

(* A task that waits nowhere and is not dead keeps its x0 and waits        *)
(* nowhere after another task's step.                                      *)
LEMMA Awake ==
  ASSUME NEW s, Elsewhere(s), ~Queued(s), s = B => ustate[s] # "DEAD"
  PROVE  x0'[s] = x0[s] /\ ~Queued(s)'
BY DEF Elsewhere, Undisturbed, Queued

(* Steps that touch neither the endpoint nor the two programs.             *)
LEMMA WriteSame ==
  ASSUME WriteInv, UartSame, pc'[A] = pc[A], pc'[B] = pc[B],
         UNCHANGED <<section, printed>>,
         ~Queued(A) => x0'[A] = x0[A] /\ ~Queued(A)',
         pc[B] = "got" /\ ~Queued(B) => x0'[B] = x0[B] /\ ~Queued(B)'
  PROVE  WriteInv'
BY DEF WriteInv, UartSame, Writing, Length, OnItsWay, Finished

(* One step of a program moves that program alone.                         *)
LEMMA Moves ==
  ASSUME PcOK, NEW t \in Programs, NEW from, NEW to, Goes(t, from, to)
  PROVE  /\ pc'[t] = to /\ pc[t] = from /\ At("el0") /\ current = t
         /\ \A u \in Programs : u # t => pc'[u] = pc[u]
BY DEF Goes, PcOK

LEMMA IsProgram == A \in Programs /\ B \in Programs /\ C \in Programs
BY DEF Programs

(* A death of the server clears nothing, as nobody has a call in flight.   *)
LEMMA QuietDeath ==
  ASSUME ServiceInv, TaskReturns
  PROVE  UNCHANGED ipcVars
<1> USE ProgramSlots
<1>1. /\ IpcTypeOK /\ At("trapped") /\ KernelInv
  BY DEF ServiceInv, SysInv, KernelInv, TypeOK, TaskReturns,
         user_task_return_step
<1>2. CASE reason[current] \in Deaths
  <2>1. reason[current] \notin Blocks
    BY <1>2 DEF Deaths, Blocks
  <2>2. ~Queued(current) /\ current = B /\ caller[EP_UART] = NONE
    BY <1>1, <1>2, <2>1, WaitersAtDeath
       DEF ServiceInv, SysInv, NoticeInv, CrashInv
  <2>3. Aborted(current) = {} /\ Forgotten(current) = {}
    <3>1. \A ep \in Eps : owner_slot(ep) = B => ep = EP_UART
      BY NoneIsNoTask DEF owner_slot
    <3> QED BY <2>2, <3>1 DEF Aborted, Forgotten, Queued
  <2>4. {ep \in Eps : receiver[ep] = current} = {}
    BY <2>2 DEF Queued
  <2>5. ipc_handle_task_death(current)
    BY <1>2 DEF TaskReturns
  <2> QED BY <1>1, <2>3, <2>4, <2>5
          DEF ipc_handle_task_death, IpcTypeOK, ipcVars
<1>3. CASE reason[current] \notin Deaths
  BY <1>3 DEF TaskReturns
<1> QED BY <1>2, <1>3

(* The kernel's own steps.                                                 *)
LEMMA WriteKernel ==
  ASSUME ServiceInv, KernelStep \/ Tick
  PROVE  WriteInv'
<1> USE ProgramSlots
<1>1. ipcVars' = ipcVars
  BY QuietDeath DEF KernelStep, Tick
<1>2. pc' = pc /\ UNCHANGED <<section, printed>>
  BY DEF KernelStep, Tick, programVars
<1>3. ShippedNext /\ ~At("el0")
  BY DEF KernelStep, TaskReturns, user_task_return_step, SchedulerStep,
     thread_resched_point_pick, thread_switch_to, thread_enter_el0,
     thread_entry_idle, thread_resched_point_idle, user_task_resume,
     el0_resume, Tick, thread_tick_irq, At, IrqOpen, ShippedNext
<1>4. Elsewhere(A) /\ Elsewhere(B)
  BY <1>3, ShippedElsewhere DEF ServiceInv, SysInv
<1>5. UartSame
  BY <1>1 DEF UartSame, ipcVars
<1>6. ~Queued(A) => x0'[A] = x0[A] /\ ~Queued(A)'
  BY <1>4, Awake
<1>7. pc[B] = "got" /\ ~Queued(B) => x0'[B] = x0[B] /\ ~Queued(B)'
  BY <1>4, Awake DEF ServiceInv, CrashInv
<1> QED BY <1>2, <1>5, <1>6, <1>7, WriteSame DEF ServiceInv

(* The endpoints are two.                                                  *)
LEMMA TwoEndpoints ==
  /\ EP_UART \in Eps /\ EP_BENCH \in Eps /\ EP_UART # EP_BENCH
  /\ owner_slot(EP_UART) = B
BY DEF EP_UART, EP_BENCH, Eps, EpIds, EP_NONE, EP_COUNT, owner_slot, B

(* Calls on the bench endpoint leave the UART endpoint alone.              *)
LEMMA BenchApart ==
  ASSUME IpcTypeOK, NEW len, NEW cap,
         \/ SYS_ipc_call(EP_BENCH, len, cap, TRUE, TRUE)
         \/ SYS_ipc_recv(EP_BENCH, cap, TRUE, TRUE)
         \/ SYS_ipc_reply(EP_BENCH, len, TRUE)
  PROVE  UartSame
<1> USE TwoEndpoints DEF IpcTypeOK
<1>1. UNCHANGED ipcVars => UartSame
  BY DEF ipcVars, UartSame
<1>2. CASE SYS_ipc_call(EP_BENCH, len, cap, TRUE, TRUE)
  <2>1. CASE Request(EP_BENCH, len, cap, 0, TRUE)
    <3>1. /\ caller' = [caller EXCEPT ![EP_BENCH] = current]
          /\ override' = [override EXCEPT ![EP_BENCH] = 0]
          /\ \/ receiver' = [receiver EXCEPT ![EP_BENCH] = NONE]
             \/ UNCHANGED receiver
          /\ recvCap' = [recvCap EXCEPT ![EP_BENCH] = 0] \/ UNCHANGED recvCap
          /\ pending' = [pending EXCEPT ![EP_BENCH] = len] \/ UNCHANGED pending
      BY <2>1 DEF Request
    <3> QED BY <3>1 DEF UartSame
  <2> QED BY <1>1, <1>2, <2>1 DEF SYS_ipc_call, ipc_syscall_call, Answer
<1>3. CASE SYS_ipc_recv(EP_BENCH, cap, TRUE, TRUE)
  BY <1>1, <1>3 DEF SYS_ipc_recv, ipc_syscall_recv, Answer, UartSame
<1>4. CASE SYS_ipc_reply(EP_BENCH, len, TRUE)
  BY <1>1, <1>4 DEF SYS_ipc_reply, ipc_syscall_reply, Answer, UartSame
<1> QED BY <1>2, <1>3, <1>4

(* The endpoints are left alone by the writes of B and C, which go         *)
(* straight to the UART.                                                   *)
LEMMA DirectWrite ==
  ASSUME NEW len, SYS_write(len, TRUE, TRUE), current \in {B, C}
  PROVE  SyscallReturn(len, NoWake) /\ UNCHANGED ipcVars
BY DEF SYS_write, RoutesWrite, Return, Answer, B, C

(* Task C, on the bench endpoint or as supervisor.  A restart finds the    *)
(* server crashed and sets it back to where it has no request in hand.     *)
LEMMA WriteC ==
  ASSUME ServiceInv, SysNext, TaskC
  PROVE  WriteInv'
<1> USE ProgramSlots, IsProgram
<1>0. /\ PcOK /\ KernelInv /\ IpcTypeOK
      /\ UNCHANGED vars \/ ShippedNext
  BY SysShipped DEF ServiceInv, SysInv, KernelInv, TypeOK
<1>1. /\ At("el0") /\ current = C /\ UNCHANGED <<section, printed>>
  BY DEF TaskC, echo_recv, echo_reply, sup_ready, sup_wait, sup_restart,
         sup_restarted, Goes
<1>2. UartSame
  <2>1. UNCHANGED ipcVars => UartSame
    BY DEF ipcVars, UartSame
  <2>2. UNCHANGED vars => UNCHANGED ipcVars
    BY DEF vars
  <2>3. CASE echo_recv \/ echo_reply
    BY <1>0, <2>1, <2>2, <2>3, BenchApart DEF echo_recv, echo_reply
  <2>4. CASE sup_ready \/ sup_restarted
    BY <1>1, <2>1, <2>2, <2>4, DirectWrite DEF sup_ready, sup_restarted
  <2>5. CASE sup_wait \/ sup_restart
    BY <2>1, <2>2, <2>5
       DEF sup_wait, sup_restart, SYS_supervise_wait, SYS_task_restart
  <2> QED BY <2>3, <2>4, <2>5 DEF TaskC
<1>3. ~Queued(A) => x0'[A] = x0[A] /\ ~Queued(A)'
  <2>1. CASE UNCHANGED vars
    BY <2>1 DEF vars, threadVars, ipcVars, supervisorVars, Queued
  <2>2. CASE ShippedNext
    BY <1>0, <1>1, <2>2, ShippedElsewhere, Awake
  <2> QED BY <1>0, <2>1, <2>2
<1>4. pc[B] = "got" /\ ~Queued(B) => x0'[B] = x0[B] /\ ~Queued(B)'
  <2>1. CASE UNCHANGED vars
    BY <2>1 DEF vars, threadVars, ipcVars, supervisorVars, Queued
  <2>2. CASE ShippedNext
    BY <1>0, <1>1, <2>2, ShippedElsewhere, Awake DEF ServiceInv, CrashInv
  <2> QED BY <1>0, <2>1, <2>2
<1>5. CASE ~sup_restart \/ x0[C] # B \/ ~Restartable(B)
  <2>1. pc'[A] = pc[A] /\ pc'[B] = pc[B]
    <3>1. CASE sup_restart
      BY <1>0, <1>5, <3>1 DEF sup_restart, PcOK
    <3>2. CASE ~sup_restart
      BY <1>0, <3>2, Moves DEF TaskC, echo_recv, echo_reply, sup_ready,
                               sup_wait, sup_restarted
    <3> QED BY <3>1, <3>2
  <2> QED BY <1>1, <1>2, <1>3, <1>4, <2>1, WriteSame DEF ServiceInv
<1>6. CASE sup_restart /\ x0[C] = B /\ Restartable(B)
  <2>1. pc'[A] = pc[A] /\ pc'[B] = Entry(B)
    BY <1>0, <1>6 DEF sup_restart, PcOK
  <2>2. Entry(B) \notin {"got", "written"}
    BY DEF Entry
  <2>3. pc[B] = "crashed"
    BY <1>6 DEF Restartable, ServiceInv, CrashInv
  <2> QED BY <1>1, <1>2, <1>3, <2>1, <2>2, <2>3
          DEF ServiceInv, WriteInv, UartSame, Writing, Length, OnItsWay,
              Finished
<1> QED BY <1>5, <1>6

(* Task B.  What it receives is the whole of the message of A, it prints   *)
(* it once, and its reply gives A the length of it.                        *)
LEMMA WriteB ==
  ASSUME ServiceInv, SysNext, TaskB, KernelInv', panic' = "none"
  PROVE  WriteInv'
<1> USE ProgramSlots, IsProgram, TwoEndpoints
<1>0. /\ PcOK /\ KernelInv /\ IpcTypeOK /\ WriteInv
      /\ x0 \in [Slots -> RetVals \cup {ARG}]
      /\ B \in Slots /\ A \in Slots
      /\ UNCHANGED vars \/ ShippedNext
  BY SysShipped DEF ServiceInv, SysInv, KernelInv, TypeOK, ThreadTypeOK,
                    UserSlots
<1>1. /\ At("el0") /\ current = B /\ UNCHANGED section
      /\ pc'[A] = pc[A]
      /\ ~Queued(B)
  <2>1. At("el0") /\ current = B /\ UNCHANGED section /\ pc'[A] = pc[A]
    BY <1>0, Moves DEF TaskB, uart_ready, uart_recv, uart_write, uart_reply,
                       uart_crash, uart_again
  <2> QED BY <1>0, <2>1, WaitersAtEL0
<1>2. receiver[EP_UART] = NONE
  BY <1>0, <1>1 DEF Queued, KernelInv, WaitersAreOwners
<1>3. ~Queued(A) => x0'[A] = x0[A] /\ ~Queued(A)'
  <2>1. CASE UNCHANGED vars
    BY <2>1 DEF vars, threadVars, ipcVars, supervisorVars, Queued
  <2>2. CASE ShippedNext
    BY <1>0, <1>1, <2>2, ShippedElsewhere, Awake
  <2> QED BY <1>0, <2>1, <2>2
<1>4. /\ Writing' <=> Writing
      /\ Length' = Length
  BY <1>1 DEF Writing, Length, Finished
<1> USE DEF WriteInv
<1>5. CASE uart_recv
  <2>0. pc[B] = "recv" /\ pc'[B] = "got" /\ UNCHANGED printed
    BY <1>0, <1>5, Moves DEF uart_recv
  <2>1. SYS_ipc_recv(EP_UART, IPC_MSG_SIZE, TRUE, TRUE)
    BY <1>5 DEF uart_recv
  <2>2. Serves(EP_UART, TRUE)
    BY <1>1 DEF Serves
  <2>3. CASE caller[EP_UART] = A
    <3>1. /\ Writing /\ override[EP_UART] = Length
          /\ pending[EP_UART] = Length /\ printed = 0
      BY <1>0, <2>0, <2>3 DEF OnItsWay
    <3>2. Length \in 1 .. IPC_MSG_SIZE /\ Length # NONE
      BY LengthsAssumption, IpcAssumption
         DEF Length, TASK_A_MSG, BENCH_PAYLOAD, NONE
    <3>3. /\ pending' = [pending EXCEPT ![EP_UART] = NONE]
          /\ UNCHANGED <<caller, override, receiver, recvCap>>
          /\ SyscallReturn(min_u64(Length, IPC_MSG_SIZE), NoWake)
      BY <2>1, <2>2, <3>1, <3>2 DEF SYS_ipc_recv, ipc_syscall_recv
    <3>4. min_u64(Length, IPC_MSG_SIZE) = Length
      BY <3>2, IpcAssumption DEF min_u64
    <3>5. x0'[B] = Length
      BY <1>0, <1>1, <3>3, <3>4, NoWakeAllowed
         DEF SyscallReturn, thread_user_wake_with_x0
    <3>6. ~Queued(B)'
      BY <1>1, <2>1, <3>3 DEF Queued, SYS_ipc_recv, supervisorVars
    <3>7. pending'[EP_UART] = NONE
      BY <1>0, <3>3 DEF IpcTypeOK
    <3> QED BY <1>2, <1>4, <2>0, <2>3, <3>1, <3>3, <3>5, <3>6, <3>7, NoneIsNoTask
            DEF OnItsWay
  <2>4. CASE caller[EP_UART] = NONE
    <3>1. pending[EP_UART] = NONE
      BY <1>0, <2>4
    <3>2. /\ receiver' = [receiver EXCEPT ![EP_UART] = current]
          /\ recvCap' = [recvCap EXCEPT ![EP_UART] = IPC_MSG_SIZE]
          /\ UNCHANGED <<caller, pending>>
      BY <1>2, <2>1, <2>2, <3>1
         DEF SYS_ipc_recv, ipc_syscall_recv, RecvBlocks
    <3>3. receiver'[EP_UART] = B /\ recvCap'[EP_UART] = IPC_MSG_SIZE
      BY <1>0, <1>1, <3>2 DEF IpcTypeOK
    <3> QED BY <1>0, <1>3, <1>4, <2>0, <2>4, <3>1, <3>2, <3>3, NoneIsNoTask
  <2> QED BY <1>0, <2>3, <2>4
<1>6. CASE uart_write
  <2>0. pc[B] = "got" /\ pc'[B] = "written" /\ printed' = printed + x0[B]
    BY <1>0, <1>6, Moves DEF uart_write
  <2>1. UNCHANGED ipcVars
    BY <1>1, <1>6, DirectWrite DEF uart_write
  <2>2. caller[EP_UART] = A
    BY <1>0, <1>2, <2>0
  <2>3. /\ x0[B] = Length /\ printed = 0 /\ pending[EP_UART] = NONE
        /\ Writing /\ override[EP_UART] = Length
    BY <1>0, <2>0, <2>2 DEF OnItsWay
  <2>4. printed' = Length
    BY <2>0, <2>3 DEF Length, TASK_A_MSG, BENCH_PAYLOAD
  <2> QED BY <1>2, <1>4, <2>0, <2>1, <2>2, <2>3, <2>4, NoneIsNoTask
          DEF OnItsWay, ipcVars
<1>7. CASE uart_reply
  <2>0. pc[B] = "written" /\ pc'[B] = "served" /\ UNCHANGED printed
    BY <1>0, <1>7, Moves DEF uart_reply
  <2>1. /\ caller[EP_UART] = A /\ pending[EP_UART] = NONE
        /\ Writing /\ override[EP_UART] = Length /\ printed = Length
    BY <1>0, <2>0 DEF OnItsWay
  <2>2. ReplyAdmitted(EP_UART, 0, TRUE)
    BY <1>1, <2>1, IpcAssumption, NoneIsNoTask DEF ReplyAdmitted, Serves
  <2>3. /\ caller' = [caller EXCEPT ![EP_UART] = NONE]
        /\ UNCHANGED <<receiver, recvCap, pending>>
        /\ SyscallReturn(0, [s \in {caller[EP_UART]} |-> ReplyResult(EP_UART, 0)])
        /\ UNCHANGED supervisorVars
    BY <1>7, <2>2 DEF uart_reply, SYS_ipc_reply, ipc_syscall_reply
  <2>4. ReplyResult(EP_UART, 0) = Length
    BY <2>1 DEF ReplyResult, Length, TASK_A_MSG, BENCH_PAYLOAD
  <2>5. x0'[A] = Length
    BY <1>0, <2>1, <2>3, <2>4 DEF SyscallReturn, thread_user_wake_with_x0
  <2>6. ~Queued(A)'
    BY <1>0, <2>1, <2>3, NoneIsNoTask
       DEF Queued, KernelInv, OneWaitPlace, supervisorVars, IpcTypeOK
  <2>7. caller'[EP_UART] = NONE
    BY <1>0, <2>3 DEF IpcTypeOK
  <2> QED BY <1>2, <1>4, <2>0, <2>1, <2>3, <2>5, <2>6, <2>7, NoneIsNoTask
<1>8. CASE uart_ready \/ uart_crash \/ uart_again
  <2>1. UNCHANGED ipcVars /\ UNCHANGED printed
    BY <1>1, <1>8, DirectWrite
       DEF uart_ready, uart_crash, uart_again, thread_user_fault, Redirect, vars
  <2>2. pc[B] # "written" /\ pc'[B] \notin {"got", "written"}
    <3>1. CASE uart_ready
      BY <1>0, <3>1, Moves DEF uart_ready
    <3>2. CASE uart_crash
      BY <1>0, <3>2, Moves DEF uart_crash
    <3>3. CASE uart_again
      <4>1. CASE pc[B] = "got"
        BY <1>0, <3>3, <4>1, Moves DEF uart_again
      <4>2. CASE pc[B] # "got"
        BY <1>0, <3>3, <4>2, Moves DEF uart_again
      <4> QED BY <4>1, <4>2
    <3> QED BY <1>8, <3>1, <3>2, <3>3
  <2>3. caller[EP_UART] = A => pc[B] # "got"
    <3>1. CASE uart_again /\ pc[B] = "got"
      <4>1. x0[B] = FAIL
        BY <3>1 DEF uart_again
      <4>2. Length # FAIL
        BY DEF Length, TASK_A_MSG, BENCH_PAYLOAD, FAIL
      <4> QED BY <1>0, <3>1, <4>1, <4>2 DEF OnItsWay
    <3>2. CASE uart_ready \/ uart_crash
      BY <3>2 DEF uart_ready, uart_crash, Goes
    <3> QED BY <1>8, <3>1, <3>2
  <2> QED BY <1>0, <1>2, <1>3, <1>4, <2>1, <2>2, <2>3, NoneIsNoTask
          DEF OnItsWay, ipcVars
<1> QED BY <1>5, <1>6, <1>7, <1>8 DEF TaskB

(* A write of A's program: admitted whatever has happened before, and      *)
(* handed to the server, queued, or printed within the call.               *)
LEMMA WriteA ==
  ASSUME ServiceInv, At("el0"), current = A, KernelInv',
         NEW len, TaskAWrite(len),
         Writing', Length' = len, pc'[B] = pc[B], ShippedNext,
         len \in {TASK_A_MSG, BENCH_PAYLOAD}
  PROVE  WriteInv'
<1> USE ProgramSlots, TwoEndpoints
<1>0. /\ KernelInv /\ IpcTypeOK /\ WriteInv
      /\ x0 \in [Slots -> RetVals \cup {ARG}]
      /\ A \in Slots /\ B \in Slots
      /\ ~Queued(A)
  BY WaitersAtEL0 DEF ServiceInv, SysInv, KernelInv, TypeOK, ThreadTypeOK,
                      UserSlots
<1>1. /\ caller[EP_UART] = NONE /\ pending[EP_UART] = NONE
      /\ pc[B] # "written"
      /\ pc[B] = "got" <=> receiver[EP_UART] # NONE
  BY <1>0 DEF WriteInv, Queued
<1>2. len \in 1 .. IPC_MSG_SIZE /\ len # NONE
  BY LengthsAssumption, IpcAssumption DEF TASK_A_MSG, BENCH_PAYLOAD, NONE
<1>3. CASE RoutesWrite
  <2>1. CallAdmitted(EP_UART, len, TRUE)
    BY <1>1, <1>2, IpcAssumption, NoneIsNoTask DEF CallAdmitted
  <2>2. Request(EP_UART, len, 0, len, TRUE) /\ printed' = 0
    BY <1>3, <2>1 DEF TaskAWrite, SYS_write, ipc_route_uart_write
  <2>3. /\ caller'[EP_UART] = A /\ override'[EP_UART] = len
        /\ receiver'[EP_UART] = NONE
    BY <1>0, <2>2 DEF Request, IpcTypeOK
  <2>4. CASE receiver[EP_UART] = NONE
    <3>1. pending'[EP_UART] = len
      BY <1>0, <2>2, <2>4 DEF Request, IpcTypeOK
    <3> QED BY <1>1, <2>2, <2>3, <2>4, <3>1, NoneIsNoTask
            DEF WriteInv, OnItsWay
  <2>5. CASE receiver[EP_UART] # NONE
    <3>1. receiver[EP_UART] = B /\ recvCap[EP_UART] = IPC_MSG_SIZE
      BY <1>0, <2>5 DEF KernelInv, WaitersAreOwners, WriteInv
    <3>2. min_u64(len, IPC_MSG_SIZE) = len
      BY <1>2, IpcAssumption DEF min_u64
    <3>3. x0'[B] = len /\ ustate'[B] = "RUNNABLE"
      BY <1>0, <2>2, <3>1, <3>2
         DEF Request, thread_user_trap_redirect, thread_user_wake_with_x0
    <3>4. ~Queued(B)'
      <4>1. /\ \A ep \in Eps : caller[ep] # B /\ (receiver[ep] = B => ep = EP_UART)
            /\ blockedSupervisor # B
        BY <1>0, <3>1, NoneIsNoTask
           DEF KernelInv, OneWaitPlace, WaitersAreOwners
      <4>2. /\ caller' = [caller EXCEPT ![EP_UART] = A]
            /\ receiver' = [receiver EXCEPT ![EP_UART] = NONE]
            /\ blockedSupervisor' = blockedSupervisor
        BY <1>3, <2>2, <2>5
           DEF Request, TaskAWrite, SYS_write, supervisorVars
      <4> QED BY <1>0, <4>1, <4>2, NoneIsNoTask DEF Queued, IpcTypeOK
    <3>5. pending'[EP_UART] = NONE
      BY <1>1, <2>2, <2>5 DEF Request
    <3> QED BY <1>1, <2>2, <2>3, <2>5, <3>3, <3>4, <3>5, NoneIsNoTask
            DEF WriteInv, OnItsWay
  <2> QED BY <2>4, <2>5
<1>4. CASE ~RoutesWrite
  <2>1. /\ SyscallReturn(len, NoWake) /\ UNCHANGED <<ipcVars, supervisorVars>>
        /\ printed' = len
    BY <1>4 DEF TaskAWrite, SYS_write, Return, Answer
  <2>2. x0'[A] = len
    BY <1>0, <2>1, NoWakeAllowed DEF SyscallReturn, thread_user_wake_with_x0
  <2>3. ~Queued(A)'
    BY <1>0, <2>1 DEF Queued, ipcVars, supervisorVars
  <2> QED BY <1>0, <1>1, <2>1, <2>2, <2>3, NoneIsNoTask
          DEF WriteInv, ipcVars
<1> QED BY <1>3, <1>4

(* Task A: it writes only when it has the result of its last write.        *)
LEMMA WriteTaskA ==
  ASSUME ServiceInv, SysNext, TaskA, KernelInv'
  PROVE  WriteInv'
<1> USE ProgramSlots, IsProgram, TwoEndpoints
<1>0. /\ PcOK /\ KernelInv /\ IpcTypeOK /\ WriteInv
      /\ UNCHANGED vars \/ ShippedNext
  BY SysShipped DEF ServiceInv, SysInv, KernelInv, TypeOK
<1>1. At("el0") /\ current = A /\ pc'[B] = pc[B]
  BY <1>0, Moves DEF TaskA, task_a_start, task_a_poll, task_a_write,
                     task_a_yield, bench_call, bench_next
<1>2. ~Queued(A)
  BY <1>0, <1>1, WaitersAtEL0
<1>3. pc[B] = "got" /\ ~Queued(B) => x0'[B] = x0[B] /\ ~Queued(B)'
  <2>1. CASE UNCHANGED vars
    BY <2>1 DEF vars, threadVars, ipcVars, supervisorVars, Queued
  <2>2. CASE ShippedNext
    BY <1>0, <1>1, <2>2, ShippedElsewhere, Awake DEF ServiceInv, CrashInv
  <2> QED BY <1>0, <2>1, <2>2
<1>4. /\ caller[EP_UART] = NONE
  BY <1>0, <1>2 DEF WriteInv, Queued
<1>5. ASSUME UartSame, ~Writing', UNCHANGED printed PROVE WriteInv'
  BY <1>0, <1>1, <1>3, <1>4, <1>5, NoneIsNoTask DEF WriteInv, UartSame
<1>6. UNCHANGED ipcVars => UartSame
  BY DEF ipcVars, UartSame
<1>7. CASE task_a_start \/ task_a_poll \/ task_a_yield
  <2>1. pc'[A] \in {"poll", "check"}
    <3>1. CASE task_a_yield
      BY <1>0, <3>1, Moves DEF task_a_yield
    <3>2. CASE task_a_start \/ task_a_poll
      BY <1>0, <3>2, Moves DEF task_a_start, task_a_poll
    <3> QED BY <1>7, <3>1, <3>2
  <2>2. UNCHANGED ipcVars /\ UNCHANGED printed
    BY <1>7 DEF task_a_start, task_a_poll, task_a_yield, SYS_time_ticks,
                SYS_yield, Return, Answer, Redirect
  <2> QED BY <1>5, <1>6, <2>1, <2>2 DEF Writing
<1>8. CASE task_a_write
  <2>1. pc'[A] = "written" /\ TaskAWrite(TASK_A_MSG) /\ pc[A] = "check"
    BY <1>0, <1>8, Moves DEF task_a_write
  <2>2. ShippedNext
    BY <2>1, LengthsAssumption DEF TaskAWrite, ShippedNext, ProgramCall
  <2> QED BY <1>1, <2>1, <2>2, WriteA DEF Writing, Length
<1>9. CASE bench_call
  <2> DEFINE op == IF Finished THEN "yield" ELSE Script[section].op
  <2>1. pc'[A] = "returned" /\ section' = section
    BY <1>0, <1>9, Moves DEF bench_call
  <2>2. Writing' <=> ~Finished /\ Script[section].op = "write"
    BY <2>1 DEF Writing, Finished
  <2>3. CASE op = "write"
    <3>1. TaskAWrite(BENCH_PAYLOAD) /\ ~Finished
      BY <1>9, <2>3 DEF bench_call
    <3>2. ShippedNext
      BY <3>1, LengthsAssumption DEF TaskAWrite, ShippedNext, ProgramCall
    <3>3. Writing' /\ Length' = BENCH_PAYLOAD
      BY <2>1, <2>2, <2>3, <3>1 DEF Length
    <3> QED BY <1>1, <3>1, <3>2, <3>3, WriteA
  <2>4. CASE op # "write"
    <3>1. ~Writing' /\ UNCHANGED printed
      BY <1>9, <2>2, <2>4 DEF bench_call
    <3>2. UartSame
      BY <1>0, <1>6, <1>9, <2>4, BenchApart
         DEF bench_call, SYS_yield, Redirect
    <3> QED BY <1>5, <3>1, <3>2
  <2> QED BY <2>3, <2>4
<1>10. CASE bench_next
  <2>1. pc'[A] = "bench" /\ UNCHANGED vars /\ UNCHANGED printed
    BY <1>0, <1>10, Moves DEF bench_next
  <2> QED BY <1>5, <1>6, <2>1 DEF Writing, vars
<1> QED BY <1>7, <1>8, <1>9, <1>10 DEF TaskA

(* The server goes from its reply to its crash without a break, and stays  *)
(* where it crashed until it is restarted.                                 *)
LEMMA CrashStep ==
  ASSUME ServiceInv, [SysNext]_sysVars, KernelInv', panic' = "none"
  PROVE  CrashInv'
<1> USE ProgramSlots, IsProgram, TwoEndpoints
<1>0. /\ SysInv /\ PcOK /\ KernelInv /\ IpcTypeOK /\ CrashInv
      /\ B \in Slots /\ ustate \in [Slots -> UStates]
      /\ reason \in [Slots -> Reasons]
  BY DEF ServiceInv, SysInv, KernelInv, TypeOK, ThreadTypeOK, UserSlots
<1>1. CASE pc'[B] = pc[B] /\ UNCHANGED vars
  BY <1>0, <1>1 DEF CrashInv, vars, threadVars, ipcVars, At
<1>2. CASE pc'[B] = pc[B] /\ ShippedNext /\ ~(At("el0") /\ current = B)
  <2>1. pc[B] # "served"
    BY <1>0, <1>2 DEF CrashInv
  <2>2. Next
    BY <1>2, ShippedIsKernel
  <2>3. ~(At("trapped")' /\ reason'[current'] \in Deaths)
    <3>1. SUFFICES ASSUME At("trapped")', reason'[current'] \in Deaths
                   PROVE  FALSE
      OBVIOUS
    <3>2. current' = B
      BY <1>0, <1>2, <3>1, OnlyServerDies
    <3>3. ~At("el0") => phase' # "trapped"
      <4>1. ~At("el0") => ~ProgramCall
        BY DEF ProgramCall, SYS_yield, SYS_time_ticks, SYS_write,
           SYS_ipc_call, SYS_ipc_recv, SYS_ipc_reply, SYS_supervise_wait,
           SYS_task_restart, thread_user_fault, Return, Redirect, Answer,
           Request, ipc_route_uart_write, ipc_syscall_call, ipc_syscall_recv,
           ipc_syscall_reply, supervisor_syscall_wait,
           supervisor_syscall_restart, SyscallReturn,
           thread_user_trap_redirect, thread_user_restart
      <4>2. TaskReturns \/ SchedulerStep \/ thread_tick_irq
              => phase' # "trapped"
        BY DEF TaskReturns, user_task_return_step, SchedulerStep,
           thread_resched_point_pick, thread_switch_to, thread_enter_el0,
           thread_entry_idle, thread_resched_point_idle, user_task_resume,
           el0_resume, thread_tick_irq, ChargeTick, At, IrqOpen
      <4> QED BY <1>2, <4>1, <4>2 DEF ShippedNext
    <3>4. At("el0") => current' = current
      BY <1>2
         DEF ShippedNext, ProgramCall, SYS_yield, SYS_time_ticks, SYS_write,
         SYS_ipc_call, SYS_ipc_recv, SYS_ipc_reply, SYS_supervise_wait,
         SYS_task_restart, thread_user_fault, Return, Redirect, Answer,
         Request, ipc_route_uart_write, ipc_syscall_call, ipc_syscall_recv,
         ipc_syscall_reply, supervisor_syscall_wait,
         supervisor_syscall_restart, SyscallReturn,
         thread_user_trap_redirect, thread_user_restart, At, TaskReturns,
         user_task_return_step, SchedulerStep, thread_resched_point_pick,
         thread_switch_to, thread_enter_el0, thread_entry_idle,
         thread_resched_point_idle, user_task_resume, el0_resume,
         thread_tick_irq, IrqOpen
    <3> QED BY <1>2, <3>1, <3>2, <3>3, <3>4 DEF At
  <2>4. ustate'[B] = "DEAD" => pc[B] = "crashed"
    <3>1. ustate'[B] = "DEAD" /\ ustate[B] # "DEAD"
            => At("trapped") /\ reason[current] \in Deaths
      BY <1>0, <2>2, DeathStep DEF TaskReturns, user_task_return_step
    <3> QED BY <1>0, <3>1 DEF CrashInv
  <2> QED BY <1>2, <2>1, <2>3, <2>4 DEF CrashInv
<1>3. CASE At("el0") /\ current = B /\ TaskB
  <2>0. SysNext /\ (UNCHANGED vars \/ ShippedNext)
    BY <1>0, <1>3, SysShipped DEF SysNext, CpuStep
  <2>1. ustate[B] = "RUNNING"
    BY <1>0, <1>3, WaitersAtEL0
  <2>2. ustate'[B] # "DEAD"
    <3>1. ~TaskReturns
      BY <1>3 DEF TaskReturns, user_task_return_step, At
    <3>2. UNCHANGED vars => ustate' = ustate
      BY DEF vars, threadVars
    <3> QED BY <1>0, <2>0, <2>1, <3>1, <3>2, DeathStep, ShippedIsKernel
  <2>3. CASE uart_reply
    <3>1. pc[B] = "written" /\ pc'[B] = "served"
          /\ SYS_ipc_reply(EP_UART, 0, TRUE)
      BY <1>0, <2>3, Moves DEF uart_reply
    <3>2. caller[EP_UART] # NONE
      BY <3>1 DEF ServiceInv, WriteInv
    <3>3. ReplyAdmitted(EP_UART, 0, TRUE)
      BY <1>3, <3>2, IpcAssumption DEF ReplyAdmitted, Serves
    <3>4. /\ caller'[EP_UART] = NONE
          /\ phase' = "el0" /\ current' = current
      BY <1>0, <3>1, <3>3
         DEF SYS_ipc_reply, ipc_syscall_reply, SyscallReturn, IpcTypeOK, At
    <3> QED BY <1>3, <2>2, <3>1, <3>4 DEF CrashInv, At
  <2>4. CASE uart_crash
    <3>1. /\ pc[B] = "served" /\ pc'[B] = "crashed"
          /\ UNCHANGED ipcVars
      BY <1>0, <2>4, Moves DEF uart_crash, thread_user_fault, Redirect
    <3>2. caller'[EP_UART] = NONE
      BY <1>0, <3>1 DEF CrashInv, ipcVars
    <3> QED BY <2>2, <3>1, <3>2 DEF CrashInv
  <2>5. CASE ~uart_reply /\ ~uart_crash
    <3>1. pc'[B] \notin {"served", "crashed"}
      <4>1. CASE uart_again
        <5>1. CASE pc[B] = "got"
          BY <1>0, <4>1, <5>1, Moves DEF uart_again
        <5>2. CASE pc[B] # "got"
          BY <1>0, <4>1, <5>2, Moves DEF uart_again
        <5> QED BY <5>1, <5>2
      <4>2. CASE uart_ready
        BY <1>0, <4>2, Moves DEF uart_ready
      <4>3. CASE uart_recv
        BY <1>0, <4>3, Moves DEF uart_recv
      <4>4. CASE uart_write
        BY <1>0, <4>4, Moves DEF uart_write
      <4> QED BY <1>3, <2>5, <4>1, <4>2, <4>3, <4>4 DEF TaskB
    <3>2. ~(At("trapped")' /\ reason'[current'] \in Deaths)
      <4>1. CASE UNCHANGED vars
        BY <1>3, <4>1 DEF vars, threadVars, At
      <4>2. ASSUME NEW r, NEW wake, SyscallReturn(r, wake)
            PROVE  ~At("trapped")'
        BY <4>2 DEF SyscallReturn, At
      <4>3. CASE uart_recv
        <5>1. reason' = [reason EXCEPT ![current] = "IPC_BLOCK"]
              \/ ~At("trapped")'
          BY <4>2, <4>3
             DEF uart_recv, SYS_ipc_recv, ipc_syscall_recv, Answer,
                 thread_user_trap_redirect
        <5>2. current' = current
          BY <4>3 DEF uart_recv, SYS_ipc_recv, ipc_syscall_recv, Answer,
                      thread_user_trap_redirect, SyscallReturn
        <5> QED BY <1>0, <1>3, <5>1, <5>2 DEF Deaths
      <4>4. CASE uart_ready \/ uart_write
        BY <1>3, <4>2, <4>4, DirectWrite DEF uart_ready, uart_write
      <4> QED BY <1>3, <2>5, <4>1, <4>3, <4>4 DEF TaskB, uart_again
    <3> QED BY <2>2, <3>1, <3>2 DEF CrashInv
  <2> QED BY <2>3, <2>4, <2>5
<1>4. CASE sup_restart /\ pc'[B] # "got" /\ ShippedNext /\ current = C
  <2>1. /\ At("el0")
        /\ phase' = "el0" \/ UNCHANGED vars
        /\ x0[C] # B => UNCHANGED vars
        /\ pc[C] = "noticed"
    BY <1>4 DEF sup_restart, SYS_task_restart, supervisor_syscall_restart,
                thread_user_restart, SyscallReturn, At
  <2>2. pc'[B] = IF x0[C] = B /\ Restartable(B) THEN Entry(B) ELSE pc[B]
    BY <1>0, <1>4 DEF sup_restart, PcOK
  <2>3. Entry(B) # "served"
    BY DEF Entry
  <2>4. At("el0") /\ pc[B] # "served"
    BY <1>0, <1>4 DEF CrashInv, sup_restart
  <2>5. ~At("trapped")'
    BY <2>1, <2>4 DEF At, vars, threadVars
  <2>6. ustate'[B] = "DEAD" => ustate[B] = "DEAD" /\ ~(x0[C] = B /\ Restartable(B))
    <3>1. CASE x0[C] = B /\ Restartable(B)
      <4>1. thread_user_restart(B)
        BY <1>4, <3>1 DEF sup_restart, SYS_task_restart,
                          supervisor_syscall_restart
      <4> QED BY <1>0, <4>1 DEF thread_user_restart
    <3>2. CASE ~(x0[C] = B /\ Restartable(B))
      <4>1. ~TaskReturns
        BY <2>4 DEF TaskReturns, user_task_return_step, At
      <4> QED BY <1>0, <1>4, <3>2, <4>1, DeathStep, ShippedIsKernel
    <3> QED BY <3>1, <3>2
  <2> QED BY <1>0, <2>2, <2>3, <2>4, <2>5, <2>6 DEF CrashInv
<1> QED BY <1>0, <1>1, <1>2, <1>3, <1>4, Turns

LEMMA ServiceInvStep == ServiceInv /\ [SysNext]_sysVars => ServiceInv'
<1> SUFFICES ASSUME ServiceInv, [SysNext]_sysVars PROVE ServiceInv'
  OBVIOUS
<1>1. SysInv' /\ KernelInv' /\ panic' = "none"
  BY SysInvStep DEF ServiceInv, SysInv
<1>2. WriteInv'
  <2>1. CASE UNCHANGED sysVars
    BY <2>1 DEF ServiceInv, WriteInv, Writing, Length, OnItsWay, Finished,
       Queued, sysVars, vars, threadVars, ipcVars, supervisorVars, programVars
  <2>2. CASE SysNext
    BY <1>1, <2>2, WriteKernel, WriteTaskA, WriteB, WriteC DEF SysNext, CpuStep
  <2> QED BY <2>1, <2>2
<1> QED BY <1>1, <1>2, CrashStep DEF ServiceInv

LEMMA ServiceInvInit == SysInit => ServiceInv
<1> SUFFICES ASSUME SysInit PROVE ServiceInv
  OBVIOUS
<1>1. pc = [t \in Programs |-> Entry(t)]
  BY DEF SysInit, Programs
<1>2. pc[A] \notin {"written", "returned"} /\ pc[B] \notin {"got", "written", "served"}
  BY <1>1, IsProgram DEF Entry
<1>3. ustate[B] = "RUNNABLE" /\ phase = "switch"
  BY ProgramSlots DEF SysInit, Init, ThreadInit, UserSlots
<1>4. CrashInv
  BY <1>2, <1>3 DEF CrashInv, At
<1>5. /\ caller[EP_UART] = NONE
      /\ pending[EP_UART] = NONE
      /\ receiver[EP_UART] = NONE
  BY TwoEndpoints DEF SysInit, Init, IpcInit
<1>6. WriteInv
  <2>1. A # NONE
    BY ProgramSlots, NoneIsNoTask
  <2> QED BY <1>2, <1>5, <2>1 DEF WriteInv, Writing
<1> QED BY <1>4, <1>6, SysInvInit DEF ServiceInv

(* In either flavour a write of task A returns its length, and its bytes   *)
(* have then been printed exactly once: that it was routed, that the       *)
(* server crashed and was restarted does not show (syscall.c, ipc.c,       *)
(* user_tasks.c).                                                          *)
THEOREM SystemWrites == SysSpec => []WriteReturnsItsLength
<1>1. ServiceInv => WriteReturnsItsLength
  <2> SUFFICES ASSUME ServiceInv, At("el0"), current = A
               PROVE  Writing => x0[A] = Length /\ printed = Length
    BY DEF WriteReturnsItsLength, Writing, Length
  <2>1. ~Queued(A)
    BY WaitersAtEL0 DEF ServiceInv, SysInv
  <2>2. caller[EP_UART] = NONE
    BY <2>1, TwoEndpoints DEF ServiceInv, WriteInv, Queued
  <2> QED BY <2>2 DEF ServiceInv, WriteInv
<1> QED BY <1>1, ServiceInvInit, ServiceInvStep, PTL DEF SysSpec
-----------------------------------------------------------------------------
(* The write service as an abstract specification                          *)

(* While A does not move, neither does the message it is writing.          *)
LEMMA SameWrite ==
  ASSUME pc'[A] = pc[A], section' = section
  PROVE  (Writing' <=> Writing) /\ Length' = Length
BY DEF Writing, Length, Finished

(* A step of B, of C or of the kernel: A stays where it is, nobody makes   *)
(* its call for it, and bytes are printed only where the server writes.    *)
LEMMA OthersWrite ==
  ASSUME ServiceInv, SysNext, ~TaskA
  PROVE  /\ pc'[A] = pc[A] /\ section' = section
         /\ ~Queued(A) => ~Queued(A)'
         /\ \/ UNCHANGED printed
            \/ /\ At("el0") /\ current = B /\ pc[B] = "got"
               /\ pc'[B] = "written" /\ printed' = printed + x0[B]
<1> USE ProgramSlots, IsProgram
<1>0. /\ PcOK /\ KernelInv
      /\ UNCHANGED vars \/ ShippedNext
  BY SysShipped DEF ServiceInv, SysInv
<1>1. CASE KernelStep \/ Tick
  <2>1. pc' = pc /\ UNCHANGED <<section, printed>>
    BY <1>1 DEF KernelStep, Tick, programVars
  <2>2. ShippedNext /\ ~At("el0")
    BY <1>1 DEF KernelStep, TaskReturns, user_task_return_step, SchedulerStep,
       thread_resched_point_pick, thread_switch_to, thread_enter_el0,
       thread_entry_idle, thread_resched_point_idle, user_task_resume,
       el0_resume, Tick, thread_tick_irq, At, IrqOpen, ShippedNext
  <2>3. Elsewhere(A)
    BY <2>2, ShippedElsewhere DEF ServiceInv, SysInv
  <2> QED BY <2>1, <2>3, Awake
<1>2. CASE TaskC
  <2>1. At("el0") /\ current = C /\ UNCHANGED <<section, printed>>
    BY <1>2 DEF TaskC, echo_recv, echo_reply, sup_ready, sup_wait,
                sup_restart, sup_restarted, Goes
  <2>2. pc'[A] = pc[A]
    <3>1. CASE sup_restart
      BY <1>0, <3>1 DEF sup_restart, PcOK
    <3>2. CASE ~sup_restart
      BY <1>0, <1>2, <3>2, Moves DEF TaskC, echo_recv, echo_reply, sup_ready,
                                     sup_wait, sup_restarted
    <3> QED BY <3>1, <3>2
  <2>3. ~Queued(A) => ~Queued(A)'
    <3>1. CASE UNCHANGED vars
      BY <3>1 DEF vars, threadVars, ipcVars, supervisorVars, Queued
    <3>2. CASE ShippedNext
      BY <1>0, <2>1, <3>2, ShippedElsewhere, Awake
    <3> QED BY <1>0, <3>1, <3>2
  <2> QED BY <2>1, <2>2, <2>3
<1>3. CASE TaskB
  <2>1. /\ At("el0") /\ current = B /\ pc'[A] = pc[A] /\ section' = section
    <3>1. CASE uart_ready
      BY <1>0, <3>1, Moves DEF uart_ready
    <3>2. CASE uart_recv
      BY <1>0, <3>2, Moves DEF uart_recv
    <3>3. CASE uart_write
      BY <1>0, <3>3, Moves DEF uart_write
    <3>4. CASE uart_reply
      BY <1>0, <3>4, Moves DEF uart_reply
    <3>5. CASE uart_crash
      BY <1>0, <3>5, Moves DEF uart_crash
    <3>6. CASE uart_again
      BY <1>0, <3>6, Moves DEF uart_again
    <3> QED BY <1>3, <3>1, <3>2, <3>3, <3>4, <3>5, <3>6 DEF TaskB
  <2>2. ~Queued(A) => ~Queued(A)'
    <3>1. CASE UNCHANGED vars
      BY <3>1 DEF vars, threadVars, ipcVars, supervisorVars, Queued
    <3>2. CASE ShippedNext
      BY <1>0, <2>1, <3>2, ShippedElsewhere, Awake
    <3> QED BY <1>0, <3>1, <3>2
  <2>3. CASE uart_write
    BY <1>0, <2>1, <2>2, <2>3, Moves DEF uart_write
  <2>4. CASE ~uart_write
    <3>1. UNCHANGED printed
      BY <1>3, <2>4 DEF TaskB, uart_ready, uart_recv, uart_reply, uart_crash,
                        uart_again
    <3> QED BY <2>1, <2>2, <3>1
  <2> QED BY <2>3, <2>4
<1> QED BY <1>1, <1>2, <1>3 DEF SysNext, CpuStep

(* A step of A starts a write, or concerns the write service not at all.   *)
LEMMA OwnWrite ==
  ASSUME ServiceInv, SysNext, TaskA
  PROVE  \/ UNCHANGED printed /\ caller'[EP_UART] = caller[EP_UART]
         \/ \E len \in {TASK_A_MSG, BENCH_PAYLOAD} :
               TaskAWrite(len) /\ Writing' /\ Length' = len
<1> USE IsProgram
<1>0. PcOK /\ IpcTypeOK
  BY DEF ServiceInv, SysInv, KernelInv, TypeOK
<1>1. CASE task_a_start \/ task_a_poll \/ task_a_yield
  BY <1>1 DEF task_a_start, task_a_poll, task_a_yield, SYS_time_ticks,
              SYS_yield, Return, Answer, Redirect, ipcVars
<1>2. CASE task_a_write
  <2>1. pc'[A] = "written" /\ TaskAWrite(TASK_A_MSG)
    BY <1>0, <1>2, Moves DEF task_a_write
  <2> QED BY <2>1 DEF Writing, Length
<1>3. CASE bench_call
  <2> DEFINE op == IF Finished THEN "yield" ELSE Script[section].op
  <2>1. pc'[A] = "returned" /\ section' = section
    BY <1>0, <1>3, Moves DEF bench_call
  <2>2. CASE op = "write"
    <3>1. TaskAWrite(BENCH_PAYLOAD) /\ ~Finished /\ Script[section].op = "write"
      BY <1>3, <2>2 DEF bench_call
    <3>2. Writing' /\ Length' = BENCH_PAYLOAD
      BY <2>1, <3>1 DEF Writing, Length, Finished
    <3> QED BY <3>1, <3>2
  <2>3. CASE op # "write"
    <3>1. UNCHANGED printed
      BY <1>3, <2>3 DEF bench_call
    <3>2. UNCHANGED ipcVars => UartSame
      BY DEF ipcVars, UartSame
    <3>3. UartSame
      BY <1>0, <1>3, <2>3, <3>2, BenchApart
         DEF bench_call, SYS_yield, Redirect
    <3> QED BY <3>1, <3>3 DEF UartSame
  <2> QED BY <2>2, <2>3
<1>4. CASE bench_next
  BY <1>4 DEF bench_next, vars, ipcVars
<1> QED BY <1>1, <1>2, <1>3, <1>4 DEF TaskA

(* The safety part of ImplementsWriteService.                              *)
WritesSafely == Service!Init /\ [][Service!Next]_(Service!vars)

LEMMA ServiceStep ==
  ASSUME ServiceInv, ServiceInv', [SysNext]_sysVars
  PROVE  [Service!Next]_(Service!vars)
<1> USE ProgramSlots, TwoEndpoints, NoneIsNoTask
<1>0. /\ WriteInv /\ WriteInv'
      /\ Length \in {TASK_A_MSG, BENCH_PAYLOAD} /\ Length # 0
      /\ A # NONE
  BY DEF ServiceInv, Length, TASK_A_MSG, BENCH_PAYLOAD
<1>1. CASE UNCHANGED sysVars
  BY <1>1 DEF sysVars, vars, ipcVars, programVars, Service!vars
<1>2. CASE SysNext /\ TaskA
  <2>1. At("el0") /\ current = A
    BY <1>2 DEF TaskA, task_a_start, task_a_poll, task_a_write, task_a_yield,
                bench_call, bench_next, Goes
  <2>2. caller[EP_UART] = NONE
    BY <1>0, <2>1, WaitersAtEL0 DEF ServiceInv, SysInv, WriteInv, Queued
  <2>3. CASE UNCHANGED printed /\ caller'[EP_UART] = caller[EP_UART]
    BY <1>0, <2>2, <2>3 DEF Service!vars
  <2>4. ASSUME NEW len \in {TASK_A_MSG, BENCH_PAYLOAD},
               TaskAWrite(len), Writing', Length' = len
        PROVE  Service!Next
    <3>1. CASE caller'[EP_UART] = A
      <4>1. RoutesWrite
        BY <1>0, <2>2, <2>4, <3>1
           DEF TaskAWrite, SYS_write, Return, Answer, ipcVars
      <4>2. printed' = 0 /\ override'[EP_UART] = len
        BY <1>0, <2>4, <3>1, <4>1 DEF TaskAWrite, WriteInv
      <4> QED BY <1>0, <2>2, <2>4, <3>1, <4>2
              DEF Service!Next, Service!Ask
    <3>2. CASE caller'[EP_UART] = NONE
      <4>1. printed' = len
        BY <1>0, <2>4, <3>2 DEF WriteInv
      <4> QED BY <1>0, <2>2, <2>4, <3>2, <4>1
              DEF Service!Next, Service!Direct
    <3> QED BY <1>0, <3>1, <3>2 DEF WriteInv
  <2> QED BY <1>2, <2>3, <2>4, OwnWrite
<1>3. CASE SysNext /\ ~TaskA
  <2>1. (Writing' <=> Writing) /\ Length' = Length
    BY <1>3, OthersWrite, SameWrite
  <2>2. CASE caller[EP_UART] = NONE
    <3>1. caller'[EP_UART] = NONE
      BY <1>0, <1>3, <2>1, <2>2, OthersWrite DEF WriteInv, Queued
    <3>2. UNCHANGED printed
      BY <1>0, <1>3, <2>2, OthersWrite, WaitersAtEL0
         DEF ServiceInv, SysInv, KernelInv, WaitersAreOwners, WriteInv, Queued
    <3> QED BY <1>0, <2>2, <3>1, <3>2 DEF Service!vars
  <2>3. CASE caller[EP_UART] = A
    <3>1. Writing /\ override[EP_UART] = Length /\ OnItsWay
      BY <1>0, <2>3 DEF WriteInv
    <3>2. CASE UNCHANGED printed /\ caller'[EP_UART] = A
      BY <1>0, <2>1, <2>3, <3>1, <3>2 DEF WriteInv, Service!vars
    <3>3. CASE UNCHANGED printed /\ caller'[EP_UART] = NONE
      <4>1. printed = Length
        BY <1>0, <2>1, <3>1, <3>3 DEF WriteInv
      <4> QED BY <1>0, <2>3, <3>1, <3>3, <4>1
              DEF Service!Next, Service!Return
    <3>4. CASE printed' # printed
      <4>1. /\ pc[B] = "got" /\ pc'[B] = "written"
            /\ printed' = printed + x0[B]
        BY <1>3, <3>4, OthersWrite
      <4>2. printed = 0 /\ x0[B] = Length
        BY <3>1, <4>1 DEF OnItsWay
      <4>3. caller'[EP_UART] = A /\ override'[EP_UART] = Length
        BY <1>0, <2>1, <4>1 DEF WriteInv
      <4>4. printed' = Length
        BY <4>1, <4>2 DEF Length, TASK_A_MSG, BENCH_PAYLOAD
      <4> QED BY <1>0, <2>3, <3>1, <4>2, <4>3, <4>4
              DEF Service!Next, Service!Output
    <3> QED BY <1>0, <3>2, <3>3, <3>4 DEF WriteInv
  <2> QED BY <1>0, <2>2, <2>3 DEF WriteInv
<1> QED BY <1>1, <1>2, <1>3

(* In either flavour SYS_write implements the abstract service, a crash    *)
(* of the server included: it prints nothing twice and returns with        *)
(* nothing unprinted (syscall.c, ipc.c, user_tasks.c).  That it returns at *)
(* all needs fairness, and is only model-checked.                          *)
THEOREM SystemWritesSafely == SysSpec => WritesSafely
<1>1. SysInit => Service!Init
  <2> SUFFICES ASSUME SysInit PROVE Service!Init
    OBVIOUS
  <2>1. caller[EP_UART] = NONE /\ printed = 0
    BY TwoEndpoints DEF SysInit, Init, IpcInit
  <2> QED BY <2>1, ProgramSlots, NoneIsNoTask DEF Service!Init
<1>2. ServiceInv /\ ServiceInv' /\ [SysNext]_sysVars
        => [Service!Next]_(Service!vars)
  BY ServiceStep
<1> QED BY <1>1, <1>2, ServiceInvInit, ServiceInvStep, PTL
        DEF SysSpec, WritesSafely
-----------------------------------------------------------------------------
(* The echo server, and the protocol of both servers                       *)

(* The bench endpoint, as WriteInv says it of the UART endpoint.           *)
EchoInv ==
  /\ caller[EP_BENCH] \in {NONE, A}
  /\ pc[C] # "written"
  /\ receiver[EP_BENCH] # NONE =>
       /\ caller[EP_BENCH] = NONE
       /\ pc[C] = "got" /\ recvCap[EP_BENCH] = IPC_MSG_SIZE
  /\ caller[EP_BENCH] = A =>
       /\ owner_slot(EP_BENCH) = C
       /\ \/ pc[C] # "got" /\ pending[EP_BENCH] = BENCH_PAYLOAD
          \/ /\ pc[C] = "got" /\ ~Queued(C) /\ x0[C] = BENCH_PAYLOAD
             /\ pending[EP_BENCH] = NONE
  /\ caller[EP_BENCH] = NONE =>
       /\ pending[EP_BENCH] = NONE
       /\ pc[C] = "got" => receiver[EP_BENCH] # NONE

ProtocolInv == ServiceInv /\ EchoInv

BenchSame ==
  /\ caller'[EP_BENCH] = caller[EP_BENCH]
  /\ receiver'[EP_BENCH] = receiver[EP_BENCH]
  /\ recvCap'[EP_BENCH] = recvCap[EP_BENCH]
  /\ pending'[EP_BENCH] = pending[EP_BENCH]

(* Calls on the UART endpoint leave the bench endpoint alone.              *)
LEMMA UartApart ==
  ASSUME IpcTypeOK, NEW len, NEW cap,
         \/ SYS_write(len, TRUE, TRUE)
         \/ SYS_ipc_recv(EP_UART, cap, TRUE, TRUE)
         \/ SYS_ipc_reply(EP_UART, len, TRUE)
  PROVE  BenchSame
<1> USE TwoEndpoints DEF IpcTypeOK
<1>1. UNCHANGED ipcVars => BenchSame
  BY DEF ipcVars, BenchSame
<1>2. CASE SYS_write(len, TRUE, TRUE)
  <2>1. CASE Request(EP_UART, len, 0, len, TRUE)
    <3>1. /\ caller' = [caller EXCEPT ![EP_UART] = current]
          /\ \/ receiver' = [receiver EXCEPT ![EP_UART] = NONE]
             \/ UNCHANGED receiver
          /\ recvCap' = [recvCap EXCEPT ![EP_UART] = 0] \/ UNCHANGED recvCap
          /\ pending' = [pending EXCEPT ![EP_UART] = len] \/ UNCHANGED pending
      BY <2>1 DEF Request
    <3> QED BY <3>1 DEF BenchSame
  <2> QED BY <1>1, <1>2, <2>1
          DEF SYS_write, ipc_route_uart_write, Return, Answer
<1>3. CASE SYS_ipc_recv(EP_UART, cap, TRUE, TRUE)
  BY <1>1, <1>3 DEF SYS_ipc_recv, ipc_syscall_recv, Answer, BenchSame
<1>4. CASE SYS_ipc_reply(EP_UART, len, TRUE)
  BY <1>1, <1>4 DEF SYS_ipc_reply, ipc_syscall_reply, Answer, BenchSame
<1> QED BY <1>2, <1>3, <1>4

(* Task A, B and the kernel, but for a call of A.                          *)
LEMMA EchoSame ==
  ASSUME ProtocolInv, [SysNext]_sysVars, ~TaskC, BenchSame
  PROVE  EchoInv'
<1> USE ProgramSlots
<1>1. /\ pc'[C] = pc[C]
      /\ \/ UNCHANGED vars
         \/ ShippedNext /\ ~(At("el0") /\ current = C)
  BY Turns DEF ProtocolInv, ServiceInv
<1>2. ~Queued(C) => x0'[C] = x0[C] /\ ~Queued(C)'
  <2>1. CASE UNCHANGED vars
    BY <2>1 DEF vars, threadVars, ipcVars, supervisorVars, Queued
  <2>2. CASE ShippedNext /\ ~(At("el0") /\ current = C)
    BY <2>2, ShippedElsewhere, Awake DEF ProtocolInv, ServiceInv, SysInv
  <2> QED BY <1>1, <2>1, <2>2
<1> QED BY <1>1, <1>2 DEF ProtocolInv, EchoInv, BenchSame, owner_slot

(* A's call is handed to the waiting server, or queued for it.             *)
LEMMA EchoCall ==
  ASSUME ProtocolInv, At("el0"), current = A, pc'[C] = pc[C],
         CallAdmitted(EP_BENCH, BENCH_PAYLOAD, TRUE),
         Request(EP_BENCH, BENCH_PAYLOAD, BENCH_PAYLOAD, 0, TRUE),
         UNCHANGED supervisorVars
  PROVE  EchoInv'
<1> USE ProgramSlots, TwoEndpoints
<1>0. /\ KernelInv /\ IpcTypeOK /\ EchoInv
      /\ x0 \in [Slots -> RetVals \cup {ARG}]
      /\ C \in Slots /\ ~Queued(A)
  BY WaitersAtEL0 DEF ProtocolInv, ServiceInv, SysInv, KernelInv, TypeOK,
                      ThreadTypeOK, UserSlots
<1>1. /\ caller[EP_BENCH] = NONE /\ pending[EP_BENCH] = NONE
      /\ pc[C] = "got" <=> receiver[EP_BENCH] # NONE
      /\ owner_slot(EP_BENCH) = C
  BY <1>0, NoneIsNoTask DEF EchoInv, Queued, CallAdmitted, owner_slot
<1>2. BENCH_PAYLOAD \in 1 .. IPC_MSG_SIZE /\ BENCH_PAYLOAD # NONE
  BY LengthsAssumption, IpcAssumption DEF BENCH_PAYLOAD, NONE
<1>3. caller'[EP_BENCH] = A /\ receiver'[EP_BENCH] = NONE
  BY <1>0 DEF Request, IpcTypeOK
<1>4. CASE receiver[EP_BENCH] = NONE
  <2>1. pending'[EP_BENCH] = BENCH_PAYLOAD
    BY <1>0, <1>4 DEF Request, IpcTypeOK
  <2> QED BY <1>0, <1>1, <1>3, <1>4, <2>1, NoneIsNoTask
          DEF EchoInv, owner_slot
<1>5. CASE receiver[EP_BENCH] # NONE
  <2>1. receiver[EP_BENCH] = C /\ recvCap[EP_BENCH] = IPC_MSG_SIZE
    BY <1>0, <1>1, <1>5 DEF KernelInv, WaitersAreOwners, EchoInv
  <2>2. min_u64(BENCH_PAYLOAD, IPC_MSG_SIZE) = BENCH_PAYLOAD
    BY <1>2, IpcAssumption DEF min_u64
  <2>3. x0'[C] = BENCH_PAYLOAD
    BY <1>0, <2>1, <2>2
       DEF Request, thread_user_trap_redirect, thread_user_wake_with_x0
  <2>4. ~Queued(C)'
    <3>1. /\ \A ep \in Eps : caller[ep] # C /\ (receiver[ep] = C => ep = EP_BENCH)
          /\ blockedSupervisor # C
      BY <1>0, <2>1, NoneIsNoTask DEF KernelInv, OneWaitPlace, WaitersAreOwners
    <3>2. /\ caller' = [caller EXCEPT ![EP_BENCH] = A]
          /\ receiver' = [receiver EXCEPT ![EP_BENCH] = NONE]
          /\ blockedSupervisor' = blockedSupervisor
      BY <1>5 DEF Request, supervisorVars
    <3> QED BY <1>0, <3>1, <3>2, NoneIsNoTask DEF Queued, IpcTypeOK
  <2>5. pending'[EP_BENCH] = NONE
    BY <1>1, <1>5 DEF Request
  <2> QED BY <1>0, <1>1, <1>3, <1>5, <2>3, <2>4, <2>5, NoneIsNoTask
          DEF EchoInv, owner_slot
<1> QED BY <1>4, <1>5

LEMMA EchoA ==
  ASSUME ProtocolInv, SysNext, TaskA
  PROVE  EchoInv'
<1> USE ProgramSlots, IsProgram, TwoEndpoints
<1>0. PcOK /\ IpcTypeOK
  BY DEF ProtocolInv, ServiceInv, SysInv, KernelInv, TypeOK
<1>1. At("el0") /\ current = A /\ pc'[C] = pc[C]
  BY <1>0, Moves DEF TaskA, task_a_start, task_a_poll, task_a_write,
                     task_a_yield, bench_call, bench_next
<1>2. ~TaskC
  BY <1>1 DEF TaskC, echo_recv, echo_reply, sup_ready, sup_wait, sup_restart,
              sup_restarted, Goes
<1>3. UNCHANGED ipcVars => BenchSame
  BY DEF ipcVars, BenchSame
<1>4. CASE task_a_start \/ task_a_poll \/ task_a_yield \/ task_a_write
  <2>1. BenchSame
    BY <1>0, <1>3, <1>4, UartApart
       DEF task_a_start, task_a_poll, task_a_yield, task_a_write, TaskAWrite,
           SYS_time_ticks, SYS_yield, Return, Answer, Redirect
  <2> QED BY <1>2, <2>1, EchoSame
<1>5. CASE bench_call
  <2>1. CASE SYS_ipc_call(EP_BENCH, BENCH_PAYLOAD, BENCH_PAYLOAD, TRUE, TRUE)
    <3>1. CASE CallAdmitted(EP_BENCH, BENCH_PAYLOAD, TRUE)
      BY <1>1, <2>1, <3>1, EchoCall DEF SYS_ipc_call, ipc_syscall_call
    <3>2. CASE ~CallAdmitted(EP_BENCH, BENCH_PAYLOAD, TRUE)
      BY <1>2, <1>3, <2>1, <3>2, EchoSame
         DEF SYS_ipc_call, ipc_syscall_call, Answer
    <3> QED BY <3>1, <3>2
  <2>2. CASE ~SYS_ipc_call(EP_BENCH, BENCH_PAYLOAD, BENCH_PAYLOAD, TRUE, TRUE)
    <3>1. BenchSame
      BY <1>0, <1>3, <1>5, <2>2, UartApart
         DEF bench_call, TaskAWrite, SYS_yield, Redirect
    <3> QED BY <1>2, <3>1, EchoSame
  <2> QED BY <2>1, <2>2
<1>6. CASE bench_next
  <2>1. BenchSame
    BY <1>3, <1>6 DEF bench_next, vars
  <2> QED BY <1>2, <2>1, EchoSame
<1> QED BY <1>4, <1>5, <1>6 DEF TaskA

(* The echo server takes the whole of A's message, and replies to it.      *)
LEMMA EchoC ==
  ASSUME ProtocolInv, SysNext, TaskC
  PROVE  EchoInv'
<1> USE ProgramSlots, IsProgram, TwoEndpoints
<1>0. /\ PcOK /\ KernelInv /\ IpcTypeOK /\ EchoInv
      /\ x0 \in [Slots -> RetVals \cup {ARG}]
      /\ C \in Slots
  BY DEF ProtocolInv, ServiceInv, SysInv, KernelInv, TypeOK, ThreadTypeOK,
         UserSlots
<1>1. At("el0") /\ current = C /\ ~Queued(C)
  <2>1. At("el0") /\ current = C
    BY DEF TaskC, echo_recv, echo_reply, sup_ready, sup_wait, sup_restart,
           sup_restarted, Goes
  <2> QED BY <1>0, <2>1, WaitersAtEL0
<1>2. receiver[EP_BENCH] = NONE
  BY <1>0, <1>1, NoneIsNoTask
     DEF Queued, KernelInv, WaitersAreOwners, owner_slot
<1>3. CASE echo_recv
  <2>0. pc[C] = "recv" /\ pc'[C] = "got"
    BY <1>0, <1>3, Moves DEF echo_recv
  <2>1. SYS_ipc_recv(EP_BENCH, IPC_MSG_SIZE, TRUE, TRUE)
    BY <1>3 DEF echo_recv
  <2>2. Serves(EP_BENCH, TRUE)
    BY <1>1, <1>3 DEF Serves, echo_recv, owner_slot
  <2>3. CASE caller[EP_BENCH] = A
    <3>1. pending[EP_BENCH] = BENCH_PAYLOAD /\ owner_slot(EP_BENCH) = C
      BY <1>0, <2>0, <2>3 DEF EchoInv
    <3>2. BENCH_PAYLOAD \in 1 .. IPC_MSG_SIZE /\ BENCH_PAYLOAD # NONE
      BY LengthsAssumption, IpcAssumption DEF BENCH_PAYLOAD, NONE
    <3>3. /\ pending' = [pending EXCEPT ![EP_BENCH] = NONE]
          /\ UNCHANGED <<caller, receiver, recvCap>>
          /\ SyscallReturn(min_u64(BENCH_PAYLOAD, IPC_MSG_SIZE), NoWake)
      BY <2>1, <2>2, <3>1, <3>2 DEF SYS_ipc_recv, ipc_syscall_recv
    <3>4. min_u64(BENCH_PAYLOAD, IPC_MSG_SIZE) = BENCH_PAYLOAD
      BY <3>2, IpcAssumption DEF min_u64
    <3>5. x0'[C] = BENCH_PAYLOAD
      BY <1>0, <1>1, <3>3, <3>4, NoWakeAllowed
         DEF SyscallReturn, thread_user_wake_with_x0
    <3>6. ~Queued(C)'
      BY <1>1, <2>1, <3>3 DEF Queued, SYS_ipc_recv, supervisorVars
    <3>7. pending'[EP_BENCH] = NONE
      BY <1>0, <3>3 DEF IpcTypeOK
    <3> QED BY <1>2, <2>0, <2>3, <3>1, <3>3, <3>5, <3>6, <3>7, NoneIsNoTask
            DEF EchoInv, owner_slot
  <2>4. CASE caller[EP_BENCH] = NONE
    <3>1. pending[EP_BENCH] = NONE
      BY <1>0, <2>4 DEF EchoInv
    <3>2. /\ receiver' = [receiver EXCEPT ![EP_BENCH] = current]
          /\ recvCap' = [recvCap EXCEPT ![EP_BENCH] = IPC_MSG_SIZE]
          /\ UNCHANGED <<caller, pending>>
      BY <1>2, <2>1, <2>2, <3>1
         DEF SYS_ipc_recv, ipc_syscall_recv, RecvBlocks
    <3>3. receiver'[EP_BENCH] = C /\ recvCap'[EP_BENCH] = IPC_MSG_SIZE
      BY <1>0, <1>1, <3>2 DEF IpcTypeOK
    <3> QED BY <2>0, <2>4, <3>1, <3>2, <3>3, NoneIsNoTask DEF EchoInv
  <2> QED BY <1>0, <2>3, <2>4 DEF EchoInv
<1>4. CASE echo_reply
  <2>0. pc[C] = "got" /\ pc'[C] = "recv"
    BY <1>0, <1>4, Moves DEF echo_reply
  <2>1. /\ caller[EP_BENCH] = A /\ pending[EP_BENCH] = NONE
        /\ x0[C] = BENCH_PAYLOAD /\ owner_slot(EP_BENCH) = C
    BY <1>0, <1>2, <2>0 DEF EchoInv
  <2>2. SYS_ipc_reply(EP_BENCH, x0[C], TRUE)
    <3>1. x0[C] # FAIL
      BY <2>1 DEF BENCH_PAYLOAD, FAIL
    <3> QED BY ONLY <1>4, <3>1 DEF echo_reply
  <2>3. ReplyAdmitted(EP_BENCH, x0[C], TRUE)
    BY <1>1, <2>1, LengthsAssumption, IpcAssumption, NoneIsNoTask
       DEF ReplyAdmitted, Serves
  <2>4. /\ caller' = [caller EXCEPT ![EP_BENCH] = NONE]
        /\ UNCHANGED <<receiver, recvCap, pending>>
    BY <2>2, <2>3 DEF SYS_ipc_reply, ipc_syscall_reply
  <2>5. caller'[EP_BENCH] = NONE
    BY <1>0, <2>4 DEF IpcTypeOK
  <2> QED BY <1>2, <2>0, <2>1, <2>4, <2>5, NoneIsNoTask DEF EchoInv
<1>5. CASE sup_ready \/ sup_wait \/ sup_restart \/ sup_restarted
  <2>1. UNCHANGED ipcVars
    <3>1. CASE sup_ready \/ sup_restarted
      BY <1>1, <3>1, DirectWrite DEF sup_ready, sup_restarted, vars
    <3>2. CASE sup_wait \/ sup_restart
      BY <3>2 DEF sup_wait, sup_restart, SYS_supervise_wait,
                  SYS_task_restart, vars
    <3> QED BY <1>5, <3>1, <3>2
  <2>2. pc[C] # "got" /\ pc'[C] \notin {"got", "written"}
    <3>1. CASE sup_restart
      <4>1. pc[C] = "noticed" /\ pc'[C] \in {"restarted", "wait"}
        BY <1>0, <3>1 DEF sup_restart, PcOK
      <4> QED BY <4>1
    <3>2. CASE sup_ready
      BY <1>0, <3>2, Moves DEF sup_ready
    <3>3. CASE sup_wait
      BY <1>0, <3>3, Moves DEF sup_wait
    <3>4. CASE sup_restarted
      BY <1>0, <3>4, Moves DEF sup_restarted
    <3> QED BY <1>5, <3>1, <3>2, <3>3, <3>4
  <2> QED BY <1>0, <1>2, <2>1, <2>2, NoneIsNoTask
          DEF EchoInv, ipcVars, owner_slot
<1> QED BY <1>3, <1>4, <1>5 DEF TaskC

LEMMA ProtocolInvInit == SysInit => ProtocolInv
<1> SUFFICES ASSUME SysInit PROVE ProtocolInv
  OBVIOUS
<1>1. /\ caller[EP_BENCH] = NONE /\ pending[EP_BENCH] = NONE
      /\ receiver[EP_BENCH] = NONE
  BY TwoEndpoints DEF SysInit, Init, IpcInit
<1>2. pc[C] \notin {"got", "written"}
  <2>1. pc[C] = Entry(C)
    BY IsProgram DEF SysInit, Programs
  <2> QED BY <2>1 DEF Entry
<1>3. EchoInv
  BY <1>1, <1>2, ProgramSlots, NoneIsNoTask DEF EchoInv
<1> QED BY <1>3, ServiceInvInit DEF ProtocolInv

LEMMA ProtocolInvStep == ProtocolInv /\ [SysNext]_sysVars => ProtocolInv'
<1> SUFFICES ASSUME ProtocolInv, [SysNext]_sysVars PROVE ProtocolInv'
  OBVIOUS
<1>1. UNCHANGED ipcVars => BenchSame
  BY DEF ipcVars, BenchSame
<1>2. ASSUME UNCHANGED sysVars PROVE EchoInv'
  BY <1>1, <1>2 DEF ProtocolInv, EchoInv, owner_slot, Queued, sysVars, vars,
     threadVars, ipcVars, supervisorVars, programVars
<1>3. ASSUME SysNext, ~TaskA, ~TaskC PROVE EchoInv'
  <2>1. CASE KernelStep \/ Tick
    <3>1. UNCHANGED ipcVars
      BY <2>1, QuietDeath DEF ProtocolInv, KernelStep, Tick
    <3> QED BY <1>1, <1>3, <3>1, EchoSame
  <2>2. CASE TaskB
    <3>1. At("el0") /\ current = B /\ IpcTypeOK
      BY <2>2 DEF TaskB, uart_ready, uart_recv, uart_write, uart_reply,
                  uart_crash, uart_again, Goes, ProtocolInv, ServiceInv,
                  SysInv, KernelInv, TypeOK
    <3>2. BenchSame
      BY <1>1, <2>2, <3>1, UartApart
         DEF TaskB, uart_ready, uart_recv, uart_write, uart_reply, uart_crash,
             uart_again, thread_user_fault, Redirect, vars
    <3> QED BY <1>3, <3>2, EchoSame
  <2> QED BY <1>3, <2>1, <2>2 DEF SysNext, CpuStep
<1>4. EchoInv'
  BY <1>2, <1>3, EchoA, EchoC DEF ProtocolInv
<1> QED BY <1>4, ServiceInvStep DEF ProtocolInv
-----------------------------------------------------------------------------
(* The shipped servers keep the protocol                                   *)

(* The operators that Rendezvous takes from Kernel are those of System:    *)
(* expanded, they are the same formulas.                                   *)
LEMMA SameKernel ==
  /\ Protocol!Eps = Eps /\ Protocol!EpIds = EpIds /\ Protocol!NONE = NONE
  /\ Protocol!Deaths = Deaths /\ Protocol!Slots = Slots
  /\ \A ep : Protocol!owner_slot(ep) = owner_slot(ep)
  /\ \A ep, ok : Protocol!Serves(ep, ok) <=> Serves(ep, ok)
  /\ \A ep, len, ok : Protocol!ReplyAdmitted(ep, len, ok)
                        <=> ReplyAdmitted(ep, len, ok)
  /\ Protocol!Init <=> Init
  /\ \A e : Protocol!SYS_yield(e) <=> SYS_yield(e)
  /\ Protocol!SYS_time_ticks <=> SYS_time_ticks
  /\ \A len, ok, e : Protocol!SYS_write(len, ok, e)
                     <=> SYS_write(len, ok, e)
  /\ \A ep, len, cap, ok, e : Protocol!SYS_ipc_call(ep, len, cap, ok, e)
                     <=> SYS_ipc_call(ep, len, cap, ok, e)
  /\ \A ep, cap, ok, e : Protocol!SYS_ipc_recv(ep, cap, ok, e)
                     <=> SYS_ipc_recv(ep, cap, ok, e)
  /\ \A ep, len, ok : Protocol!SYS_ipc_reply(ep, len, ok)
                     <=> SYS_ipc_reply(ep, len, ok)
  /\ \A e : Protocol!SYS_supervise_wait(e) <=> SYS_supervise_wait(e)
  /\ \A s : Protocol!SYS_task_restart(s) <=> SYS_task_restart(s)
  /\ \A ok : Protocol!thread_user_fault(ok) <=> thread_user_fault(ok)
  /\ Protocol!Internal <=> Internal
  /\ Protocol!TaskReturns <=> TaskReturns
<1> USE DEF
      Aborted, AbortedCallers, Answer, ARG, At, Blocks, CallAdmitted,
      Candidates, ChargeTick, Deaths, DeathWakes, el0_resume, EP_BENCH,
      EP_COUNT, EP_NONE, EP_UART, EpIds, Eps, FAIL, Forgotten, Init,
      Internal, ipc_handle_task_death, ipc_route_uart_write,
      ipc_syscall_call, ipc_syscall_recv, ipc_syscall_reply, IpcInit,
      ipcVars, IrqOpen, LeftIn, min_u64, NONE, Notified, NoWake,
      OnUserTask, owner_slot, Panicked, pick_next_thread, PickOrIdle,
      RecvBlocks, Redirect, ReplyAdmitted, ReplyResult, Request,
      Restartable, Return, RingDistance, RoutesWrite, SchedulerStep,
      Serves, Slots, supervisor_note_task_death,
      supervisor_syscall_restart, supervisor_syscall_wait, SupervisorInit,
      supervisorVars, SYS_ipc_call, SYS_ipc_recv, SYS_ipc_reply,
      SYS_supervise_wait, SYS_task_restart, SYS_time_ticks, SYS_write,
      SYS_yield, SyscallReturn, TaskReturns, thread_enter_el0,
      thread_entry_idle, thread_is_selectable, thread_resched_point_idle,
      thread_resched_point_pick, thread_switch_to, thread_tick_irq,
      thread_user_fault, thread_user_restart, thread_user_trap_redirect,
      thread_user_wake_with_x0, ThreadInit, threadVars, user_task_resume,
      user_task_return_step, UserSlots, vars, WakeOk, WakePanic,
      Protocol!Aborted, Protocol!AbortedCallers, Protocol!Answer,
      Protocol!ARG, Protocol!At, Protocol!Blocks, Protocol!CallAdmitted,
      Protocol!Candidates, Protocol!ChargeTick, Protocol!Deaths,
      Protocol!DeathWakes, Protocol!el0_resume, Protocol!EP_BENCH,
      Protocol!EP_COUNT, Protocol!EP_NONE, Protocol!EP_UART,
      Protocol!EpIds, Protocol!Eps, Protocol!FAIL, Protocol!Forgotten,
      Protocol!Init, Protocol!Internal, Protocol!ipc_handle_task_death,
      Protocol!ipc_route_uart_write, Protocol!ipc_syscall_call,
      Protocol!ipc_syscall_recv, Protocol!ipc_syscall_reply,
      Protocol!IpcInit, Protocol!ipcVars, Protocol!IrqOpen,
      Protocol!LeftIn, Protocol!min_u64, Protocol!NONE, Protocol!Notified,
      Protocol!NoWake, Protocol!OnUserTask, Protocol!owner_slot,
      Protocol!Panicked, Protocol!pick_next_thread, Protocol!PickOrIdle,
      Protocol!RecvBlocks, Protocol!Redirect, Protocol!ReplyAdmitted,
      Protocol!ReplyResult, Protocol!Request, Protocol!Restartable,
      Protocol!Return, Protocol!RingDistance, Protocol!RoutesWrite,
      Protocol!SchedulerStep, Protocol!Serves, Protocol!Slots,
      Protocol!supervisor_note_task_death,
      Protocol!supervisor_syscall_restart,
      Protocol!supervisor_syscall_wait, Protocol!SupervisorInit,
      Protocol!supervisorVars, Protocol!SYS_ipc_call,
      Protocol!SYS_ipc_recv, Protocol!SYS_ipc_reply,
      Protocol!SYS_supervise_wait, Protocol!SYS_task_restart,
      Protocol!SYS_time_ticks, Protocol!SYS_write, Protocol!SYS_yield,
      Protocol!SyscallReturn, Protocol!TaskReturns,
      Protocol!thread_enter_el0, Protocol!thread_entry_idle,
      Protocol!thread_is_selectable, Protocol!thread_resched_point_idle,
      Protocol!thread_resched_point_pick, Protocol!thread_switch_to,
      Protocol!thread_tick_irq, Protocol!thread_user_fault,
      Protocol!thread_user_restart, Protocol!thread_user_trap_redirect,
      Protocol!thread_user_wake_with_x0, Protocol!ThreadInit,
      Protocol!threadVars, Protocol!user_task_resume,
      Protocol!user_task_return_step, Protocol!UserSlots, Protocol!vars,
      Protocol!WakeOk, Protocol!WakePanic
<1>1. Protocol!Eps = Eps /\ Protocol!EpIds = EpIds /\ Protocol!NONE = NONE
  OBVIOUS
<1>2. Protocol!Deaths = Deaths /\ Protocol!Slots = Slots
  OBVIOUS
<1>3. \A ep : Protocol!owner_slot(ep) = owner_slot(ep)
  OBVIOUS
<1>4. \A ep, ok : Protocol!Serves(ep, ok) <=> Serves(ep, ok)
  OBVIOUS
<1>5. \A ep, len, ok : Protocol!ReplyAdmitted(ep, len, ok)
                        <=> ReplyAdmitted(ep, len, ok)
  OBVIOUS
<1>6. Protocol!Init <=> Init
  OBVIOUS
<1>7. \A e : Protocol!SYS_yield(e) <=> SYS_yield(e)
  OBVIOUS
<1>8. Protocol!SYS_time_ticks <=> SYS_time_ticks
  OBVIOUS
<1>9. \A len, ok, e : Protocol!SYS_write(len, ok, e)
                     <=> SYS_write(len, ok, e)
  OBVIOUS
<1>10. \A ep, len, cap, ok, e : Protocol!SYS_ipc_call(ep, len, cap, ok, e)
                     <=> SYS_ipc_call(ep, len, cap, ok, e)
  OBVIOUS
<1>11. \A ep, cap, ok, e : Protocol!SYS_ipc_recv(ep, cap, ok, e)
                     <=> SYS_ipc_recv(ep, cap, ok, e)
  OBVIOUS
<1>12. \A ep, len, ok : Protocol!SYS_ipc_reply(ep, len, ok)
                     <=> SYS_ipc_reply(ep, len, ok)
  OBVIOUS
<1>13. \A e : Protocol!SYS_supervise_wait(e) <=> SYS_supervise_wait(e)
  OBVIOUS
<1>14. \A s : Protocol!SYS_task_restart(s) <=> SYS_task_restart(s)
  OBVIOUS
<1>15. \A ok : Protocol!thread_user_fault(ok) <=> thread_user_fault(ok)
  OBVIOUS
<1>16. Protocol!Internal <=> Internal
  OBVIOUS
<1>17. Protocol!TaskReturns <=> TaskReturns
  OBVIOUS
<1> QED BY <1>1, <1>2, <1>3, <1>4, <1>5, <1>6, <1>7, <1>8, <1>9, <1>10,
           <1>11, <1>12, <1>13, <1>14, <1>15, <1>16, <1>17

(* The queued requests and the ones being served, as the endpoints show    *)
(* them when the servers keep the protocol.                                *)
Sender == [ep \in Eps |-> IF pending[ep] # NONE THEN caller[ep] ELSE NONE]
Taken  == [ep \in Eps |-> IF pending[ep] = NONE THEN caller[ep] ELSE NONE]
Served == [ep \in Eps |-> Serving(ep)]

ServedTaken == Served = Taken

LEMMA ServedIsTaken == ProtocolInv => ServedTaken
<1> SUFFICES ASSUME ProtocolInv PROVE Served = Taken
  BY DEF ServedTaken
<1> USE ProgramSlots, TwoEndpoints, NoneIsNoTask
<1>1. WriteInv /\ EchoInv /\ Length # NONE /\ BENCH_PAYLOAD # NONE
  BY DEF ProtocolInv, ServiceInv, Length, TASK_A_MSG, BENCH_PAYLOAD, NONE
<1>2. Serving(EP_UART) = IF pending[EP_UART] = NONE THEN caller[EP_UART]
                                                     ELSE NONE
  <2>1. CASE caller[EP_UART] = NONE
    BY <2>1 DEF Serving
  <2>2. CASE caller[EP_UART] = A
    <3>1. receiver[EP_UART] = NONE /\ OnItsWay
      BY <1>1, <2>2 DEF WriteInv
    <3>2. pending[EP_UART] = NONE <=> pc[B] \in {"got", "written"}
      BY <1>1, <3>1 DEF OnItsWay
    <3> QED BY <2>2, <3>1, <3>2 DEF Serving
  <2> QED BY <1>1, <2>1, <2>2 DEF WriteInv
<1>3. Serving(EP_BENCH) = IF pending[EP_BENCH] = NONE THEN caller[EP_BENCH]
                                                       ELSE NONE
  <2>1. CASE caller[EP_BENCH] = NONE
    BY <2>1 DEF Serving
  <2>2. CASE caller[EP_BENCH] = A
    <3>1. receiver[EP_BENCH] = NONE /\ owner_slot(EP_BENCH) = C
      BY <1>1, <2>2 DEF EchoInv
    <3>2. pending[EP_BENCH] = NONE <=> pc[C] \in {"got", "written"}
      BY <1>1, <2>2 DEF EchoInv
    <3> QED BY <2>2, <3>1, <3>2 DEF Serving
  <2> QED BY <1>1, <2>1, <2>2 DEF EchoInv
<1>4. \A ep \in Eps : ep = EP_UART \/ ep = EP_BENCH
  BY DEF Eps, EpIds, EP_NONE, EP_COUNT, EP_UART, EP_BENCH
<1> QED BY <1>2, <1>3, <1>4 DEF Taken, Served

LEMMA ServedNextTaken == ProtocolInv' => ServedTaken'
BY ServedIsTaken, PTL

(* The actions of Rendezvous, with Sender and Taken for its variables.     *)
LEMMA AsStutter ==
  ASSUME ProtocolInv, ProtocolInv', UNCHANGED vars
  PROVE  UNCHANGED Protocol!rvVars
<1>1. Sender' = Sender /\ Taken' = Taken
  BY DEF Sender, Taken, vars, ipcVars
<1> QED BY <1>1, SameKernel, ServedIsTaken, ServedNextTaken
        DEF Protocol!rvVars, Protocol!vars, Protocol!threadVars,
            Protocol!ipcVars, Protocol!supervisorVars, vars, threadVars,
            ipcVars, supervisorVars, Sender, Served, ServedTaken

LEMMA AsAsk ==
  ASSUME ProtocolInv, ProtocolInv',
         \/ \E len \in Lengths : SYS_write(len, TRUE, TRUE)
         \/ \E ep \in EpIds, len, cap \in Lengths :
              /\ owner_slot(ep) # current
              /\ SYS_ipc_call(ep, len, cap, TRUE, TRUE),
         Sender' = [ep \in Eps |->
           IF caller[ep] # current /\ caller'[ep] = current
              /\ receiver[ep] = NONE
           THEN current ELSE Sender[ep]],
         Taken' = [ep \in Eps |->
           IF caller[ep] # current /\ caller'[ep] = current
              /\ receiver[ep] # NONE
           THEN current ELSE Taken[ep]]
  PROVE  Protocol!Ask
BY SameKernel, ServedIsTaken, ServedNextTaken
   DEF Protocol!Ask, Protocol!Owns, Protocol!Calls, Sender, Served, ServedTaken

LEMMA AsReceive ==
  ASSUME ProtocolInv, ProtocolInv',
         NEW ep \in EpIds, NEW cap \in Lengths,
         SYS_ipc_recv(ep, cap, TRUE, TRUE),
         ep \in Eps, Taken[ep] = NONE,
         IF Serves(ep, TRUE) /\ pending[ep] # NONE
         THEN /\ Taken' = [Taken EXCEPT ![ep] = Sender[ep]]
              /\ Sender' = [Sender EXCEPT ![ep] = NONE]
         ELSE UNCHANGED <<Sender, Taken>>
  PROVE  Protocol!Receive
BY SameKernel, ServedIsTaken, ServedNextTaken
   DEF Protocol!Receive, Protocol!Owns, Sender, Served, ServedTaken

LEMMA AsReply ==
  ASSUME ProtocolInv, ProtocolInv',
         NEW ep \in EpIds, NEW len \in Lengths, SYS_ipc_reply(ep, len, TRUE),
         Taken[ep] # NONE, ReplyAdmitted(ep, len, TRUE),
         Taken' = [Taken EXCEPT ![ep] = NONE], UNCHANGED Sender
  PROVE  Protocol!Reply
<1>1. Served = Taken /\ Served' = Taken'
  BY ServedIsTaken, ServedNextTaken DEF ServedTaken
<1>2. /\ Protocol!SYS_ipc_reply(ep, len, TRUE)
      /\ Protocol!ReplyAdmitted(ep, len, TRUE)
  BY SameKernel
<1>3. /\ ep \in Protocol!EpIds /\ Served[ep] # Protocol!NONE
      /\ Served' = [Served EXCEPT ![ep] = Protocol!NONE]
  BY <1>1, SameKernel
<1> QED BY <1>2, <1>3 DEF Protocol!Reply, Protocol!Owns, Sender, Served

LEMMA AsOther ==
  ASSUME ProtocolInv, ProtocolInv', UNCHANGED ipcVars,
         \/ SYS_yield(TRUE) \/ SYS_time_ticks \/ SYS_supervise_wait(TRUE)
         \/ SYS_task_restart(B) \/ thread_user_fault(TRUE) \/ Internal
  PROVE  Protocol!Others
<1>1. Sender' = Sender /\ Taken' = Taken
  BY DEF Sender, Taken, ipcVars
<1>2. Served' = Served
  BY <1>1, ServedIsTaken, ServedNextTaken DEF ServedTaken
<1>3. B \in Protocol!Slots
  BY ProgramSlots, SameKernel DEF UserSlots
<1>4. \/ Protocol!SYS_yield(TRUE) \/ Protocol!SYS_time_ticks
      \/ Protocol!SYS_supervise_wait(TRUE) \/ Protocol!SYS_task_restart(B)
      \/ Protocol!thread_user_fault(TRUE) \/ Protocol!Internal
  BY SameKernel
<1> QED BY <1>1, <1>2, <1>3, <1>4 DEF Protocol!Others, Sender, Served

LEMMA AsReturns ==
  ASSUME ProtocolInv, ProtocolInv', TaskReturns
  PROVE  Protocol!Returns
<1>1. UNCHANGED ipcVars
  BY QuietDeath DEF ProtocolInv
<1>2. Sender' = Sender /\ Taken' = Taken
  BY <1>1 DEF Sender, Taken, ipcVars
<1>3. ASSUME NEW ep \in Eps, owner_slot(ep) = current,
             reason[current] \in Deaths
      PROVE  Taken[ep] = NONE
  <2>1. current = B /\ caller[EP_UART] = NONE
    BY <1>3 DEF TaskReturns, user_task_return_step, At, ProtocolInv,
                ServiceInv, SysInv, NoticeInv, CrashInv
  <2>2. ep = EP_UART
    BY <1>3, <2>1, ProgramSlots, NoneIsNoTask DEF owner_slot
  <2> QED BY <2>1, <2>2 DEF Taken
<1> QED BY <1>1, <1>2, <1>3, SameKernel, ServedIsTaken, ServedNextTaken
        DEF Protocol!Returns, Protocol!Owns, Sender, Taken, Served, ServedTaken,
            ipcVars

(* A request that is admitted is queued, or taken at once.                 *)
LEMMA RequestAsk ==
  ASSUME ProtocolInv, NEW ep \in Eps, NEW len, NEW cap, NEW ovr,
         CallAdmitted(ep, len, TRUE), len # NONE, Request(ep, len, cap, ovr, TRUE)
  PROVE  /\ Sender' = [e \in Eps |->
              IF caller[e] # current /\ caller'[e] = current
                 /\ receiver[e] = NONE
              THEN current ELSE Sender[e]]
         /\ Taken' = [e \in Eps |->
              IF caller[e] # current /\ caller'[e] = current
                 /\ receiver[e] # NONE
              THEN current ELSE Taken[e]]
<1>1. /\ IpcTypeOK /\ pending[ep] = NONE /\ caller[ep] = NONE
      /\ current \in UserSlots
  BY WaitersAtEL0
     DEF ProtocolInv, ServiceInv, SysInv, KernelInv, TypeOK, CallAdmitted,
         Request, thread_user_trap_redirect
<1>2. caller' = [caller EXCEPT ![ep] = current] /\ current # NONE
  BY <1>1, NoneIsNoTask DEF Request
<1>3. \/ receiver[ep] # NONE /\ pending' = pending
      \/ receiver[ep] = NONE /\ pending' = [pending EXCEPT ![ep] = len]
  BY DEF Request
<1> QED BY <1>1, <1>2, <1>3 DEF Sender, Taken, IpcTypeOK

(* A call that is answered at once asks nobody.                            *)
LEMMA AnswerAsk ==
  ASSUME UNCHANGED ipcVars
  PROVE  /\ Sender' = [e \in Eps |->
              IF caller[e] # current /\ caller'[e] = current
                 /\ receiver[e] = NONE
              THEN current ELSE Sender[e]]
         /\ Taken' = [e \in Eps |->
              IF caller[e] # current /\ caller'[e] = current
                 /\ receiver[e] # NONE
              THEN current ELSE Taken[e]]
BY DEF Sender, Taken, ipcVars

LEMMA WriteAsk ==
  ASSUME ProtocolInv, ProtocolInv', NEW len \in Lengths,
         SYS_write(len, TRUE, TRUE)
  PROVE  Protocol!Ask
<1>1. len # NONE
  BY IpcAssumption DEF NONE
<1>2. CASE UNCHANGED ipcVars
  BY <1>2, AnswerAsk, AsAsk
<1>3. CASE ~UNCHANGED ipcVars
  <2>1. CallAdmitted(EP_UART, len, TRUE) /\ Request(EP_UART, len, 0, len, TRUE)
    BY <1>3 DEF SYS_write, ipc_route_uart_write, Return, Answer
  <2> QED BY <1>1, <2>1, RequestAsk, TwoEndpoints, AsAsk
<1> QED BY <1>2, <1>3

LEMMA CallAsk ==
  ASSUME ProtocolInv, ProtocolInv', current = A,
         SYS_ipc_call(EP_BENCH, BENCH_PAYLOAD, BENCH_PAYLOAD, TRUE, TRUE)
  PROVE  Protocol!Ask
<1>1. /\ BENCH_PAYLOAD # NONE /\ BENCH_PAYLOAD \in Lengths
      /\ EP_BENCH \in EpIds /\ owner_slot(EP_BENCH) # current
  BY LengthsAssumption, EndpointIds, ProgramSlots, NoneIsNoTask
     DEF BENCH_PAYLOAD, NONE, owner_slot
<1>2. CASE UNCHANGED ipcVars
  BY <1>1, <1>2, AnswerAsk, AsAsk
<1>3. CASE ~UNCHANGED ipcVars
  <2>1. /\ CallAdmitted(EP_BENCH, BENCH_PAYLOAD, TRUE)
        /\ Request(EP_BENCH, BENCH_PAYLOAD, BENCH_PAYLOAD, 0, TRUE)
    BY <1>3 DEF SYS_ipc_call, ipc_syscall_call, Answer
  <2> QED BY <1>1, <2>1, RequestAsk, TwoEndpoints, AsAsk
<1> QED BY <1>2, <1>3

(* A server that serves nobody receives.                                   *)
LEMMA ServerReceives ==
  ASSUME ProtocolInv, ProtocolInv', NEW ep \in Eps, NEW cap \in Lengths,
         SYS_ipc_recv(ep, cap, TRUE, TRUE), Taken[ep] = NONE
  PROVE  Protocol!Receive
<1>1. ep \in EpIds /\ IpcTypeOK
  BY DEF Eps, ProtocolInv, ServiceInv, SysInv, KernelInv, TypeOK
<1>2. caller' = caller
  BY DEF SYS_ipc_recv, ipc_syscall_recv, Answer, ipcVars
<1>3. CASE Serves(ep, TRUE) /\ pending[ep] # NONE
  <2>1. pending' = [pending EXCEPT ![ep] = NONE]
    BY <1>3 DEF SYS_ipc_recv, ipc_syscall_recv
  <2>2. /\ Taken' = [Taken EXCEPT ![ep] = Sender[ep]]
        /\ Sender' = [Sender EXCEPT ![ep] = NONE]
    BY <1>1, <1>2, <1>3, <2>1 DEF Taken, Sender, IpcTypeOK
  <2> QED BY <1>1, <1>3, <2>2, AsReceive
<1>4. CASE ~(Serves(ep, TRUE) /\ pending[ep] # NONE)
  <2>1. pending' = pending
    BY <1>4 DEF SYS_ipc_recv, ipc_syscall_recv, Answer, ipcVars
  <2>2. Taken' = Taken /\ Sender' = Sender
    BY <1>2, <2>1 DEF Taken, Sender
  <2> QED BY <1>1, <1>4, <2>2, AsReceive
<1> QED BY <1>3, <1>4

(* A server that serves somebody replies to him.                           *)
LEMMA ServerReplies ==
  ASSUME ProtocolInv, ProtocolInv', NEW ep \in Eps, NEW len \in Lengths,
         len <= IPC_MSG_SIZE, owner_slot(ep) = current,
         SYS_ipc_reply(ep, len, TRUE),
         caller[ep] # NONE, pending[ep] = NONE
  PROVE  Protocol!Reply
<1>1. ep \in EpIds /\ IpcTypeOK
  BY DEF Eps, ProtocolInv, ServiceInv, SysInv, KernelInv, TypeOK
<1>2. ReplyAdmitted(ep, len, TRUE)
  BY DEF ReplyAdmitted, Serves
<1>3. caller' = [caller EXCEPT ![ep] = NONE] /\ pending' = pending
  BY <1>2 DEF SYS_ipc_reply, ipc_syscall_reply
<1>4. /\ Taken[ep] # NONE
      /\ Taken' = [Taken EXCEPT ![ep] = NONE]
      /\ Sender' = Sender
  BY <1>1, <1>3 DEF Taken, Sender, IpcTypeOK
<1> QED BY <1>1, <1>2, <1>4, AsReply

LEMMA ProtocolA ==
  ASSUME ProtocolInv, ProtocolInv', TaskA
  PROVE  Protocol!RvNext \/ UNCHANGED Protocol!rvVars
<1> USE LengthsAssumption
<1>1. CASE task_a_start \/ task_a_poll \/ task_a_yield
  BY <1>1, AsOther DEF task_a_start, task_a_poll, task_a_yield,
     SYS_time_ticks, SYS_yield, Return, Answer, Redirect, Protocol!RvNext
<1>2. CASE task_a_write
  BY <1>2, WriteAsk DEF task_a_write, TaskAWrite, Protocol!RvNext
<1>3. CASE bench_call
  <2>1. CASE SYS_write(BENCH_PAYLOAD, TRUE, TRUE)
    BY <2>1, WriteAsk DEF Protocol!RvNext
  <2>2. CASE SYS_ipc_call(EP_BENCH, BENCH_PAYLOAD, BENCH_PAYLOAD, TRUE, TRUE)
    BY <1>3, <2>2, CallAsk DEF bench_call, Goes, Protocol!RvNext
  <2>3. CASE SYS_yield(TRUE)
    BY <2>3, AsOther DEF SYS_yield, Redirect, Protocol!RvNext
  <2> QED BY <1>3, <2>1, <2>2, <2>3 DEF bench_call, TaskAWrite
<1>4. CASE bench_next
  BY <1>4, AsStutter DEF bench_next
<1> QED BY <1>1, <1>2, <1>3, <1>4 DEF TaskA

LEMMA ProtocolB ==
  ASSUME ProtocolInv, ProtocolInv', TaskB
  PROVE  Protocol!RvNext \/ UNCHANGED Protocol!rvVars
<1> USE LengthsAssumption, TwoEndpoints
<1>1. /\ At("el0") /\ current = B /\ WriteInv /\ SysInv
  BY DEF TaskB, uart_ready, uart_recv, uart_write, uart_reply, uart_crash,
         uart_again, Goes, ProtocolInv, ServiceInv
<1>2. CASE uart_ready
  BY <1>2, WriteAsk DEF uart_ready, Protocol!RvNext
<1>3. CASE uart_recv
  <2>1. pc[B] = "recv" /\ SYS_ipc_recv(EP_UART, IPC_MSG_SIZE, TRUE, TRUE)
    BY <1>3 DEF uart_recv, Goes
  <2>2. pending[EP_UART] = NONE => caller[EP_UART] = NONE
    <3>1. Length # NONE
      BY DEF Length, TASK_A_MSG, BENCH_PAYLOAD, NONE
    <3> QED BY <1>1, <2>1, <3>1 DEF WriteInv, OnItsWay
  <2>3. Taken[EP_UART] = NONE
    BY <2>2 DEF Taken
  <2> QED BY <2>1, <2>3, ServerReceives DEF Protocol!RvNext
<1>4. CASE uart_write
  <2>1. x0[B] \in Lengths
    BY <1>1, <1>4, AtWork DEF uart_write, Goes
  <2> QED BY <1>4, <2>1, WriteAsk DEF uart_write, Protocol!RvNext
<1>5. CASE uart_reply
  <2>1. pc[B] = "written" /\ SYS_ipc_reply(EP_UART, 0, TRUE)
    BY <1>5 DEF uart_reply, Goes
  <2>2. caller[EP_UART] # NONE /\ pending[EP_UART] = NONE
    BY <1>1, <2>1 DEF WriteInv, OnItsWay
  <2>3. 0 \in Lengths /\ 0 <= IPC_MSG_SIZE
    BY IpcAssumption
  <2> QED BY <1>1, <2>1, <2>2, <2>3, ServerReplies DEF Protocol!RvNext
<1>6. CASE uart_crash
  BY <1>6, AsOther DEF uart_crash, thread_user_fault, Redirect, Protocol!RvNext
<1>7. CASE uart_again
  BY <1>7, AsStutter DEF uart_again
<1> QED BY <1>2, <1>3, <1>4, <1>5, <1>6, <1>7 DEF TaskB

LEMMA ProtocolC ==
  ASSUME ProtocolInv, ProtocolInv', TaskC
  PROVE  Protocol!RvNext \/ UNCHANGED Protocol!rvVars
<1> USE LengthsAssumption, TwoEndpoints
<1>1. /\ At("el0") /\ current = C /\ EchoInv /\ KernelInv /\ ~Queued(C)
  <2>1. At("el0") /\ current = C
    BY DEF TaskC, echo_recv, echo_reply, sup_ready, sup_wait, sup_restart,
           sup_restarted, Goes
  <2> QED BY <2>1, WaitersAtEL0 DEF ProtocolInv, ServiceInv, SysInv
<1>2. CASE echo_recv
  <2>1. pc[C] = "recv" /\ SYS_ipc_recv(EP_BENCH, IPC_MSG_SIZE, TRUE, TRUE)
    BY <1>2 DEF echo_recv, Goes
  <2>2. pending[EP_BENCH] = NONE => caller[EP_BENCH] = NONE
    <3>1. BENCH_PAYLOAD # NONE
      BY DEF BENCH_PAYLOAD, NONE
    <3> QED BY <1>1, <2>1, <3>1 DEF EchoInv
  <2>3. Taken[EP_BENCH] = NONE
    BY <2>2 DEF Taken
  <2> QED BY <2>1, <2>3, ServerReceives DEF Protocol!RvNext
<1>3. CASE echo_reply
  <2>1. receiver[EP_BENCH] = NONE
    BY <1>1, NoneIsNoTask, ProgramSlots
       DEF Queued, KernelInv, WaitersAreOwners, owner_slot
  <2>2. pc[C] = "got"
    BY <1>3 DEF echo_reply, Goes
  <2>3. /\ caller[EP_BENCH] = A /\ pending[EP_BENCH] = NONE
        /\ owner_slot(EP_BENCH) = C /\ x0[C] = BENCH_PAYLOAD
    BY <1>1, <2>1, <2>2 DEF EchoInv
  <2>4. SYS_ipc_reply(EP_BENCH, x0[C], TRUE)
    <3>1. x0[C] # FAIL
      BY <2>3 DEF BENCH_PAYLOAD, FAIL
    <3> QED BY ONLY <1>3, <3>1 DEF echo_reply
  <2>5. x0[C] \in Lengths /\ x0[C] <= IPC_MSG_SIZE
    BY <2>3, IpcAssumption
  <2>6. caller[EP_BENCH] # NONE
    BY <2>3, ProgramSlots, NoneIsNoTask
  <2> QED BY <1>1, <2>3, <2>4, <2>5, <2>6, ServerReplies DEF Protocol!RvNext
<1>4. CASE sup_ready
  BY <1>4, WriteAsk DEF sup_ready, Protocol!RvNext
<1>5. CASE sup_wait
  BY <1>5, AsOther DEF sup_wait, SYS_supervise_wait, Protocol!RvNext
<1>6. CASE sup_restart
  BY <1>6, AsOther, AsStutter
     DEF sup_restart, SYS_task_restart, Protocol!RvNext
<1>7. CASE sup_restarted
  <2>1. CASE SYS_write(NOTICE_MSG, TRUE, TRUE)
    BY <2>1, WriteAsk DEF Protocol!RvNext
  <2>2. CASE UNCHANGED vars
    BY <2>2, AsStutter
  <2> QED BY <1>7, <2>1, <2>2 DEF sup_restarted
<1> QED BY <1>2, <1>3, <1>4, <1>5, <1>6, <1>7 DEF TaskC

LEMMA ProtocolStep ==
  ASSUME ProtocolInv, ProtocolInv', [SysNext]_sysVars
  PROVE  [Protocol!RvNext]_(Protocol!rvVars)
<1>1. CASE UNCHANGED sysVars
  BY <1>1, AsStutter DEF sysVars
<1>2. CASE TaskA \/ TaskB \/ TaskC
  BY <1>2, ProtocolA, ProtocolB, ProtocolC
<1>3. CASE TaskReturns
  BY <1>3, AsReturns DEF Protocol!RvNext
<1>4. CASE /\ SchedulerStep \/ thread_tick_irq
           /\ UNCHANGED <<ipcVars, supervisorVars>>
  BY <1>4, AsOther DEF Internal, Protocol!RvNext
<1> QED BY <1>1, <1>2, <1>3, <1>4 DEF SysNext, CpuStep, KernelStep, Tick

(* The shipped servers, task B and in LATENCY task C, keep the protocol    *)
(* under which replies match requests: the system implements Rendezvous in *)
(* every flavour and mode, whatever the order in which calls, receives,    *)
(* the crash and the restart come (ipc.c, user_tasks.c).                   *)
THEOREM SystemKeepsProtocol == SysSpec => KeepsProtocol
<1>1. SysInit => Protocol!RvInit
  <2> SUFFICES ASSUME SysInit PROVE Protocol!RvInit
    OBVIOUS
  <2>1. Protocol!Init /\ caller = [ep \in Eps |-> NONE]
    BY SameKernel DEF SysInit, Init, IpcInit
  <2>2. Sender = [ep \in Eps |-> NONE] /\ Served = [ep \in Eps |-> NONE]
    BY <2>1 DEF Sender, Served, Serving
  <2> QED BY <2>1, <2>2, SameKernel DEF Protocol!RvInit, Sender, Served
<1>2. ProtocolInv /\ ProtocolInv' /\ [SysNext]_sysVars
        => [Protocol!RvNext]_(Protocol!rvVars)
  BY ProtocolStep
<1> QED BY <1>1, <1>2, ProtocolInvInit, ProtocolInvStep, PTL
        DEF SysSpec, KeepsProtocol, Protocol!RvSpec

-----------------------------------------------------------------------------
(* The recovery benchmark measures a recovery                              *)

(* The recovery build of the MICRO kernel, with the slots in the order of  *)
(* thread.h: the scan that starts behind the server comes to the           *)
(* supervisor before it comes to the client.                               *)
RecoveryBuild ==
  /\ BENCH_MODE = "RECOVERY" /\ KERNEL_FLAVOR = "MICRO"
  /\ (C - B - 1) % THREAD_COUNT < (A - B - 1) % THREAD_COUNT

(* Where the CPU is while the server is dead: on its way from the server   *)
(* to somebody who is not the client, and there it stays.                  *)
AwayFromClient ==
  \/ phase = "pick" /\ current = B
  \/ phase = "switch" /\ current = B /\ next \in UserSlots \ {A}
  \/ phase \in {"landed", "resume", "el0"} /\ current \in UserSlots \ {A, B}

(* The measured write has been asked for.                                  *)
Measuring == pc[A] = "returned" /\ section = 2

(* The measured write ends with a reply of the server, after which it goes *)
(* straight into its crash unless it has had it; a supervisor is alive and *)
(* comes to run before the client does.                                    *)
RecoveryInv ==
  /\ RecoveryBuild
  /\ ProtocolInv /\ NoSleepOnPending
  /\ section \in Nat \ {0}
  /\ Measuring => caller[EP_UART] = A \/ pc[B] = "served" \/ crashed
  /\ ustate[C] # "DEAD"
  /\ ustate[B] = "DEAD" => AwayFromClient

(* The supervisor waits for notices only.                                  *)
LEMMA SupervisorWaits ==
  ASSUME RecoveryInv, ustate[B] = "DEAD"
  PROVE  ~Queued(C)
<1> USE ProgramSlots, TwoEndpoints, NoneIsNoTask
<1>1. /\ KernelInv /\ WriteInv /\ EchoInv /\ NoticeInv /\ NoSleepOnPending
      /\ BENCH_MODE = "RECOVERY"
  BY DEF RecoveryInv, RecoveryBuild, ProtocolInv, ServiceInv, SysInv
<1>2. owner_slot(EP_BENCH) = NONE
  BY <1>1 DEF owner_slot, EP_BENCH, EP_UART
<1>3. \A ep \in Eps : ep = EP_UART \/ ep = EP_BENCH
  BY DEF Eps, EpIds, EP_NONE, EP_COUNT, EP_UART, EP_BENCH
<1>4. receiver[EP_BENCH] # C /\ receiver[EP_UART] # C
  BY <1>1, <1>2 DEF KernelInv, WaitersAreOwners
<1>5. caller[EP_BENCH] # C /\ caller[EP_UART] # C
  BY <1>1 DEF WriteInv, EchoInv
<1>6. blockedSupervisor # C
  <2>1. SUFFICES ASSUME blockedSupervisor = C PROVE FALSE
    OBVIOUS
  <2>2. pendingDeath = NONE
    BY <1>1, <2>1 DEF NoSleepOnPending
  <2> QED BY <1>1, <2>1, <2>2 DEF NoticeInv, Queued
<1> QED BY <1>3, <1>4, <1>5, <1>6 DEF Queued

(* So the scan finds it first.                                             *)
LEMMA PickedAway ==
  ASSUME RecoveryInv, ustate[B] = "DEAD", current = B, thread_resched_point_pick
  PROVE  next' \in UserSlots \ {A} /\ phase' = "switch" /\ current' = current
<1> USE ProgramSlots
<1>1. /\ KernelInv /\ panic = "none" /\ ThreadTypeOK
      /\ At("pick")
  BY DEF RecoveryInv, ProtocolInv, ServiceInv, SysInv, KernelInv, TypeOK,
         thread_resched_point_pick
<1>2. C \in Candidates
  <2>1. ustate[C] # "BLOCKED"
    BY <1>1, SupervisorWaits DEF KernelInv, BlockedIffQueued
  <2>2. ustate[C] # "DEAD" /\ tstate[C] # "STOPPED"
    BY <1>1 DEF RecoveryInv, KernelInv, SchedulerInv
  <2>3. tstate[C] \in TStates
    BY <1>1 DEF ThreadTypeOK, UserSlots
  <2> QED BY <2>1, <2>2, <2>3 DEF Candidates, thread_is_selectable, TStates
<1>3. next' \in pick_next_thread
  <2>1. pick_next_thread # {}
    BY <1>1, <1>2, PickFinds DEF Candidates
  <2> QED BY <2>1 DEF thread_resched_point_pick, PickOrIdle
<1>4. next' \in Candidates /\ RingDistance(next') <= RingDistance(C)
  BY <1>2, <1>3 DEF pick_next_thread
<1>5. RingDistance(C) = (C - B - 1) % THREAD_COUNT
      /\ RingDistance(A) = (A - B - 1) % THREAD_COUNT
  BY NoneIsNoTask DEF RingDistance
<1>6. RingDistance(C) < RingDistance(A)
  BY <1>5 DEF RecoveryInv, RecoveryBuild
<1>7. RingDistance(A) \in Int /\ RingDistance(C) \in Int
  BY <1>1, RingDistanceType, ThreadAssumption DEF UserSlots
<1>8. next' # A
  BY <1>4, <1>6, <1>7
<1> QED BY <1>4, <1>8 DEF Candidates, thread_resched_point_pick

(* The supervisor, once it runs, restarts the server before it gives up    *)
(* the CPU.                                                                *)
LEMMA SupervisorStays ==
  ASSUME RecoveryInv, ustate[B] = "DEAD", SysNext, TaskC
  PROVE  phase' = "el0" /\ current' = current
<1> USE ProgramSlots
<1>1. /\ At("el0") /\ current = C /\ NoticeInv /\ BENCH_MODE = "RECOVERY"
      /\ pendingDeath = B \/ pc[C] = "noticed"
  BY DEF TaskC, echo_recv, echo_reply, sup_ready, sup_wait, sup_restart,
         sup_restarted, Goes, RecoveryInv, RecoveryBuild, ProtocolInv,
         ServiceInv, SysInv, NoticeInv
<1>2. ASSUME NEW r, NEW wake, SyscallReturn(r, wake)
      PROVE  phase' = "el0" /\ current' = current
  BY <1>2 DEF SyscallReturn, At
<1>3. CASE sup_ready \/ sup_restarted
  <2>1. UNCHANGED vars => phase' = phase /\ current' = current
    BY DEF vars, threadVars
  <2> QED BY <1>1, <1>2, <1>3, <2>1, DirectWrite DEF sup_ready, sup_restarted, At
<1>4. CASE sup_wait
  <2>1. pendingDeath = B
    BY <1>1, <1>4 DEF sup_wait, Goes
  <2> QED BY <1>1, <1>2, <1>4, <2>1, NoneIsNoTask
          DEF sup_wait, SYS_supervise_wait, supervisor_syscall_wait
<1>5. CASE sup_restart
  <2>1. UNCHANGED vars => phase' = phase /\ current' = current
    BY DEF vars, threadVars
  <2>2. SYS_task_restart(B) => phase' = "el0" /\ current' = current
    BY <1>1, <1>2 DEF SYS_task_restart, supervisor_syscall_restart,
                      thread_user_restart, At
  <2> QED BY <1>1, <1>5, <2>1, <2>2 DEF sup_restart, At
<1> QED BY <1>1, <1>3, <1>4, <1>5 DEF TaskC, echo_recv, echo_reply

(* What a step does to the CPU's way to somebody else.                     *)
LEMMA AwayStep ==
  ASSUME RecoveryInv, [SysNext]_sysVars, KernelInv', ustate'[B] = "DEAD"
  PROVE  AwayFromClient'
<1> USE ProgramSlots
<1>0. /\ SysInv /\ KernelInv /\ panic = "none" /\ NoticeInv
  BY DEF RecoveryInv, ProtocolInv, ServiceInv, SysInv
<1>1. CASE UNCHANGED vars
  <2>1. AwayFromClient' = AwayFromClient /\ ustate' = ustate
    BY <1>1 DEF vars, threadVars, AwayFromClient
  <2> QED BY <2>1 DEF RecoveryInv
<1>2. CASE SysNext /\ ShippedNext /\ ustate[B] # "DEAD"
  <2>1. TaskReturns /\ B = current
    BY <1>0, <1>2, DeathStep, ShippedIsKernel
  <2> QED BY <2>1 DEF TaskReturns, user_task_return_step, AwayFromClient
<1>3. CASE SysNext /\ ustate[B] = "DEAD"
  <2>0. AwayFromClient
    BY <1>3 DEF RecoveryInv
  <2>1. CASE TaskA \/ TaskB
    <3>1. At("el0") /\ current \in {A, B}
      BY <2>1 DEF TaskA, task_a_start, task_a_poll, task_a_write, task_a_yield,
                  bench_call, bench_next, TaskB, uart_ready, uart_recv,
                  uart_write, uart_reply, uart_crash, uart_again, Goes
    <3> QED BY <2>0, <3>1 DEF AwayFromClient, At
  <2>2. CASE TaskC
    <3>1. phase' = "el0" /\ current' = current
      BY <1>3, <2>2, SupervisorStays
    <3>2. current = C
      BY <2>2 DEF TaskC, echo_recv, echo_reply, sup_ready, sup_wait,
                  sup_restart, sup_restarted, Goes
    <3> QED BY <3>1, <3>2 DEF AwayFromClient
  <2>3. CASE Tick \/ el0_resume \/ thread_resched_point_idle
    BY <2>0, <2>3 DEF Tick, thread_tick_irq, ChargeTick, el0_resume,
                      thread_resched_point_idle, At, AwayFromClient
  <2>4. CASE thread_resched_point_pick
    <3>1. current = B
      BY <2>0, <2>4 DEF thread_resched_point_pick, At, AwayFromClient
    <3> QED BY <1>3, <2>4, <3>1, PickedAway DEF AwayFromClient
  <2>5. CASE thread_switch_to
    <3>1. phase = "switch" /\ current = B /\ next \in UserSlots \ {A}
      BY <2>0, <2>5 DEF thread_switch_to, At, AwayFromClient
    <3>2. thread_is_selectable(next)
      BY <1>0, <3>1 DEF KernelInv, SchedulerInv
    <3>3. next # B
      BY <1>3, <3>2 DEF thread_is_selectable
    <3>4. phase' = "landed" /\ current' = next
      BY <2>5, <3>1, <3>3 DEF thread_switch_to
    <3> QED BY <3>1, <3>3, <3>4 DEF AwayFromClient
  <2>6. CASE thread_enter_el0 \/ thread_entry_idle \/ user_task_resume
    <3>1. phase = "landed" /\ current \in UserSlots \ {A, B}
      BY <2>0, <2>6 DEF thread_enter_el0, thread_entry_idle, user_task_resume,
                        At, AwayFromClient
    <3>2. phase' = "resume" /\ current' = current
      BY <2>6, <3>1 DEF thread_enter_el0, thread_entry_idle, user_task_resume,
                        UserSlots
    <3> QED BY <3>1, <3>2 DEF AwayFromClient
  <2>7. ~TaskReturns
    BY <2>0 DEF TaskReturns, user_task_return_step, At, AwayFromClient
  <2> QED BY <1>3, <2>1, <2>2, <2>3, <2>4, <2>5, <2>6, <2>7
          DEF SysNext, CpuStep, KernelStep, SchedulerStep
<1>4. UNCHANGED vars \/ (SysNext /\ ShippedNext)
  BY <1>0, SysShipped DEF sysVars
<1> QED BY <1>1, <1>2, <1>3, <1>4

(* A write of the client is routed, and admitted.                          *)
LEMMA RoutedCall ==
  ASSUME ServiceInv, At("el0"), current = A, KERNEL_FLAVOR = "MICRO",
         TaskAWrite(BENCH_PAYLOAD)
  PROVE  caller'[EP_UART] = A
<1> USE ProgramSlots, TwoEndpoints
<1>1. WriteInv /\ IpcTypeOK /\ ~Queued(A)
  BY WaitersAtEL0 DEF ServiceInv, SysInv, KernelInv, TypeOK
<1>2. caller[EP_UART] = NONE /\ pending[EP_UART] = NONE
  BY <1>1 DEF WriteInv, Queued
<1>3. BENCH_PAYLOAD \in 1 .. IPC_MSG_SIZE
  BY LengthsAssumption, IpcAssumption DEF BENCH_PAYLOAD
<1>4. CallAdmitted(EP_UART, BENCH_PAYLOAD, TRUE)
  BY <1>2, <1>3, IpcAssumption, NoneIsNoTask DEF CallAdmitted
<1>5. RoutesWrite
  BY DEF RoutesWrite
<1>6. Request(EP_UART, BENCH_PAYLOAD, 0, BENCH_PAYLOAD, TRUE)
  BY <1>4, <1>5 DEF TaskAWrite, SYS_write, ipc_route_uart_write
<1> QED BY <1>1, <1>6 DEF Request, IpcTypeOK

(* From the measured call to the return the write is in flight, or the     *)
(* server has replied and stands before its crash, or has had it.          *)
LEMMA MeasuringStep ==
  ASSUME RecoveryInv, [SysNext]_sysVars, Measuring'
  PROVE  caller'[EP_UART] = A \/ pc'[B] = "served" \/ crashed'
<1> USE ProgramSlots, IsProgram, TwoEndpoints
<1>0. /\ ProtocolInv /\ ServiceInv /\ PcOK /\ CrashInv /\ IpcTypeOK
      /\ BENCH_MODE = "RECOVERY" /\ KERNEL_FLAVOR = "MICRO"
  BY DEF RecoveryInv, RecoveryBuild, ProtocolInv, ServiceInv, SysInv, KernelInv,
         TypeOK
<1>1. CASE TaskA
  <2>1. pc'[A] = "returned" /\ section' = 2
    BY DEF Measuring
  <2>2. bench_call
    <3>1. CASE task_a_start \/ task_a_poll \/ task_a_write \/ bench_next
      BY <1>0, <2>1, <3>1, Moves
         DEF task_a_start, task_a_poll, task_a_write, bench_next
    <3>2. CASE task_a_yield
      BY <1>0, <2>1, <3>2, Moves DEF task_a_yield
    <3> QED BY <1>1, <3>1, <3>2 DEF TaskA
  <2>3. section = 2 /\ At("el0") /\ current = A
    BY <1>0, <2>1, <2>2, Moves DEF bench_call
  <2>4. ~Finished /\ Script[section].op = "write"
    BY <1>0, <2>3 DEF Finished, Script, bench_run_recovery, Section
  <2>5. TaskAWrite(BENCH_PAYLOAD)
    BY <2>2, <2>4 DEF bench_call
  <2> QED BY <1>0, <2>3, <2>5, RoutedCall
<1>2. CASE ~TaskA
  <2>1. pc'[A] = pc[A] /\ section' = section
    <3>1. CASE TaskB
      BY <1>0, <3>1, Moves DEF TaskB, uart_ready, uart_recv, uart_write,
                               uart_reply, uart_crash, uart_again
    <3>2. CASE TaskC /\ ~sup_restart
      BY <1>0, <3>2, Moves DEF TaskC, echo_recv, echo_reply, sup_ready,
                               sup_wait, sup_restarted
    <3>3. CASE sup_restart
      BY <1>0, <3>3 DEF sup_restart, PcOK
    <3>4. CASE KernelStep \/ Tick \/ UNCHANGED sysVars
      BY <3>4 DEF KernelStep, Tick, sysVars, programVars
    <3> QED BY <1>2, <3>1, <3>2, <3>3, <3>4 DEF SysNext, CpuStep
  <2>2. caller[EP_UART] = A \/ pc[B] = "served" \/ crashed
    BY <2>1 DEF RecoveryInv, Measuring
  <2>3. crashed => crashed'
    BY <1>2 DEF SysNext, CpuStep, TaskB, uart_ready, uart_recv, uart_write,
       uart_reply, uart_crash, uart_again, TaskC, echo_recv, echo_reply,
       sup_ready, sup_wait, sup_restart, sup_restarted, KernelStep, Tick,
       sysVars, programVars
  <2>4. CASE pc[B] = "served" /\ ~crashed
    <3>1. At("el0") /\ current = B
      BY <1>0, <2>4 DEF CrashInv
    <3>2. CASE TaskB
      <4>1. CrashesNow
        BY <1>0, <2>4 DEF CrashesNow
      <4>2. uart_crash
        BY <2>4, <3>2, <4>1 DEF TaskB, uart_ready, uart_recv, uart_write,
                                uart_reply, uart_again, Goes
      <4> QED BY <4>2 DEF uart_crash
    <3>3. CASE ~TaskB
      <4>1. pc'[B] = pc[B] \/ current = C
        BY <1>0, <3>1, <3>3, Turns DEF ServiceInv
      <4> QED BY <2>4, <3>1, <4>1
    <3> QED BY <3>2, <3>3
  <2>5. CASE caller[EP_UART] = A
    <3>1. CASE TaskB
      <4>1. CASE uart_reply
        BY <1>0, <4>1, Moves DEF uart_reply
      <4>2. CASE uart_recv
        BY <2>5, <4>2 DEF uart_recv, SYS_ipc_recv, ipc_syscall_recv, Answer,
                          ipcVars
      <4>3. CASE uart_ready \/ uart_write \/ uart_crash \/ uart_again
        <5>1. UNCHANGED ipcVars
          BY <4>3, DirectWrite
             DEF uart_ready, uart_write, uart_crash, uart_again, Goes,
                 thread_user_fault, Redirect, vars
        <5> QED BY <2>5, <5>1 DEF ipcVars
      <4> QED BY <3>1, <4>1, <4>2, <4>3 DEF TaskB
    <3>2. CASE TaskC
      <4>1. UartSame
        <5>1. UNCHANGED ipcVars => UartSame
          BY DEF ipcVars, UartSame
        <5>2. sup_ready \/ sup_wait \/ sup_restart \/ sup_restarted
          BY <1>0, <3>2 DEF TaskC, echo_recv, echo_reply
        <5>3. CASE sup_ready \/ sup_restarted
          BY <5>1, <5>3, DirectWrite DEF sup_ready, sup_restarted, Goes, vars
        <5>4. CASE sup_wait \/ sup_restart
          BY <5>1, <5>4 DEF sup_wait, sup_restart, SYS_supervise_wait,
                            SYS_task_restart, vars
        <5> QED BY <5>2, <5>3, <5>4
      <4> QED BY <2>5, <4>1 DEF UartSame
    <3>3. CASE KernelStep \/ Tick \/ UNCHANGED sysVars
      <4>1. UNCHANGED ipcVars
        BY <1>0, <3>3, QuietDeath DEF KernelStep, Tick, sysVars, vars
      <4> QED BY <2>5, <4>1 DEF ipcVars
    <3> QED BY <1>2, <3>1, <3>2, <3>3 DEF SysNext, CpuStep
  <2> QED BY <2>2, <2>3, <2>4, <2>5
<1> QED BY <1>1, <1>2

(* The section of the script only ever grows.                              *)
LEMMA SectionStep ==
  ASSUME [SysNext]_sysVars, section \in Nat \ {0}
  PROVE  section' \in Nat \ {0}
<1>1. section' = section \/ section' = section + 1
  BY DEF SysNext, CpuStep, TaskA, task_a_start, task_a_poll, task_a_write,
     task_a_yield, bench_call, bench_next, TaskB, uart_ready, uart_recv,
     uart_write, uart_reply, uart_crash, uart_again, TaskC, echo_recv,
     echo_reply, sup_ready, sup_wait, sup_restart, sup_restarted, KernelStep,
     Tick, sysVars, programVars
<1> QED BY <1>1

LEMMA RecoveryInvStep == RecoveryInv /\ [SysNext]_sysVars => RecoveryInv'
<1> SUFFICES ASSUME RecoveryInv, [SysNext]_sysVars PROVE RecoveryInv'
  OBVIOUS
<1> USE ProgramSlots
<1>1. ProtocolInv' /\ KernelInv' /\ [Next]_vars /\ SysInv /\ KernelInv
  BY ProtocolInvStep, SysInvStep
     DEF RecoveryInv, ProtocolInv, ServiceInv, SysInv
<1>2. NoSleepOnPending'
  BY <1>1, SleepStep DEF RecoveryInv
<1>3. section' \in Nat \ {0}
  BY SectionStep DEF RecoveryInv
<1>4. ustate'[C] # "DEAD"
  <2>1. CASE UNCHANGED vars
    BY <2>1 DEF vars, threadVars, RecoveryInv
  <2>2. CASE Next
    <3>1. SUFFICES ASSUME ustate'[C] = "DEAD" PROVE FALSE
      OBVIOUS
    <3>2. TaskReturns /\ C = current /\ reason[current] \in Deaths
      BY <1>1, <2>2, <3>1, DeathStep DEF RecoveryInv
    <3> QED BY <1>1, <3>2
            DEF TaskReturns, user_task_return_step, SysInv, NoticeInv
  <2> QED BY <1>1, <2>1, <2>2
<1>5. ustate'[B] = "DEAD" => AwayFromClient'
  BY <1>1, AwayStep
<1>6. Measuring' => caller'[EP_UART] = A \/ pc'[B] = "served" \/ crashed'
  BY MeasuringStep
<1> QED BY <1>1, <1>2, <1>3, <1>4, <1>5, <1>6
        DEF RecoveryInv, RecoveryBuild

LEMMA RecoveryInvInit == ASSUME RecoveryBuild, SysInit PROVE RecoveryInv
<1> USE ProgramSlots
<1>1. ProtocolInv
  BY ProtocolInvInit
<1>2. pc[A] # "returned" /\ section = 1
  <2>1. pc[A] = Entry(A)
    BY IsProgram DEF SysInit, Programs
  <2> QED BY <2>1 DEF SysInit, Entry
<1>3. ustate[B] = "RUNNABLE" /\ ustate[C] = "RUNNABLE"
  BY DEF SysInit, Init, ThreadInit, UserSlots
<1>4. NoSleepOnPending
  BY DEF SysInit, Init, IpcInit, SupervisorInit, NoSleepOnPending
<1> QED BY <1>1, <1>2, <1>3, <1>4 DEF RecoveryInv, Measuring

(* In the recovery build the write that is measured ends when the server   *)
(* has crashed and has been restarted, however ticks fall: while the       *)
(* server is dead the client does not run (bench_run_recovery, the scan of *)
(* pick_next_thread, the server's one-shot crash).                         *)
THEOREM SystemSpansRecovery ==
  ASSUME RecoveryBuild
  PROVE  SysSpec => []SpansRecovery
<1>1. SysInit => RecoveryInv
  BY RecoveryInvInit
<1>2. RecoveryInv => SpansRecovery
  <2> SUFFICES ASSUME RecoveryInv, At("el0"), current = A, pc[A] = "returned",
                      ~Finished, Script[section].op = "write",
                      Script[section].isMeasured
               PROVE  crashed /\ ustate[B] # "DEAD"
    BY DEF SpansRecovery
  <2>1. Script = bench_run_recovery
    BY DEF RecoveryInv, RecoveryBuild, Script
  <2>2. section \in {1, 2, 3}
    BY <2>1 DEF Finished, bench_run_recovery, RecoveryInv
  <2>3. section = 2
    BY <2>1, <2>2 DEF bench_run_recovery, Section
  <2>4. caller[EP_UART] # A
    BY WaitersAtEL0, TwoEndpoints
       DEF RecoveryInv, ProtocolInv, ServiceInv, SysInv, Queued
  <2>5. pc[B] # "served"
    BY ProgramSlots DEF RecoveryInv, ProtocolInv, ServiceInv, CrashInv
  <2>6. crashed
    BY <2>3, <2>4, <2>5 DEF RecoveryInv, Measuring
  <2>7. ustate[B] # "DEAD"
    BY DEF RecoveryInv, AwayFromClient, At
  <2> QED BY <2>6, <2>7
<1> QED BY <1>1, <1>2, RecoveryInvStep, PTL DEF SysSpec
=============================================================================
