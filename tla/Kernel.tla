------------------------------- MODULE Kernel -------------------------------
(***************************************************************************)
(* The kernel as a whole (kernel/core/syscall.c over thread.c, ipc.c and   *)
(* supervisor.c) under arbitrary EL0 programs: whenever a task runs at EL0 *)
(* it may issue any system call with any arguments, or fault.              *)
(*                                                                         *)
(* The ELR of a call is the address behind its svc.  The sandbox is        *)
(* executable for EL0 up to its end (mmu.c), so an svc in its last word    *)
(* has an ELR outside (elrOk is FALSE), which a call that is answered at   *)
(* once never looks at, and one that is redirected panics on.              *)
(***************************************************************************)
EXTENDS Ipc, Supervisor

CONSTANT KERNEL_FLAVOR  (* "MONO" or "MICRO"                               *)

ASSUME KernelAssumption == KERNEL_FLAVOR \in {"MONO", "MICRO"}

vars == <<threadVars, ipcVars, supervisorVars>>

Init == ThreadInit /\ IpcInit /\ SupervisorInit

(* A call that is answered at once and changes no more than x0.            *)
Return(r) == Answer(r) /\ UNCHANGED supervisorVars

(* A trap that leaves IPC and the supervisor alone.                        *)
Redirect(r, elrOk) ==
  /\ thread_user_trap_redirect(r, elrOk, NoWake)
  /\ UNCHANGED <<ipcVars, supervisorVars>>

-----------------------------------------------------------------------------
(* syscall_dispatch for calls from EL0, one action per number              *)

SYS_yield(elrOk) == Redirect("YIELD", elrOk)

SYS_exit(elrOk) == Redirect("EXIT", elrOk)

(* The tick count is not modelled: the call returns some number.           *)
SYS_time_ticks == \E t \in Lengths : Return(t)

(* Mutant: the flavour is not looked at.                                   *)
routes_in_mono == current \notin {THREAD_SLOT_TASK_B, THREAD_SLOT_TASK_C}

(* In MICRO a write by anyone but the server and the supervisor goes to    *)
(* the UART server; all others go straight to the UART.                    *)
RoutesWrite ==
  /\ KERNEL_FLAVOR = "MICRO"
  /\ current \notin {THREAD_SLOT_TASK_B, THREAD_SLOT_TASK_C}

SYS_write(len, bufOk, elrOk) ==
  IF RoutesWrite /\ bufOk
  THEN ipc_route_uart_write(len, bufOk, elrOk) /\ UNCHANGED supervisorVars
  ELSE Return(IF bufOk THEN len ELSE FAIL)

SYS_ipc_call(ep, len, cap, bufOk, elrOk) ==
  ipc_syscall_call(ep, len, cap, bufOk, elrOk) /\ UNCHANGED supervisorVars

SYS_ipc_recv(ep, cap, bufOk, elrOk) ==
  ipc_syscall_recv(ep, cap, bufOk, elrOk) /\ UNCHANGED supervisorVars

SYS_ipc_reply(ep, len, bufOk) ==
  ipc_syscall_reply(ep, len, bufOk) /\ UNCHANGED supervisorVars

SYS_supervise_wait(elrOk) ==
  supervisor_syscall_wait(elrOk) /\ UNCHANGED ipcVars

SYS_task_restart(s) == supervisor_syscall_restart(s) /\ UNCHANGED ipcVars

SYS_unknown == Return(FAIL)

Syscall ==
  \/ \E elrOk \in BOOLEAN : SYS_yield(elrOk)
  \/ \E elrOk \in BOOLEAN : SYS_exit(elrOk)
  \/ SYS_time_ticks
  \/ \E len \in Lengths, ok, elrOk \in BOOLEAN : SYS_write(len, ok, elrOk)
  \/ \E ep \in EpIds, len, cap \in Lengths, ok, elrOk \in BOOLEAN :
       SYS_ipc_call(ep, len, cap, ok, elrOk)
  \/ \E ep \in EpIds, cap \in Lengths, ok, elrOk \in BOOLEAN :
       SYS_ipc_recv(ep, cap, ok, elrOk)
  \/ \E ep \in EpIds, len \in Lengths, ok \in BOOLEAN :
       SYS_ipc_reply(ep, len, ok)
  \/ \E elrOk \in BOOLEAN : SYS_supervise_wait(elrOk)
  \/ \E s \in Slots : SYS_task_restart(s)
  \/ SYS_unknown

(* Any other synchronous exception from EL0.                               *)
thread_user_fault(elrOk) == Redirect("FAULT", elrOk)

-----------------------------------------------------------------------------
(* The continuation of a trap, with the clean-up of a death                *)

(* Mutant: the supervisor sleeps on.                                       *)
death_wakes_callers_only(t) == [s \in AbortedCallers(t) |-> FAIL]

(* Whom the death of t wakes: callers of its endpoints with an error, the  *)
(* waiting supervisor with t's slot.                                       *)
DeathWakes(t) ==
  [s \in AbortedCallers(t) \cup Notified(t) |->
     IF s \in Notified(t) THEN t ELSE FAIL]

TaskReturns ==
  /\ user_task_return_step(DeathWakes(current))
  /\ IF reason[current] \in Deaths
     THEN ipc_handle_task_death(current) /\ supervisor_note_task_death(current)
     ELSE UNCHANGED <<ipcVars, supervisorVars>>

Internal ==
  /\ SchedulerStep \/ thread_tick_irq \/ Panicked
  /\ UNCHANGED <<ipcVars, supervisorVars>>

Next ==
  \/ Syscall
  \/ \E elrOk \in BOOLEAN : thread_user_fault(elrOk)
  \/ TaskReturns
  \/ Internal

Spec == Init /\ [][Next]_vars
-----------------------------------------------------------------------------
(* Correctness                                                             *)

(* Every variable stays in its range.                                      *)
IpcTypeOK ==
  /\ caller \in [Eps -> UserSlots \cup {NONE}]
  /\ replyCap \in [Eps -> Lengths \cup {0}]
  /\ override \in [Eps -> Lengths \cup {0}]
  /\ receiver \in [Eps -> UserSlots \cup {NONE}]
  /\ recvCap \in [Eps -> Lengths \cup {0}]
  /\ pending \in [Eps -> Lengths \cup {NONE}]

SupervisorTypeOK ==
  /\ pendingDeath \in UserSlots \cup {NONE}
  /\ blockedSupervisor \in UserSlots \cup {NONE}

TypeOK == ThreadTypeOK /\ IpcTypeOK /\ SupervisorTypeOK

(* A wait place of the kernel names task s.                                *)
Queued(s) ==
  \/ \E ep \in Eps : s \in {caller[ep], receiver[ep]}
  \/ s = blockedSupervisor

(* The current task has entered a wait place and is on its way out of the  *)
(* trap that put it there.                                                 *)
Blocking(s) == s = current /\ phase = "trapped" /\ reason[s] \in Blocks

(* A task is blocked, or about to be, exactly when a wait place names it:  *)
(* nobody sleeps where no wake-up can find him, and no wake-up finds a     *)
(* task that is awake or dead (thread.c:358-376 checks for the dead only). *)
BlockedIffQueued ==
  panic = "none" =>
    \A s \in UserSlots : Queued(s) <=> ustate[s] = "BLOCKED" \/ Blocking(s)

(* No task is named by two wait places, so no wake-up leaves a stale entry *)
(* behind that a later one would use.                                      *)
OneWaitPlace ==
  /\ \A e, f \in Eps :
       /\ caller[e] = caller[f] /\ caller[e] # NONE => e = f
       /\ receiver[e] = receiver[f] /\ receiver[e] # NONE => e = f
       /\ caller[e] = receiver[f] => caller[e] = NONE
  /\ \A ep \in Eps : blockedSupervisor \in {caller[ep], receiver[ep]}
                      => blockedSupervisor = NONE

(* Only the owner of an endpoint is ever its waiting receiver, and only    *)
(* task C the waiting supervisor, so a message never goes to another task. *)
WaitersAreOwners ==
  /\ \A ep \in Eps : receiver[ep] # NONE => receiver[ep] = owner_slot(ep)
  /\ blockedSupervisor \in {NONE, THREAD_SLOT_TASK_C}

(* A server never sleeps on an endpoint that holds a request, and the      *)
(* supervisor never sleeps on a death notice.                              *)
NoSleepOnPending ==
  /\ \A ep \in Eps : receiver[ep] # NONE => pending[ep] = NONE
  /\ blockedSupervisor # NONE => pendingDeath = NONE

(* A caller waiting on a dead server still has its request queued, so the  *)
(* server, once restarted, will find it: a call whose request was already  *)
(* taken is aborted when the server dies.                                  *)
DeadServerKeepsRequest ==
  panic = "none" =>
    \A ep \in Eps :
      /\ caller[ep] # NONE
      /\ owner_slot(ep) # NONE
      /\ ustate[owner_slot(ep)] = "DEAD"
      => pending[ep] # NONE

(* The syscall layer uses the thread layer as that layer allows: it wakes  *)
(* only blocked tasks and restarts only dead ones.                         *)
UsesThreadLayer == ThreadSpec

-----------------------------------------------------------------------------
(* What the documents say of the kernel and its code does not do           *)

(* docs/design.md:43: EL0 synchronous non-SVC faults kill the current EL0  *)
(* task.  The kernel itself survives them.                                 *)
FaultKillsOnlyTheTask ==
  current # NONE /\ reason[current] = "FAULT" => panic = "none"

(* docs/design.md:88: endpoint cleanup on task death clears in-flight      *)
(* blocked and pending state.  On a dead server's endpoint a request is    *)
(* queued only if its caller waits, having called after the death.         *)
CleanupClearsPending ==
  \A ep \in Eps :
    /\ owner_slot(ep) # NONE
    /\ ustate[owner_slot(ep)] = "DEAD"
    /\ pending[ep] # NONE
    => caller[ep] # NONE
=============================================================================
