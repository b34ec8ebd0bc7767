----------------------------- MODULE Supervisor -----------------------------
(***************************************************************************)
(* Death notices and restart (kernel/core/supervisor.c): one slot for a    *)
(* notice nobody waits for yet, and one slot for the supervisor that       *)
(* waits for a notice.  Task C is the only supervisor, task B the only     *)
(* task it may restart.                                                    *)
(***************************************************************************)
EXTENDS Thread

ASSUME SupervisorAssumption == UserSlots \subseteq RetVals

VARIABLES
  pendingDeath,      (* g_pending_death_slot                               *)
  blockedSupervisor  (* g_blocked_supervisor_slot                          *)

supervisorVars == <<pendingDeath, blockedSupervisor>>

SupervisorInit ==
  /\ pendingDeath = NONE
  /\ blockedSupervisor = NONE

(* Mutant: nobody is told.                                                 *)
notifies_nobody(t) == {}

(* The supervisor waiting for a notice when task t dies; a dying waiter    *)
(* does not count.                                                         *)
Notified(t) == {s \in UserSlots : s = blockedSupervisor /\ s # t}

(* The death of t goes to the waiting supervisor, else to the notice slot. *)
supervisor_note_task_death(t) ==
  /\ blockedSupervisor' = NONE
  /\ pendingDeath' = IF Notified(t) # {} THEN pendingDeath ELSE t

(* A pending notice is returned at once, otherwise the supervisor blocks.  *)
supervisor_syscall_wait(elrOk) ==
  IF current = THREAD_SLOT_TASK_C /\ pendingDeath # NONE
  THEN /\ SyscallReturn(pendingDeath, NoWake)
       /\ pendingDeath' = NONE
       /\ UNCHANGED blockedSupervisor
  ELSE IF current = THREAD_SLOT_TASK_C /\ blockedSupervisor = NONE
  THEN /\ thread_user_trap_redirect("NOTIFY_BLOCK", elrOk, NoWake)
       /\ blockedSupervisor' = current
       /\ UNCHANGED pendingDeath
  ELSE SyscallReturn(FAIL, NoWake) /\ UNCHANGED supervisorVars

supervisor_syscall_restart(s) ==
  /\ IF /\ current = THREAD_SLOT_TASK_C
        /\ s = THREAD_SLOT_TASK_B
        /\ Restartable(s)
     THEN thread_user_restart(s)
     ELSE SyscallReturn(FAIL, NoWake)
  /\ UNCHANGED supervisorVars
=============================================================================
