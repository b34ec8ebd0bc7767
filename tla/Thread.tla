------------------------------- MODULE Thread -------------------------------
(***************************************************************************)
(* The thread layer of the kernel (kernel/core/thread.c): the thread       *)
(* table, the round-robin scheduler, the switch between threads, the timer *)
(* tick, and the trampoline that takes a trapped EL0 task through a        *)
(* rescheduling point and back to EL0.                                     *)
(*                                                                         *)
(* There is one CPU.  The variable phase is its control point:             *)
(*   "el0"      the current task runs at EL0                               *)
(*   "trapped"  a trap was redirected; user_task_return_step is next       *)
(*   "pick"     thread_resched_point has consumed a pending request        *)
(*   "switch"   pick_next_thread has returned next                         *)
(*   "landed"   thread_switch_to is over, on the stack of current          *)
(*   "resume"   current is marked running; el0_resume is next              *)
(*   "idle"     the idle thread sits in its wfi loop                       *)
(* EL0 and everything up to "pick" run with IRQs masked (SPSR_EL0T_MASKED, *)
(* SPSR_EL1H_MASKED); from "pick" on they are open, and a tick may come    *)
(* between any two steps.                                                  *)
(*                                                                         *)
(* The layer's clients are the system calls.  What they may do to it is    *)
(* the three operators SyscallReturn, thread_user_trap_redirect and        *)
(* thread_user_restart, and the wake-ups handed to user_task_return_step.  *)
(***************************************************************************)
EXTENDS Integers

CONSTANTS
  THREAD_COUNT,          (* number of thread slots                         *)
  THREAD_SLOT_TASK_A,    (* the task thread_start switches to              *)
  THREAD_SLOT_TASK_B,    (* the UART server                                *)
  THREAD_SLOT_TASK_C,    (* the supervisor; the bench server in LATENCY    *)
  THREAD_SLOT_IDLE,      (* the idle thread's slot                         *)
  THREAD_QUANTUM_TICKS,  (* timer ticks in a quantum                       *)
  RetVals                (* the results a system call may leave in x0      *)

Slots     == 0 .. THREAD_COUNT - 1
UserSlots == Slots \ {THREAD_SLOT_IDLE}
NONE      == -1          (* a null thread pointer, or no slot              *)
FAIL      == -1          (* (uint64_t)-1, the error result of a call       *)
ARG       == -2          (* x0 still holds the first argument of the call  *)

ASSUME ThreadAssumption ==
  /\ THREAD_COUNT \in Nat
  /\ THREAD_SLOT_IDLE \in Slots
  /\ {THREAD_SLOT_TASK_A, THREAD_SLOT_TASK_B, THREAD_SLOT_TASK_C}
       \subseteq UserSlots
  /\ THREAD_SLOT_TASK_B # THREAD_SLOT_TASK_C
  /\ THREAD_QUANTUM_TICKS \in Nat \ {0}
  /\ RetVals \subseteq Int \ {ARG}
  /\ {FAIL, 0} \subseteq RetVals

VARIABLES
  tstate,       (* thread.state                                            *)
  ustate,       (* thread.user.state; meaningless for the idle thread      *)
  reason,       (* thread.user.return_reason                               *)
  x0,           (* x0 as the task sees it: live at EL0, else user.ctx.x[0] *)
  quantum,      (* thread.quantum_left                                     *)
  bootstrap,    (* slots whose ctx.lr still is thread_bootstrap            *)
  current,      (* g_current                                               *)
  currentTask,  (* g_current_task                                          *)
  resched,      (* g_resched_pending                                       *)
  phase,        (* the CPU's control point, see above                      *)
  next,         (* the local of thread_resched_point; NONE outside it      *)
  panic         (* "none", or the message of the panic() that was reached  *)

threadVars == <<tstate, ustate, reason, x0, quantum, bootstrap, current,
                currentTask, resched, phase, next, panic>>

TStates == {"RUNNABLE", "RUNNING", "STOPPED"}
UStates == {"RUNNABLE", "RUNNING", "BLOCKED", "DEAD"}
Reasons == {"NONE", "YIELD", "EXIT", "FAULT", "IPC_BLOCK", "NOTIFY_BLOCK"}
Deaths  == {"EXIT", "FAULT"}
Blocks  == {"IPC_BLOCK", "NOTIFY_BLOCK"}
Phases  == {"el0", "trapped", "pick", "switch", "landed", "resume", "idle"}
IrqOpen == {"pick", "switch", "landed", "resume", "idle"}
InTask  == {"el0", "trapped", "resume"}   (* a user task is marked running *)

(* thread_system_init, then thread_start up to its call of                 *)
(* thread_switch_to(task A) with no current thread.                        *)
ThreadInit ==
  /\ tstate = [s \in Slots |-> "RUNNABLE"]
  /\ ustate = [s \in Slots |-> IF s \in UserSlots THEN "RUNNABLE" ELSE "DEAD"]
  /\ reason = [s \in Slots |-> "NONE"]
  /\ x0 = [s \in Slots |-> 0]
  /\ quantum = [s \in Slots |-> THREAD_QUANTUM_TICKS]
  /\ bootstrap = Slots
  /\ current = NONE
  /\ currentTask = NONE
  /\ resched = FALSE
  /\ phase = "switch"
  /\ next = THREAD_SLOT_TASK_A
  /\ panic = "none"

At(p) == phase = p /\ panic = "none"

(* The check that guards every use of g_current_task: it is the running    *)
(* thread, and that thread is a user task.                                 *)
OnUserTask == currentTask = current /\ current \in UserSlots

-----------------------------------------------------------------------------
(* Choosing and switching                                                  *)

(* Mutant: a blocked task counts as selectable.                            *)
selectable_if_blocked(s) ==
  /\ tstate[s] \in {"RUNNABLE", "RUNNING"}
  /\ s \in UserSlots => ustate[s] # "DEAD"

thread_is_selectable(s) ==
  /\ tstate[s] \in {"RUNNABLE", "RUNNING"}
  /\ s \in UserSlots => ustate[s] \notin {"DEAD", "BLOCKED"}

(* Mutant: every scan starts at slot 0.                                    *)
ring_from_slot_0(s) == s % THREAD_COUNT

(* The number of slots the scan visits before s, starting after the        *)
(* current thread's slot.                                                  *)
RingDistance(s) ==
  (s - (IF current = NONE THEN THREAD_SLOT_IDLE ELSE current) - 1)
    % THREAD_COUNT

Candidates == {s \in UserSlots \ {current} : thread_is_selectable(s)}

(* Mutant: the current task is never chosen again.                         *)
pick_only_others ==
  {s \in Candidates : \A o \in Candidates : RingDistance(s) <= RingDistance(o)}

(* What pick_next_thread may return: the first other selectable task in    *)
(* ring order, else the current task, else the idle thread; empty when it  *)
(* would panic.                                                            *)
pick_next_thread ==
  IF Candidates # {}
  THEN {s \in Candidates :
          \A o \in Candidates : RingDistance(s) <= RingDistance(o)}
  ELSE {s \in UserSlots : s = current /\ thread_is_selectable(s)}

PickOrIdle ==
  IF pick_next_thread # {} THEN pick_next_thread
  ELSE {s \in {THREAD_SLOT_IDLE} : thread_is_selectable(s)}

thread_resched_point_pick ==
  /\ At("pick")
  /\ next' \in (IF PickOrIdle = {} THEN {NONE} ELSE PickOrIdle)
  /\ phase' = "switch"
  /\ panic' = IF PickOrIdle = {} THEN "no selectable threads" ELSE "none"
  /\ UNCHANGED <<tstate, ustate, reason, x0, quantum, bootstrap, current,
                 currentTask, resched>>

(* A switch to the current thread returns at once; any other marks both    *)
(* threads, reloads an empty quantum and lands on the next thread's stack. *)
thread_switch_to ==
  /\ At("switch")
  /\ IF next = current
     THEN UNCHANGED <<tstate, quantum, current>>
     ELSE /\ tstate' = [s \in Slots |->
               IF s = next THEN "RUNNING"
               ELSE IF s = current /\ tstate[s] = "RUNNING" THEN "RUNNABLE"
               ELSE tstate[s]]
          /\ quantum' = [quantum EXCEPT ![next] =
               IF @ = 0 THEN THREAD_QUANTUM_TICKS ELSE @]
          /\ current' = next
  /\ phase' = "landed"
  /\ next' = NONE
  /\ UNCHANGED <<ustate, reason, x0, bootstrap, currentTask, resched, panic>>

(* thread_bootstrap and thread_entry_user_task: the first landing of a     *)
(* task goes to el0_resume without the checks of a resumed one.            *)
thread_enter_el0 ==
  /\ At("landed")
  /\ current \in UserSlots \cap bootstrap
  /\ bootstrap' = bootstrap \ {current}
  /\ currentTask' = current
  /\ tstate' = [tstate EXCEPT ![current] = "RUNNING"]
  /\ ustate' = [ustate EXCEPT ![current] = "RUNNING"]
  /\ phase' = "resume"
  /\ UNCHANGED <<reason, x0, quantum, current, resched, next, panic>>

(* The idle thread starts, or comes back from a rescheduling point that    *)
(* chose it again, and waits.                                              *)
thread_entry_idle ==
  /\ At("landed")
  /\ current = THREAD_SLOT_IDLE
  /\ bootstrap' = bootstrap \ {current}
  /\ phase' = "idle"
  /\ UNCHANGED <<tstate, ustate, reason, x0, quantum, current, currentTask,
                 resched, next, panic>>

(* The idle loop's rescheduling point, when a request is pending.          *)
thread_resched_point_idle ==
  /\ At("idle")
  /\ resched
  /\ resched' = FALSE
  /\ phase' = "pick"
  /\ UNCHANGED <<tstate, ustate, reason, x0, quantum, bootstrap, current,
                 currentTask, next, panic>>

(* Mutant: an empty quantum is not reloaded.                               *)
charge_without_reload ==
  /\ quantum' = [quantum EXCEPT ![current] = IF @ = 0 THEN 0 ELSE @ - 1]
  /\ resched' = (resched \/ quantum[current] <= 1)
  /\ UNCHANGED <<tstate, ustate, reason, x0, bootstrap, current, currentTask,
                 phase, next, panic>>

(* Charge the current thread for a tick, and ask for a reschedule at the   *)
(* end of its quantum.  The tick count itself is left out.                 *)
ChargeTick ==
  /\ quantum' = [quantum EXCEPT ![current] =
       IF @ <= 1 THEN THREAD_QUANTUM_TICKS ELSE @ - 1]
  /\ resched' = (resched \/ quantum[current] <= 1)
  /\ UNCHANGED <<tstate, ustate, reason, x0, bootstrap, current, currentTask,
                 phase, next, panic>>

(* The timer tick, which comes only while IRQs are open.                   *)
thread_tick_irq ==
  /\ phase \in IrqOpen /\ panic = "none"
  /\ current # NONE
  /\ ChargeTick

-----------------------------------------------------------------------------
(* Wake-ups.  A wake-up set is a function from the slots to wake to the    *)
(* values their pending system calls return.                               *)

NoWake == [s \in {} |-> 0]

(* Mutant: the wake-up leaves the saved x0 alone.                          *)
wake_without_x0(k, u, x, wake) ==
  /\ tstate' = [s \in Slots |-> IF s \in DOMAIN wake THEN "RUNNABLE" ELSE k[s]]
  /\ ustate' = [s \in Slots |-> IF s \in DOMAIN wake THEN "RUNNABLE" ELSE u[s]]
  /\ x0' = x

(* The fields after waking DOMAIN wake, from their values k, u and x so    *)
(* far.                                                                    *)
thread_user_wake_with_x0(k, u, x, wake) ==
  /\ tstate' = [s \in Slots |-> IF s \in DOMAIN wake THEN "RUNNABLE" ELSE k[s]]
  /\ ustate' = [s \in Slots |-> IF s \in DOMAIN wake THEN "RUNNABLE" ELSE u[s]]
  /\ x0' = [s \in Slots |-> IF s \in DOMAIN wake THEN wake[s] ELSE x[s]]

(* A wake-up panics on the idle thread and on a dead task.                 *)
WakeOk(wake, k, u) ==
  \A s \in DOMAIN wake :
    s \in UserSlots /\ k[s] # "STOPPED" /\ u[s] # "DEAD"

WakePanic(wake, k, u) ==
  IF ~OnUserTask THEN "invalid current user task"
  ELSE IF ~WakeOk(wake, k, u) THEN "wake target is dead"
  ELSE "none"

-----------------------------------------------------------------------------
(* What a trap from EL0 does to the thread layer                           *)

(* A system call returns ret to its caller, which goes on at EL0; every    *)
(* wake-up on the way comes with a thread_request_resched.                 *)
SyscallReturn(ret, wake) ==
  /\ At("el0")
  /\ thread_user_wake_with_x0(tstate, ustate, [x0 EXCEPT ![current] = ret], wake)
  /\ resched' = (resched \/ DOMAIN wake # {})
  /\ panic' = WakePanic(wake, tstate, ustate)
  /\ UNCHANGED <<reason, quantum, bootstrap, current, currentTask, phase, next>>

(* A trap is redirected to the kernel continuation for reason r.  The      *)
(* user context is saved before the handler's result reaches the frame, so *)
(* the saved x0 is the call's first argument.  A panic on the ELR comes    *)
(* before the user context is touched; the model then stops with the trap  *)
(* it was on in reason.                                                    *)
thread_user_trap_redirect(r, elrInSandbox, wake) ==
  /\ At("el0")
  /\ thread_user_wake_with_x0(tstate, ustate, [x0 EXCEPT ![current] = ARG], wake)
  /\ resched' = (resched \/ DOMAIN wake # {})
  /\ reason' = [reason EXCEPT ![current] = r]
  /\ phase' = "trapped"
  /\ panic' = LET p == WakePanic(wake, tstate, ustate) IN
                IF p = "none" /\ ~elrInSandbox
                THEN "EL0 trap ELR outside sandbox" ELSE p
  /\ UNCHANGED <<quantum, bootstrap, current, currentTask, next>>

(* Only a dead, stopped task restarts: its user context is built afresh,   *)
(* its kernel context is kept, so it resumes in user_task_return_step.     *)
Restartable(s) == s \in UserSlots /\ ustate[s] = "DEAD" /\ tstate[s] = "STOPPED"

(* Mutant: the thread state is not reset.                                  *)
restart_leaves_stopped(s) ==
  /\ At("el0")
  /\ Restartable(s)
  /\ ustate' = [ustate EXCEPT ![s] = "RUNNABLE"]
  /\ reason' = [reason EXCEPT ![s] = "NONE"]
  /\ x0' = [x0 EXCEPT ![s] = 0, ![current] = 0]
  /\ resched' = TRUE
  /\ panic' = WakePanic(NoWake, tstate, ustate)
  /\ UNCHANGED <<tstate, quantum, bootstrap, current, currentTask, phase, next>>

thread_user_restart(s) ==
  /\ At("el0")
  /\ Restartable(s)
  /\ ustate' = [ustate EXCEPT ![s] = "RUNNABLE"]
  /\ tstate' = [tstate EXCEPT ![s] = "RUNNABLE"]
  /\ reason' = [reason EXCEPT ![s] = "NONE"]
  /\ x0' = [x0 EXCEPT ![s] = 0, ![current] = 0]
  /\ resched' = TRUE
  /\ panic' = WakePanic(NoWake, tstate, ustate)
  /\ UNCHANGED <<quantum, bootstrap, current, currentTask, phase, next>>

(* The state a trapped task is left in, by the reason of its trap.         *)
LeftIn(r) == IF r \in Deaths THEN "DEAD"
             ELSE IF r \in Blocks THEN "BLOCKED" ELSE "RUNNABLE"

(* First half of user_task_return_step, up to the point where              *)
(* thread_resched_point has consumed the request it has just posted.       *)
(* deathWake holds the wake-ups of the clean-up after a death.             *)
user_task_return_step(deathWake) ==
  LET t == current
      r == reason[t]
      k == [tstate EXCEPT ![t] = IF r \in Deaths THEN "STOPPED" ELSE "RUNNABLE"]
      u == [ustate EXCEPT ![t] = LeftIn(r)]
      w == IF r \in Deaths THEN deathWake ELSE NoWake
  IN /\ At("trapped")
     /\ thread_user_wake_with_x0(k, u, x0, w)
     /\ resched' = FALSE
     /\ phase' = "pick"
     /\ panic' = IF r = "NONE" THEN "unknown user return reason"
                 ELSE WakePanic(w, k, u)
     /\ UNCHANGED <<reason, quantum, bootstrap, current, currentTask, next>>

(* Second half: the task was chosen again.                                 *)
user_task_resume ==
  /\ At("landed")
  /\ current \in UserSlots \ bootstrap
  /\ tstate' = [tstate EXCEPT ![current] = "RUNNING"]
  /\ ustate' = [ustate EXCEPT ![current] = "RUNNING"]
  /\ reason' = [reason EXCEPT ![current] = "NONE"]
  /\ currentTask' = current
  /\ phase' = "resume"
  /\ panic' = IF tstate[current] = "STOPPED" \/ ustate[current] \in {"DEAD", "BLOCKED"}
              THEN "dead user task resumed" ELSE "none"
  /\ UNCHANGED <<x0, quantum, bootstrap, current, resched, next>>

(* el0_resume masks IRQs first, and loads the user context.                *)
el0_resume ==
  /\ At("resume")
  /\ phase' = "el0"
  /\ UNCHANGED <<tstate, ustate, reason, x0, quantum, bootstrap, current,
                 currentTask, resched, next, panic>>

(* panic() never returns.                                                  *)
Panicked == panic # "none" /\ UNCHANGED threadVars

-----------------------------------------------------------------------------
(* The specification of the layer: what it promises to any client that     *)
(* wakes only blocked tasks and restarts only dead ones.                   *)

Wakes == UNION {[W -> RetVals] :
                  W \in SUBSET {s \in UserSlots : ustate[s] = "BLOCKED"}}

SchedulerStep ==
  \/ thread_resched_point_pick
  \/ thread_switch_to
  \/ thread_enter_el0
  \/ thread_entry_idle
  \/ thread_resched_point_idle
  \/ user_task_resume
  \/ el0_resume

ThreadNext ==
  \/ \E ret \in RetVals, wake \in Wakes : SyscallReturn(ret, wake)
  \/ \E r \in Reasons \ {"NONE"}, ok \in BOOLEAN, wake \in Wakes :
       thread_user_trap_redirect(r, ok, wake)
  \/ \E s \in UserSlots : thread_user_restart(s)
  \/ \E wake \in Wakes : user_task_return_step(wake)
  \/ SchedulerStep
  \/ thread_tick_irq
  \/ Panicked

ThreadSpec == ThreadInit /\ [][ThreadNext]_threadVars
-----------------------------------------------------------------------------
(* Correctness                                                             *)

ElrPanic == "EL0 trap ELR outside sandbox"

(* Every variable stays in its range; a quantum is never left empty.       *)
ThreadTypeOK ==
  /\ tstate \in [Slots -> TStates]
  /\ ustate \in [Slots -> UStates]
  /\ reason \in [Slots -> Reasons]
  /\ x0 \in [Slots -> RetVals \cup {ARG}]
  /\ quantum \in [Slots -> 1 .. THREAD_QUANTUM_TICKS]
  /\ bootstrap \subseteq Slots
  /\ current \in Slots \cup {NONE}
  /\ currentTask \in UserSlots \cup {NONE}
  /\ resched \in BOOLEAN
  /\ phase \in Phases
  /\ next \in Slots \cup {NONE}

(* How the table, the control point and g_current fit together: what keeps *)
(* every check on the way of a trap from failing.                          *)
SchedulerInv ==
  panic = "none" =>
    /\ \A s \in UserSlots : tstate[s] = "STOPPED" <=> ustate[s] = "DEAD"
    /\ \A s \in UserSlots :
         ustate[s] = "RUNNING" <=> s = current /\ phase \in InTask
    /\ \A s \in Slots : tstate[s] = "RUNNING" => s = current
    /\ tstate[THREAD_SLOT_IDLE] # "STOPPED"
    /\ phase \in InTask => OnUserTask
    /\ phase = "trapped" => reason[current] # "NONE"
    /\ phase = "switch" => next \in Slots /\ thread_is_selectable(next)
    /\ phase # "switch" => current \in Slots
    /\ phase = "landed" => thread_is_selectable(current)
    /\ phase = "idle" => current = THREAD_SLOT_IDLE

(* No EL0 program can drive the kernel into one of its panics but that on  *)
(* a trap whose ELR lies outside the sandbox, as it does after a fault     *)
(* there, or behind an svc in the sandbox's last word.                     *)
NoInternalPanic == panic \in {"none", ElrPanic}

(* Once the idle thread is chosen no task is selectable, then or later: an *)
(* interrupt wakes nobody, so the kernel idles only when it is stuck.      *)
IdleOnlyIfStuck ==
  current = THREAD_SLOT_IDLE \/ (phase = "switch" /\ next = THREAD_SLOT_IDLE)
    => \A s \in UserSlots : ~thread_is_selectable(s)

(* A task that comes out of a blocking call finds a result in x0, never    *)
(* the argument that was saved there when it was trapped.                  *)
ResultBeforeResume ==
  \A s \in UserSlots :
    reason[s] \in Blocks /\ ustate[s] = "RUNNABLE" => x0[s] # ARG
=============================================================================
