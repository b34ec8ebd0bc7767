---------------------------- MODULE ThreadProofs ----------------------------
(***************************************************************************)
(* Proofs about the thread layer: whatever its clients do within           *)
(* ThreadSpec, its variables keep their types, its table, control point    *)
(* and current thread stay consistent, none of its own panics is reached,  *)
(* and nobody who can run is passed over for long.                         *)
(***************************************************************************)
EXTENDS RoundRobin, WellFoundedInduction, TLAPS

(* A wake-up set offered to the layer is a function from blocked tasks to  *)
(* results (thread_user_wake_with_x0 is given a slot and a value).         *)
LEMMA WakesLemma ==
  ASSUME NEW wake \in Wakes
  PROVE  /\ DOMAIN wake \subseteq {s \in UserSlots : ustate[s] = "BLOCKED"}
         /\ \A s \in DOMAIN wake : wake[s] \in RetVals
BY DEF Wakes

(* The state a trap leaves its task in is a task state (user_task_return_  *)
(* step).                                                                  *)
LEMMA LeftInType == ASSUME NEW r PROVE LeftIn(r) \in UStates \ {"RUNNING"}
BY DEF LeftIn, UStates

(* Waking a set of tasks leaves the table well typed                       *)
(* (thread_user_wake_with_x0).                                             *)
LEMMA WakeType ==
  ASSUME NEW k \in [Slots -> TStates], NEW u \in [Slots -> UStates],
         NEW x \in [Slots -> RetVals \cup {ARG}], NEW wake,
         \A s \in DOMAIN wake : wake[s] \in RetVals,
         thread_user_wake_with_x0(k, u, x, wake)
  PROVE  /\ tstate' \in [Slots -> TStates]
         /\ ustate' \in [Slots -> UStates]
         /\ x0' \in [Slots -> RetVals \cup {ARG}]
BY DEF thread_user_wake_with_x0, TStates, UStates

-----------------------------------------------------------------------------
(* The layer keeps its types: initially, and with every step.              *)
LEMMA ThreadTypeStep == ThreadTypeOK /\ [ThreadNext]_threadVars => ThreadTypeOK'
<1> SUFFICES ASSUME ThreadTypeOK, [ThreadNext]_threadVars
             PROVE  ThreadTypeOK'
  OBVIOUS
<1> USE ThreadAssumption DEF ThreadTypeOK, Slots, UserSlots, NONE
<1>1. ASSUME NEW ret \in RetVals, NEW wake \in Wakes, SyscallReturn(ret, wake)
      PROVE  ThreadTypeOK'
  <2>1. [x0 EXCEPT ![current] = ret] \in [Slots -> RetVals \cup {ARG}]
    OBVIOUS
  <2>2. /\ tstate' \in [Slots -> TStates]
        /\ ustate' \in [Slots -> UStates]
        /\ x0' \in [Slots -> RetVals \cup {ARG}]
    BY <1>1, <2>1, WakesLemma, WakeType DEF SyscallReturn
  <2> QED BY <1>1, <2>2 DEF SyscallReturn, At
<1>2. ASSUME NEW r \in Reasons \ {"NONE"}, NEW ok \in BOOLEAN,
             NEW wake \in Wakes, thread_user_trap_redirect(r, ok, wake)
      PROVE  ThreadTypeOK'
  <2>1. [x0 EXCEPT ![current] = ARG] \in [Slots -> RetVals \cup {ARG}]
    OBVIOUS
  <2>2. /\ tstate' \in [Slots -> TStates]
        /\ ustate' \in [Slots -> UStates]
        /\ x0' \in [Slots -> RetVals \cup {ARG}]
    BY <1>2, <2>1, WakesLemma, WakeType DEF thread_user_trap_redirect
  <2> QED BY <1>2, <2>2 DEF thread_user_trap_redirect, At, Phases
<1>3. ASSUME NEW s \in UserSlots, thread_user_restart(s)
      PROVE  ThreadTypeOK'
  BY <1>3 DEF thread_user_restart, At, TStates, UStates, Reasons
<1>4. ASSUME NEW wake \in Wakes, user_task_return_step(wake)
      PROVE  ThreadTypeOK'
  <2> DEFINE t == current
             r == reason[t]
             k == [tstate EXCEPT ![t] =
                     IF r \in Deaths THEN "STOPPED" ELSE "RUNNABLE"]
             u == [ustate EXCEPT ![t] = LeftIn(r)]
             w == IF r \in Deaths THEN wake ELSE NoWake
  <2>1. k \in [Slots -> TStates] /\ u \in [Slots -> UStates]
    BY LeftInType DEF TStates
  <2>2. \A s \in DOMAIN w : w[s] \in RetVals
    BY WakesLemma DEF NoWake
  <2>3. thread_user_wake_with_x0(k, u, x0, w)
    BY <1>4 DEF user_task_return_step
  <2> HIDE DEF k, u, w
  <2>4. /\ tstate' \in [Slots -> TStates]
        /\ ustate' \in [Slots -> UStates]
        /\ x0' \in [Slots -> RetVals \cup {ARG}]
    BY <2>1, <2>2, <2>3, WakeType
  <2> QED BY <1>4, <2>4 DEF user_task_return_step, At, Phases
<1>5. CASE thread_resched_point_pick
  <2>1. PickOrIdle \subseteq Slots
    BY DEF PickOrIdle, pick_next_thread, Candidates
  <2> QED BY <1>5, <2>1 DEF thread_resched_point_pick, At, Phases
<1>6. CASE thread_switch_to
  <2>1. CASE next = current
    BY <1>6, <2>1 DEF thread_switch_to, At, Phases
  <2>2. CASE next # current
    <3>1. tstate' \in [Slots -> TStates]
      BY <1>6, <2>2 DEF thread_switch_to, TStates
    <3>2. quantum' \in [Slots -> 1 .. THREAD_QUANTUM_TICKS]
      <4>1. THREAD_QUANTUM_TICKS \in 1 .. THREAD_QUANTUM_TICKS
        OBVIOUS
      <4> QED BY <1>6, <2>2, <4>1 DEF thread_switch_to
    <3> QED BY <1>6, <2>2, <3>1, <3>2 DEF thread_switch_to, At, Phases
  <2> QED BY <2>1, <2>2
<1>7. CASE thread_enter_el0
  BY <1>7 DEF thread_enter_el0, At, TStates, UStates, Phases
<1>8. CASE thread_entry_idle
  BY <1>8 DEF thread_entry_idle, At, Phases
<1>9. CASE thread_resched_point_idle
  BY <1>9 DEF thread_resched_point_idle, At, Phases
<1>10. CASE user_task_resume
  BY <1>10 DEF user_task_resume, At, TStates, UStates, Reasons, Phases
<1>13. CASE el0_resume
  BY <1>13 DEF el0_resume, At, Phases
<1>11. CASE thread_tick_irq
  <2>1. quantum' \in [Slots -> 1 .. THREAD_QUANTUM_TICKS]
    BY <1>11 DEF thread_tick_irq, ChargeTick
  <2>2. resched' \in BOOLEAN
    BY <1>11 DEF thread_tick_irq, ChargeTick
  <2> QED BY <1>11, <2>1, <2>2 DEF thread_tick_irq, ChargeTick
<1>12. CASE UNCHANGED threadVars
  BY <1>12 DEF threadVars
<1> QED
  BY <1>1, <1>2, <1>3, <1>4, <1>5, <1>6, <1>7, <1>8, <1>9, <1>10, <1>11, <1>12, <1>13
     DEF ThreadNext, SchedulerStep, Panicked

(* The table thread_system_init sets up is well typed.                     *)
LEMMA ThreadInitType == ASSUME ThreadInit PROVE ThreadTypeOK
<1> USE ThreadAssumption DEF ThreadInit
<1>1. THREAD_QUANTUM_TICKS \in 1 .. THREAD_QUANTUM_TICKS
  OBVIOUS
<1>2. quantum \in [Slots -> 1 .. THREAD_QUANTUM_TICKS]
  BY <1>1
<1>3. /\ tstate \in [Slots -> TStates]
      /\ ustate \in [Slots -> UStates]
      /\ reason \in [Slots -> Reasons]
      /\ x0 \in [Slots -> RetVals \cup {ARG}]
  BY DEF TStates, UStates, Reasons
<1>4. next \in Slots
  BY DEF UserSlots
<1> QED BY <1>2, <1>3, <1>4 DEF ThreadTypeOK, Phases

(* Under any client of the layer every variable of thread.c keeps its      *)
(* range; in particular no thread is left with an empty quantum.           *)
THEOREM ThreadTypeCorrect == ThreadSpec => []ThreadTypeOK
<1> QED BY ThreadInitType, ThreadTypeStep, PTL DEF ThreadSpec

-----------------------------------------------------------------------------
(* The scheduler's invariant                                               *)

(* It is consistent: thread_start is about to switch to task A.            *)
LEMMA SchedulerInit == ThreadInit => SchedulerInv
BY ThreadAssumption
   DEF ThreadInit, SchedulerInv, InTask, Slots, UserSlots, NONE,
       thread_is_selectable

(* A system call finds the current task where it expects it, and the tasks *)
(* it wakes alive, so it does not panic (syscall_dispatch returning to its *)
(* caller).                                                                *)
LEMMA SyscallReturnSafe ==
  ASSUME ThreadTypeOK, SchedulerInv,
         NEW ret \in RetVals, NEW wake \in Wakes, SyscallReturn(ret, wake)
  PROVE  SchedulerInv' /\ panic' = "none"
<1> USE ThreadAssumption
    DEF SyscallReturn, At, ThreadTypeOK, SchedulerInv, InTask
<1>1. DOMAIN wake \subseteq {s \in UserSlots : ustate[s] = "BLOCKED"}
  BY WakesLemma
<1>2. panic' = "none"
  BY <1>1 DEF WakePanic, WakeOk
<1>3. /\ tstate' = [s \in Slots |->
                      IF s \in DOMAIN wake THEN "RUNNABLE" ELSE tstate[s]]
      /\ ustate' = [s \in Slots |->
                      IF s \in DOMAIN wake THEN "RUNNABLE" ELSE ustate[s]]
  BY DEF thread_user_wake_with_x0
<1>4. /\ phase = "el0" /\ phase' = "el0" /\ panic = "none"
      /\ current' = current /\ OnUserTask'
  BY DEF OnUserTask
<1> QED BY <1>1, <1>2, <1>3, <1>4 DEF UserSlots, Slots, OnUserTask

(* A redirected trap panics on nothing but its ELR                         *)
(* (thread_user_trap_redirect).                                            *)
LEMMA RedirectSafe ==
  ASSUME ThreadTypeOK, SchedulerInv,
         NEW r \in Reasons \ {"NONE"}, NEW ok \in BOOLEAN, NEW wake \in Wakes,
         thread_user_trap_redirect(r, ok, wake)
  PROVE  SchedulerInv' /\ panic' = IF ok THEN "none" ELSE ElrPanic
<1> USE ThreadAssumption
    DEF thread_user_trap_redirect, At, ThreadTypeOK, SchedulerInv, InTask
<1>1. DOMAIN wake \subseteq {s \in UserSlots : ustate[s] = "BLOCKED"}
  BY WakesLemma
<1>2. panic' = IF ok THEN "none" ELSE ElrPanic
  BY <1>1 DEF WakePanic, WakeOk, ElrPanic
<1>3. /\ tstate' = [s \in Slots |->
                      IF s \in DOMAIN wake THEN "RUNNABLE" ELSE tstate[s]]
      /\ ustate' = [s \in Slots |->
                      IF s \in DOMAIN wake THEN "RUNNABLE" ELSE ustate[s]]
  BY DEF thread_user_wake_with_x0
<1>4. /\ phase = "el0" /\ phase' = "trapped" /\ panic = "none"
      /\ current' = current /\ current \in Slots
      /\ OnUserTask /\ OnUserTask' /\ reason'[current] # "NONE"
  BY DEF OnUserTask, UserSlots
<1> QED BY <1>1, <1>2, <1>3, <1>4 DEF UserSlots, Slots

(* Restarting a dead task by the running one (thread_user_restart).        *)
LEMMA RestartSafe ==
  ASSUME ThreadTypeOK, SchedulerInv,
         NEW s \in UserSlots, thread_user_restart(s)
  PROVE  SchedulerInv' /\ panic' = "none"
<1> USE ThreadAssumption
    DEF thread_user_restart, Restartable, At, ThreadTypeOK, SchedulerInv, InTask
<1>1. panic' = "none"
  BY DEF WakePanic, WakeOk, NoWake
<1>2. /\ phase = "el0" /\ phase' = "el0" /\ panic = "none"
      /\ current' = current /\ OnUserTask /\ OnUserTask'
  BY DEF OnUserTask
<1> QED BY <1>1, <1>2 DEF UserSlots, Slots, OnUserTask

(* The continuation of a trap up to its rescheduling point                 *)
(* (user_task_return_step): the trapped task has a reason, and whom its    *)
(* death wakes is alive.                                                   *)
LEMMA ReturnStepSafe ==
  ASSUME ThreadTypeOK, SchedulerInv,
         NEW wake \in Wakes, user_task_return_step(wake)
  PROVE  SchedulerInv' /\ panic' = "none"
<1> DEFINE r == reason[current]
           k == [tstate EXCEPT ![current] =
                   IF r \in Deaths THEN "STOPPED" ELSE "RUNNABLE"]
           u == [ustate EXCEPT ![current] = LeftIn(r)]
           w == IF r \in Deaths THEN wake ELSE NoWake
<1> USE ThreadAssumption DEF ThreadTypeOK, SchedulerInv, InTask
<1>1. /\ phase = "trapped" /\ phase' = "pick" /\ panic = "none"
      /\ current' = current /\ current \in UserSlots /\ current \in Slots
      /\ OnUserTask /\ r # "NONE" /\ ustate[current] = "RUNNING"
  BY DEF user_task_return_step, At, OnUserTask, UserSlots
<1>2. DOMAIN w \subseteq {s \in UserSlots : ustate[s] = "BLOCKED"} \ {current}
  BY <1>1, WakesLemma DEF NoWake
<1>3. \A s \in DOMAIN w : k[s] = tstate[s] /\ u[s] = ustate[s]
  BY <1>2 DEF UserSlots
<1>4. panic' = "none"
  BY <1>1, <1>2, <1>3 DEF user_task_return_step, WakePanic, WakeOk
<1>5. /\ tstate' = [s \in Slots |-> IF s \in DOMAIN w THEN "RUNNABLE" ELSE k[s]]
      /\ ustate' = [s \in Slots |-> IF s \in DOMAIN w THEN "RUNNABLE" ELSE u[s]]
  BY DEF user_task_return_step, thread_user_wake_with_x0
<1>6. /\ LeftIn(r) # "RUNNING"
      /\ LeftIn(r) = "DEAD" <=> r \in Deaths
  BY DEF LeftIn, Blocks
<1>7. /\ k[current] = IF r \in Deaths THEN "STOPPED" ELSE "RUNNABLE"
      /\ u[current] = LeftIn(r)
      /\ \A s \in Slots \ {current} : k[s] = tstate[s] /\ u[s] = ustate[s]
  BY <1>1
<1> HIDE DEF w, k, u
<1>8. /\ \A s \in Slots \ {current} :
              \/ tstate'[s] = tstate[s] /\ ustate'[s] = ustate[s]
              \/ /\ s \in UserSlots /\ ustate[s] = "BLOCKED"
                 /\ tstate'[s] = "RUNNABLE" /\ ustate'[s] = "RUNNABLE"
      /\ tstate'[current] = k[current] /\ ustate'[current] = LeftIn(r)
  BY <1>1, <1>2, <1>5, <1>7 DEF UserSlots
<1>9. \A s \in UserSlots : ustate[s] = "RUNNING" <=> s = current
  BY <1>1
<1>10. THREAD_SLOT_IDLE \in Slots \ {current}
  BY <1>1 DEF UserSlots
<1>11. /\ \A s \in UserSlots : tstate'[s] = "STOPPED" <=> ustate'[s] = "DEAD"
       /\ \A s \in UserSlots : ustate'[s] # "RUNNING"
       /\ \A s \in Slots : tstate'[s] = "RUNNING" => s = current
       /\ tstate'[THREAD_SLOT_IDLE] # "STOPPED"
  BY <1>1, <1>6, <1>7, <1>8, <1>9, <1>10 DEF UserSlots
<1> QED BY <1>1, <1>4, <1>11

(* Choosing a thread never finds the table empty: the idle thread is never *)
(* stopped (pick_next_thread).                                             *)
LEMMA PickSafe ==
  ASSUME ThreadTypeOK, SchedulerInv, thread_resched_point_pick
  PROVE  SchedulerInv' /\ panic' = "none"
<1> USE ThreadAssumption DEF ThreadTypeOK, SchedulerInv, InTask, thread_resched_point_pick, At
<1>1. thread_is_selectable(THREAD_SLOT_IDLE)
  BY DEF thread_is_selectable, UserSlots, TStates
<1>2. PickOrIdle # {} /\ \A s \in PickOrIdle : s \in Slots /\ thread_is_selectable(s)
  BY <1>1 DEF PickOrIdle, pick_next_thread, Candidates, UserSlots
<1>3. panic' = "none" /\ next' \in Slots /\ thread_is_selectable(next')
  BY <1>2
<1>4. thread_is_selectable(next)'
  BY <1>3 DEF thread_is_selectable
<1> QED BY <1>3, <1>4 DEF OnUserTask

(* Switching makes the chosen thread, and it alone, the running one        *)
(* (thread_switch_to).                                                     *)
LEMMA SwitchSafe ==
  ASSUME ThreadTypeOK, SchedulerInv, thread_switch_to
  PROVE  SchedulerInv' /\ panic' = panic
<1> USE ThreadAssumption DEF ThreadTypeOK, SchedulerInv, InTask, thread_switch_to, At
<1>1. /\ phase' = "landed" /\ current' = next /\ current' \in Slots
      /\ ustate' = ustate /\ panic' = "none" /\ panic = "none"
  OBVIOUS
<1>2. CASE next = current
  BY <1>1, <1>2 DEF thread_is_selectable
<1>3. CASE next # current
  <2>1. tstate' = [s \in Slots |->
               IF s = next THEN "RUNNING"
               ELSE IF s = current /\ tstate[s] = "RUNNING" THEN "RUNNABLE"
               ELSE tstate[s]]
    BY <1>3
  <2>2. thread_is_selectable(current)'
    BY <1>1, <2>1 DEF thread_is_selectable
  <2>3. \A s \in Slots : tstate'[s] = "STOPPED" <=> tstate[s] = "STOPPED"
    BY <2>1 DEF thread_is_selectable
  <2> QED BY <1>1, <2>1, <2>2, <2>3 DEF UserSlots
<1> QED BY <1>2, <1>3

(* A task enters EL0 only while it is selectable (thread_enter_el0 on the  *)
(* first landing, user_task_return_step on a later one).                   *)
LEMMA EnterSafe ==
  ASSUME ThreadTypeOK, SchedulerInv, thread_enter_el0 \/ user_task_resume
  PROVE  SchedulerInv' /\ panic' = "none"
<1> USE ThreadAssumption DEF ThreadTypeOK, SchedulerInv, InTask, At
<1>1. /\ phase = "landed" /\ phase' = "resume" /\ panic = "none"
      /\ current \in UserSlots /\ current' = current /\ currentTask' = current
      /\ tstate' = [tstate EXCEPT ![current] = "RUNNING"]
      /\ ustate' = [ustate EXCEPT ![current] = "RUNNING"]
  BY DEF thread_enter_el0, user_task_resume
<1>2. ustate[current] \notin {"DEAD", "BLOCKED"} /\ tstate[current] # "STOPPED"
  BY <1>1 DEF thread_is_selectable
<1>3. panic' = "none"
  BY <1>1, <1>2 DEF thread_enter_el0, user_task_resume
<1> QED BY <1>1, <1>2, <1>3 DEF UserSlots, Slots, OnUserTask

(* What a step of the layer leaves behind: a consistent table, and no      *)
(* panic but the one on a wild ELR.                                        *)
LEMMA SchedulerStepSafe ==
  ASSUME ThreadTypeOK, SchedulerInv, NoInternalPanic, [ThreadNext]_threadVars
  PROVE  SchedulerInv' /\ NoInternalPanic'
<1> USE DEF NoInternalPanic
<1>1. ASSUME NEW ret \in RetVals, NEW wake \in Wakes, SyscallReturn(ret, wake)
      PROVE  SchedulerInv' /\ NoInternalPanic'
  BY <1>1, SyscallReturnSafe
<1>2. ASSUME NEW r \in Reasons \ {"NONE"}, NEW ok \in BOOLEAN,
             NEW wake \in Wakes, thread_user_trap_redirect(r, ok, wake)
      PROVE  SchedulerInv' /\ NoInternalPanic'
  BY <1>2, RedirectSafe
<1>3. ASSUME NEW s \in UserSlots, thread_user_restart(s)
      PROVE  SchedulerInv' /\ NoInternalPanic'
  BY <1>3, RestartSafe
<1>4. ASSUME NEW wake \in Wakes, user_task_return_step(wake)
      PROVE  SchedulerInv' /\ NoInternalPanic'
  BY <1>4, ReturnStepSafe
<1>5. CASE thread_resched_point_pick
  BY <1>5, PickSafe
<1>6. CASE thread_switch_to
  BY <1>6, SwitchSafe
<1>7. CASE thread_enter_el0 \/ user_task_resume
  BY <1>7, EnterSafe
<1>12. CASE el0_resume
  BY <1>12 DEF el0_resume, At, SchedulerInv, OnUserTask, InTask
<1>8. CASE thread_entry_idle
  BY <1>8 DEF thread_entry_idle, At, SchedulerInv, OnUserTask, InTask
<1>9. CASE thread_resched_point_idle
  BY <1>9 DEF thread_resched_point_idle, At, SchedulerInv, OnUserTask, InTask
<1>10. CASE thread_tick_irq
  BY <1>10 DEF thread_tick_irq, ChargeTick, IrqOpen, SchedulerInv, OnUserTask, InTask,
               thread_is_selectable
<1>11. CASE UNCHANGED threadVars
  BY <1>11 DEF threadVars, SchedulerInv, OnUserTask, InTask, thread_is_selectable
<1> QED
  BY <1>1, <1>2, <1>3, <1>4, <1>5, <1>6, <1>7, <1>8, <1>9, <1>10, <1>11,
     <1>12 DEF ThreadNext, SchedulerStep, Panicked

(* Under any client of the layer the thread table, the control point and   *)
(* g_current agree, and none of the panics of thread.c is reached but the  *)
(* one on an ELR outside the sandbox: every check on the way of a trap     *)
(* (thread.c:248, 277, 283-290, 301, 366-371, 494) succeeds.               *)
THEOREM SchedulerCorrect == ThreadSpec => [](SchedulerInv /\ NoInternalPanic)
<1>1. ThreadInit => SchedulerInv /\ NoInternalPanic
  BY SchedulerInit DEF ThreadInit, NoInternalPanic
<1> QED BY <1>1, SchedulerStepSafe, ThreadTypeCorrect, PTL DEF ThreadSpec

-----------------------------------------------------------------------------
(* The result of a blocking call                                           *)

(* A trapped task's x0 is the argument of its call until a wake-up writes  *)
(* a result there, and only then is the task runnable again                *)
(* (thread_user_trap_redirect, thread_user_wake_with_x0).                  *)
LEMMA ResultStep ==
  ASSUME ThreadTypeOK, SchedulerInv, ResultBeforeResume, [ThreadNext]_threadVars
  PROVE  ResultBeforeResume'
<1> USE ThreadAssumption DEF ThreadTypeOK, ResultBeforeResume
<1>0. panic = "none" => \A s \in UserSlots :
        ustate[s] = "RUNNING" <=> s = current /\ phase \in InTask
  BY DEF SchedulerInv, InTask
<1>1. ASSUME NEW ret \in RetVals, NEW wake \in Wakes, SyscallReturn(ret, wake)
      PROVE  ResultBeforeResume'
  BY <1>1, <1>0, WakesLemma
     DEF SyscallReturn, thread_user_wake_with_x0, At, UserSlots
<1>2. ASSUME NEW r \in Reasons \ {"NONE"}, NEW ok \in BOOLEAN,
             NEW wake \in Wakes, thread_user_trap_redirect(r, ok, wake)
      PROVE  ResultBeforeResume'
  <2>1. /\ phase = "el0" /\ panic = "none"
        /\ reason' = [reason EXCEPT ![current] = r]
        /\ ustate' = [s \in Slots |->
                        IF s \in DOMAIN wake THEN "RUNNABLE" ELSE ustate[s]]
        /\ x0' = [s \in Slots |->
                    IF s \in DOMAIN wake THEN wake[s]
                    ELSE [x0 EXCEPT ![current] = ARG][s]]
    BY <1>2 DEF thread_user_trap_redirect, thread_user_wake_with_x0, At
  <2>2. \A s \in UserSlots : s = current => ustate[s] = "RUNNING"
    BY <2>1, <1>0 DEF InTask
  <2>3. ASSUME NEW s \in UserSlots, reason'[s] \in Blocks, ustate'[s] = "RUNNABLE"
        PROVE  x0'[s] # ARG
    <3>1. CASE s \in DOMAIN wake
      BY <2>1, <3>1, WakesLemma DEF UserSlots
    <3>2. CASE s \notin DOMAIN wake
      <4>1. s # current
        BY <2>1, <2>2, <2>3, <3>2 DEF UserSlots
      <4> QED BY <2>1, <2>3, <3>2, <4>1 DEF UserSlots
    <3> QED BY <3>1, <3>2
  <2> QED BY <2>3
<1>3. ASSUME NEW s \in UserSlots, thread_user_restart(s)
      PROVE  ResultBeforeResume'
  BY <1>3, <1>0 DEF thread_user_restart, At, Restartable, UserSlots, Blocks
<1>4. ASSUME NEW wake \in Wakes, user_task_return_step(wake)
      PROVE  ResultBeforeResume'
  <2> DEFINE r == reason[current]
             w == IF r \in Deaths THEN wake ELSE NoWake
  <2>1. /\ reason' = reason
        /\ ustate' = [s \in Slots |->
              IF s \in DOMAIN w THEN "RUNNABLE"
              ELSE [ustate EXCEPT ![current] = LeftIn(r)][s]]
        /\ x0' = [s \in Slots |-> IF s \in DOMAIN w THEN wake[s] ELSE x0[s]]
    BY <1>4 DEF user_task_return_step, thread_user_wake_with_x0, NoWake
  <2>2. \A s \in DOMAIN w : wake[s] \in RetVals
    BY WakesLemma DEF NoWake
  <2>3. LeftIn(r) = "RUNNABLE" => r \notin Blocks
    BY DEF LeftIn, Deaths, Blocks
  <2> HIDE DEF w
  <2> QED BY <2>1, <2>2, <2>3 DEF UserSlots
<1>5. CASE UNCHANGED <<ustate, reason, x0>>
  BY <1>5
<1>6. CASE thread_enter_el0
  BY <1>6 DEF thread_enter_el0, UserSlots
<1>7. CASE user_task_resume
  BY <1>7 DEF user_task_resume, UserSlots, Blocks
<1> QED
  BY <1>1, <1>2, <1>3, <1>4, <1>5, <1>6, <1>7
     DEF ThreadNext, SchedulerStep, Panicked, thread_resched_point_pick,
         thread_switch_to, thread_entry_idle, thread_resched_point_idle,
         el0_resume, thread_tick_irq, ChargeTick, threadVars

(* Under any client of the layer a task never comes out of a blocking call *)
(* with the call's argument in x0.                                         *)
THEOREM ResultCorrect == ThreadSpec => []ResultBeforeResume
<1>1. ThreadInit => ResultBeforeResume
  BY DEF ThreadInit, ResultBeforeResume, Blocks, UserSlots
<1> QED
  BY <1>1, ResultStep, ThreadTypeCorrect, SchedulerCorrect, PTL DEF ThreadSpec

-----------------------------------------------------------------------------
(* The idle thread                                                         *)

(* A set of numbers that is not empty has a least one.                     *)
LEMMA LeastNumber ==
  ASSUME NEW T, T \subseteq Nat, T # {}
  PROVE  \E x \in T : \A y \in T : x <= y
<1> DEFINE R == {ss \in Nat \X Nat : ss[1] < ss[2]}
<1>1. IsWellFoundedOn(R, Nat)
  BY NatLessThanWellFounded, Zenon DEF OpToRel
<1>2. \E x \in T : \A y \in T : <<y, x>> \notin R
  BY <1>1, WFMin
<1>3. PICK x \in T : \A y \in T : <<y, x>> \notin R
  BY <1>2
<1>4. ASSUME NEW y \in T PROVE x <= y
  <2>1. x \in Nat /\ y \in Nat /\ <<y, x>> \in Nat \X Nat
    OBVIOUS
  <2>2. <<y, x>>[1] = y /\ <<y, x>>[2] = x
    OBVIOUS
  <2>3. ~(y < x)
    BY <1>3, <2>1, <2>2
  <2> QED BY <2>1, <2>3
<1> QED BY <1>4

(* The scan of pick_next_thread visits every slot at some distance.        *)
LEMMA RingDistanceType ==
  ASSUME ThreadTypeOK, NEW s \in Slots
  PROVE  RingDistance(s) \in 0 .. THREAD_COUNT - 1
BY ThreadAssumption DEF ThreadTypeOK, RingDistance, Slots, NONE

(* pick_next_thread finds a task if there is one to find.                  *)
LEMMA PickFinds ==
  ASSUME ThreadTypeOK, pick_next_thread = {}
  PROVE  \A s \in UserSlots : ~thread_is_selectable(s)
<1>1. ASSUME Candidates # {} PROVE FALSE
  <2> DEFINE T == {RingDistance(s) : s \in Candidates}
  <2>1. T \subseteq Nat /\ T # {}
    BY <1>1, RingDistanceType, ThreadAssumption DEF Candidates, UserSlots, Slots
  <2>2. PICK x \in T : \A y \in T : x <= y
    BY <2>1, LeastNumber
  <2>3. PICK s \in Candidates : x = RingDistance(s)
    BY <2>2
  <2>4. s \in pick_next_thread
    BY <1>1, <2>2, <2>3 DEF pick_next_thread
  <2> QED BY <2>4
<1> QED BY <1>1 DEF pick_next_thread, Candidates

(* Once the idle thread is chosen nothing makes a task selectable.         *)
LEMMA IdleStep ==
  ASSUME ThreadTypeOK, SchedulerInv, IdleOnlyIfStuck, [ThreadNext]_threadVars
  PROVE  IdleOnlyIfStuck'
<1> USE ThreadAssumption DEF ThreadTypeOK, SchedulerInv, InTask, IdleOnlyIfStuck, At
<1>1. ASSUME phase' \in InTask, current' \in UserSlots
      PROVE  IdleOnlyIfStuck'
  BY <1>1 DEF UserSlots
<1>2. ASSUME NEW wake \in Wakes, user_task_return_step(wake)
      PROVE  IdleOnlyIfStuck'
  BY <1>2 DEF user_task_return_step, OnUserTask, UserSlots
<1>3. CASE thread_resched_point_pick
  <2>1. CASE current = THREAD_SLOT_IDLE
    BY <1>3, <2>1 DEF thread_resched_point_pick, thread_is_selectable
  <2>2. CASE current # THREAD_SLOT_IDLE
    <3>1. next' = THREAD_SLOT_IDLE => pick_next_thread = {}
      BY <1>3 DEF thread_resched_point_pick, PickOrIdle, pick_next_thread,
                  Candidates, UserSlots, Slots, NONE
    <3>2. next' = THREAD_SLOT_IDLE =>
            \A s \in UserSlots : ~thread_is_selectable(s)
      BY <3>1, PickFinds
    <3> QED BY <1>3, <2>2, <3>2
            DEF thread_resched_point_pick, thread_is_selectable
  <2> QED BY <2>1, <2>2
<1>4. CASE thread_switch_to
  BY <1>4 DEF thread_switch_to, thread_is_selectable, UserSlots
<1>5. CASE UNCHANGED <<tstate, ustate, current>> /\ phase' # "switch"
  BY <1>5 DEF thread_is_selectable
<1>6. CASE UNCHANGED <<tstate, ustate, current, phase, next>>
  BY <1>6 DEF thread_is_selectable
<1>7. ASSUME NEW ret \in RetVals, NEW wake \in Wakes, SyscallReturn(ret, wake)
      PROVE  IdleOnlyIfStuck'
  BY <1>7, <1>1 DEF SyscallReturn, OnUserTask
<1>8. ASSUME NEW r \in Reasons \ {"NONE"}, NEW ok \in BOOLEAN,
             NEW wake \in Wakes, thread_user_trap_redirect(r, ok, wake)
      PROVE  IdleOnlyIfStuck'
  BY <1>8, <1>1 DEF thread_user_trap_redirect, OnUserTask
<1>9. ASSUME NEW s \in UserSlots, thread_user_restart(s)
      PROVE  IdleOnlyIfStuck'
  BY <1>9, <1>1 DEF thread_user_restart, OnUserTask
<1>10. CASE thread_enter_el0 \/ user_task_resume
  BY <1>10, <1>1 DEF thread_enter_el0, user_task_resume, InTask
<1> QED
  BY <1>2, <1>3, <1>4, <1>5, <1>6, <1>7, <1>8, <1>9, <1>10
     DEF ThreadNext, SchedulerStep, Panicked, thread_entry_idle,
         thread_resched_point_idle, el0_resume, thread_tick_irq, ChargeTick, threadVars

(* Under any client of the layer the idle thread is chosen only when no    *)
(* task can run, and from then on none can.                                *)
THEOREM IdleCorrect == ThreadSpec => []IdleOnlyIfStuck
<1>1. ThreadInit => IdleOnlyIfStuck
  BY ThreadAssumption
     DEF ThreadInit, IdleOnlyIfStuck, UserSlots, Slots, NONE
<1> QED
  BY <1>1, IdleStep, ThreadTypeCorrect, SchedulerCorrect, PTL DEF ThreadSpec

-----------------------------------------------------------------------------
(* The round robin passes no task over more than once for each other user  *)
(* task.  The measure: what a task has been passed over, plus the slots    *)
(* the next scan visits before it, the idle slot not counted, never        *)
(* exceeds the number of other user tasks.                                 *)

(* The slots of the ring strictly between f and s.                         *)
Dist(f, s) == IF s > f THEN s - f - 1 ELSE s - f - 1 + THREAD_COUNT

(* The same without the idle thread's slot, which no scan stops at.        *)
UserDist(f, s) ==
  Dist(f, s) - (IF Dist(f, THREAD_SLOT_IDLE) < Dist(f, s) THEN 1 ELSE 0)

(* Where the next scan starts: after the thread chosen last.               *)
LastChosen == IF phase = "switch" THEN next ELSE current

RingInv ==
  panic = "none" =>
    \A s \in UserSlots : passed[s] + UserDist(LastChosen, s) <= THREAD_COUNT - 2

PassedOK == passed \in [UserSlots -> Nat]

BypassInv == ThreadTypeOK /\ SchedulerInv /\ NoInternalPanic /\ PassedOK
         /\ RingInv /\ BoundedBypass

-----------------------------------------------------------------------------
(* Facts about the ring (pick_next_thread's slot arithmetic)               *)

(* The modulus of pick_next_thread written as a case split.                *)
LEMMA RingDistanceIsDist ==
  ASSUME ThreadTypeOK, current \in Slots, NEW s \in Slots
  PROVE  RingDistance(s) = Dist(current, s)
<1> DEFINE a == s - current - 1
<1> USE ThreadAssumption DEF Slots
<1>1. RingDistance(s) = a % THREAD_COUNT
  BY DEF RingDistance, NONE
<1>2. THREAD_COUNT \in Nat \ {0} /\ a \in Int
  OBVIOUS
<1>3. CASE s > current
  <2>1. a \in 0 .. THREAD_COUNT - 1
    BY <1>3
  <2>2. \A n \in Nat \ {0} : \A m \in 0 .. n - 1 : m % n = m
    OBVIOUS
  <2> QED BY <1>1, <1>2, <1>3, <2>1, <2>2 DEF Dist
<1>4. CASE ~(s > current)
  <2>1. a \in -THREAD_COUNT .. -1
    BY <1>4
  <2>2. \A n \in Nat \ {0} : \A m \in -n .. -1 : m % n = m + n
    OBVIOUS
  <2> QED BY <1>1, <1>2, <1>4, <2>1, <2>2 DEF Dist
<1> QED BY <1>3, <1>4

(* Distances are natural numbers below the size of the ring, and a user    *)
(* task is never further away than there are other user tasks.             *)
LEMMA UserDistBound ==
  ASSUME NEW f \in Slots, NEW s \in UserSlots
  PROVE  UserDist(f, s) \in 0 .. THREAD_COUNT - 2
BY ThreadAssumption DEF UserDist, Dist, Slots, UserSlots

(* Slots lie at different distances, the starting point at the greatest.   *)
LEMMA DistFacts ==
  ASSUME NEW f \in Slots, NEW n \in Slots, NEW s \in Slots, n # s
  PROVE  /\ Dist(f, n) \in 0 .. THREAD_COUNT - 1
         /\ Dist(f, n) # Dist(f, s)
         /\ Dist(f, f) = THREAD_COUNT - 1
BY ThreadAssumption DEF Dist, Slots

(* When a scan from f stops at n before it reaches s, the next scan, from  *)
(* n, visits fewer user slots before s.                                    *)
LEMMA Closer ==
  ASSUME NEW f \in Slots, NEW n \in UserSlots, NEW s \in UserSlots,
         Dist(f, n) < Dist(f, s)
  PROVE  UserDist(n, s) + 1 <= UserDist(f, s)
BY ThreadAssumption DEF UserDist, Dist, Slots, UserSlots

-----------------------------------------------------------------------------
(* A choice keeps the measure: a task that could run and was not chosen    *)
(* lies behind the chosen one in the ring.                                 *)
LEMMA ChoiceStep ==
  ASSUME BypassInv, Choice
  PROVE  PassedOK' /\ RingInv' /\ BoundedBypass'
<1>1. /\ phase = "pick" /\ panic = "none" /\ current \in Slots
      /\ phase' = "switch" /\ panic' = "none" /\ current' = current
      /\ next' \in Slots /\ LastChosen = current /\ LastChosen' = next'
  BY PickSafe DEF BypassInv, Choice, thread_resched_point_pick, At, SchedulerInv, LastChosen
<1>2. next' \in PickOrIdle
  BY <1>1, ThreadAssumption DEF Choice, thread_resched_point_pick, NONE, Slots
<1>3. ASSUME NEW s \in UserSlots, thread_is_selectable(s), s # next'
      PROVE  /\ next' \in UserSlots
             /\ Dist(current, next') < Dist(current, s)
  <2>0. next' \in pick_next_thread
    BY <1>2, <1>3, PickFinds DEF BypassInv, PickOrIdle
  <2>1. CASE Candidates # {}
    <3>1. /\ next' \in Candidates
          /\ \A o \in Candidates : RingDistance(next') <= RingDistance(o)
      BY <2>0, <2>1 DEF pick_next_thread
    <3>2. next' \in UserSlots /\ next' # current
      BY <3>1 DEF Candidates
    <3>3. /\ Dist(current, next') \in 0 .. THREAD_COUNT - 1
          /\ Dist(current, s) \in 0 .. THREAD_COUNT - 1
          /\ Dist(current, next') # Dist(current, s)
      BY <1>1, <1>3, DistFacts DEF UserSlots
    <3>4. Dist(current, next') <= Dist(current, s)
      <4>1. CASE s = current
        BY <1>1, <1>3, <3>3, <4>1, DistFacts, ThreadAssumption DEF Slots
      <4>2. CASE s # current
        <5>1. RingDistance(next') <= RingDistance(s)
          BY <1>3, <3>1, <4>2 DEF Candidates
        <5> QED
          BY <1>1, <3>2, <5>1, RingDistanceIsDist DEF BypassInv, UserSlots
      <4> QED BY <4>1, <4>2
    <3> QED BY <3>2, <3>3, <3>4
  <2>2. CASE Candidates = {}
    <3>1. s = current
      BY <1>3, <2>2 DEF Candidates
    <3>2. next' = current
      BY <2>0, <2>2 DEF pick_next_thread
    <3> QED BY <1>3, <3>1, <3>2
  <2> QED BY <2>1, <2>2
<1>4. ASSUME NEW s \in UserSlots
      PROVE  /\ passed'[s] \in Nat
             /\ passed'[s] + UserDist(next', s) <= THREAD_COUNT - 2
             /\ passed'[s] <= THREAD_COUNT - 2
  <2>1. UserDist(next', s) \in 0 .. THREAD_COUNT - 2
    BY <1>1, UserDistBound
  <2>2. CASE thread_is_selectable(s) /\ s # next'
    <3>1. passed'[s] = passed[s] + 1 /\ passed[s] \in Nat
      BY <2>2 DEF Choice, BypassInv, PassedOK
    <3>2. UserDist(next', s) + 1 <= UserDist(current, s)
      BY <1>1, <1>3, <2>2, Closer
    <3>3. UserDist(current, s) \in 0 .. THREAD_COUNT - 2
      BY <1>1, UserDistBound
    <3>4. passed[s] + UserDist(current, s) <= THREAD_COUNT - 2
      BY <1>1 DEF BypassInv, RingInv
    <3> QED
      BY <2>1, <3>1, <3>2, <3>3, <3>4, ThreadAssumption DEF Slots
  <2>3. CASE ~(thread_is_selectable(s) /\ s # next')
    <3>1. passed'[s] = 0
      BY <2>3 DEF Choice
    <3> QED BY <2>1, <3>1, ThreadAssumption DEF Slots
  <2> QED BY <2>2, <2>3
<1>5. passed' = [s \in UserSlots |-> passed'[s]]
  BY DEF Choice
<1>6. PassedOK'
  BY <1>4, <1>5 DEF PassedOK
<1>7. RingInv'
  <2> SUFFICES \A s \in UserSlots :
                 passed'[s] + UserDist(LastChosen', s) <= THREAD_COUNT - 2
    BY DEF RingInv, UserDist, Dist
  <2> QED BY <1>1, <1>4
<1> QED BY <1>4, <1>6, <1>7 DEF BoundedBypass

OtherThanChoice == ThreadNext /\ ~thread_resched_point_pick /\ UNCHANGED passed

(* Every other step leaves the count alone, and the place where the next   *)
(* scan starts: only thread_switch_to changes g_current, to next.          *)
LEMMA OtherStep ==
  ASSUME BypassInv, OtherThanChoice \/ UNCHANGED rrVars
  PROVE  PassedOK' /\ RingInv' /\ BoundedBypass'
<1>1. passed' = passed
  BY DEF OtherThanChoice, rrVars
<1>2. panic' = "none" => panic = "none" /\ LastChosen' = LastChosen
  <2>1. CASE UNCHANGED threadVars
    BY <2>1 DEF threadVars, LastChosen
  <2>2. CASE thread_switch_to
    BY <2>2 DEF thread_switch_to, At, LastChosen
  <2>3. ASSUME NEW ret, NEW wake, SyscallReturn(ret, wake)
        PROVE  panic = "none" /\ LastChosen' = LastChosen
    BY <2>3 DEF SyscallReturn, At, LastChosen
  <2>4. ASSUME NEW r, NEW ok, NEW wake, thread_user_trap_redirect(r, ok, wake)
        PROVE  panic = "none" /\ LastChosen' = LastChosen
    BY <2>4 DEF thread_user_trap_redirect, At, LastChosen
  <2>5. ASSUME NEW wake, user_task_return_step(wake)
        PROVE  panic = "none" /\ LastChosen' = LastChosen
    BY <2>5 DEF user_task_return_step, At, LastChosen
  <2>6. ASSUME NEW s, thread_user_restart(s)
        PROVE  panic = "none" /\ LastChosen' = LastChosen
    BY <2>6 DEF thread_user_restart, At, LastChosen
  <2>7. CASE thread_enter_el0 \/ user_task_resume \/ el0_resume
               \/ thread_entry_idle \/ thread_resched_point_idle
    BY <2>7 DEF thread_enter_el0, user_task_resume, el0_resume, thread_entry_idle,
                thread_resched_point_idle, At, LastChosen
  <2>8. CASE thread_tick_irq
    BY <2>8 DEF thread_tick_irq, ChargeTick, LastChosen
  <2> QED
    BY <2>1, <2>2, <2>3, <2>4, <2>5, <2>6, <2>7, <2>8
       DEF OtherThanChoice, rrVars, ThreadNext, SchedulerStep, Panicked
<1>3. RingInv'
  <2> SUFFICES ASSUME panic' = "none"
               PROVE  \A s \in UserSlots :
                        passed[s] + UserDist(LastChosen', s) <= THREAD_COUNT - 2
    BY <1>1 DEF RingInv, UserDist, Dist
  <2> QED BY <1>2 DEF BypassInv, RingInv
<1> QED BY <1>1, <1>3 DEF BypassInv, PassedOK, BoundedBypass

(* A task that can run is passed over by at most THREAD_COUNT - 2 choices  *)
(* of pick_next_thread in a row, for any number of tasks, any place of the *)
(* idle slot and any behaviour of the tasks: nobody starves.               *)
THEOREM RoundRobinBypass == RRSpec => []BoundedBypass
<1>1. RRInit => BypassInv
  <2> SUFFICES ASSUME RRInit PROVE BypassInv
    OBVIOUS
  <2>1. ThreadTypeOK /\ SchedulerInv /\ NoInternalPanic
    BY ThreadInitType, SchedulerInit DEF RRInit, ThreadInit, NoInternalPanic
  <2>2. PassedOK
    BY DEF RRInit, PassedOK
  <2>3. LastChosen \in Slots
    BY ThreadAssumption DEF RRInit, ThreadInit, LastChosen, UserSlots
  <2>4. \A s \in UserSlots : UserDist(LastChosen, s) \in 0 .. THREAD_COUNT - 2
    BY <2>3, UserDistBound
  <2>5. RingInv /\ BoundedBypass
    BY <2>4, ThreadAssumption DEF RRInit, RingInv, BoundedBypass, Slots
  <2> QED BY <2>1, <2>2, <2>5 DEF BypassInv
<1>2. BypassInv /\ [RRNext]_rrVars => BypassInv'
  <2> SUFFICES ASSUME BypassInv, [RRNext]_rrVars PROVE BypassInv'
    OBVIOUS
  <2>1. [ThreadNext]_threadVars
    BY DEF RRNext, rrVars
  <2>2. ThreadTypeOK' /\ SchedulerInv' /\ NoInternalPanic'
    BY <2>1, ThreadTypeStep, SchedulerStepSafe DEF BypassInv
  <2>3. PassedOK' /\ RingInv' /\ BoundedBypass'
    BY ChoiceStep, OtherStep DEF RRNext, Passes, OtherThanChoice
  <2> QED BY <2>2, <2>3 DEF BypassInv
<1>3. BypassInv => BoundedBypass
  BY DEF BypassInv
<1> QED BY <1>1, <1>2, <1>3, PTL DEF RRSpec
=============================================================================
