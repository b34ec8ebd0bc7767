----------------------------- MODULE CpuProofs -----------------------------
(***************************************************************************)
(* Proofs about the way in and out of EL0 (vectors.S, el0_resume.S,        *)
(* context_switch.S, user_task_return.S and what thread.c does to frames   *)
(* and contexts), for any number of threads.  The invariant says for each  *)
(* control point which registers, which stack and which saved contexts     *)
(* hold what; the interrupt's path carries the situation it interrupted.   *)
(***************************************************************************)
EXTENDS Cpu, ThreadProofs

Stacks == Slots \cup {NONE}

-----------------------------------------------------------------------------
(* The parts of the invariant                                              *)

(* The current task's registers.                                           *)
Here == User(current, want[current])

(* A context that resumes task t where it was trapped, with v in x0.       *)
CtxOf(t, n, v) ==
  [elr |-> User(t, n), spsr |-> SPSR_EL0T_MASKED, sp |-> User(t, n),
   regs |-> User(t, n), x0 |-> v]

(* A saved context resumes its task inside the sandbox.                    *)
Saved(t) == /\ uctx[t] = CtxOf(t, want[t], x0[t])
            /\ want[t] \in 0 .. POINTS

(* The context of a kernel thread that is switched out.                    *)
KernelCtx(t) ==
  [lr |-> IF t \in bootstrap THEN <<"thread_bootstrap">> ELSE <<"landed">>,
   sp |-> t, regs |-> Kernel(t)]

NoFrames == frames = [t \in Stacks |-> <<>>]
OneFrame == frames = [t \in Stacks |-> IF t = sp THEN <<Top>> ELSE <<>>]

TaskLeft == elr = Here /\ spsr = SPSR_EL0T_MASKED
ToKernel == elr = <<"user_task_return_to_kernel">> /\ spsr = SPSR_EL1H_MASKED

(* At EL0.                                                                 *)
AtTask ==
  /\ phase = "el0" /\ sp = current /\ cut = <<>> /\ NoFrames
  /\ pc = Here /\ pstate = SPSR_EL0T_MASKED
  /\ sp0 = Here /\ regs = Here /\ rx0 = x0[current]

(* In a synchronous trap, until its handler has decided what to do.        *)
AtTrap ==
  /\ phase = "el0" /\ sp = current /\ cut = <<>>
  /\ pstate = SPSR_EL1H_MASKED /\ sp0 = Here
  /\ \/ /\ pc = <<"el0_sync">>
        /\ elr = Here /\ spsr = SPSR_EL0T_MASKED
        /\ regs = Here /\ rx0 = ARG /\ NoFrames
     \/ /\ pc = <<"exception_sync_el0">> /\ OneFrame
        /\ Top = CtxOf(current, want[current], ARG)

(* On the way back to the task.                                            *)
AtReturn ==
  /\ phase = "el0" /\ sp = current /\ cut = <<>>
  /\ pstate = SPSR_EL1H_MASKED /\ sp0 = Here
  /\ \/ /\ pc = <<"RESTORE_SYNC_CONTEXT">> /\ OneFrame
        /\ Top = CtxOf(current, want[current], x0[current])
     \/ /\ pc = <<"RESTORE_CONTEXT">> /\ OneFrame /\ TaskLeft
        /\ Top = CtxOf(current, want[current], x0[current])
     \/ /\ pc = <<"eret">> /\ NoFrames /\ TaskLeft
        /\ regs = Here /\ rx0 = x0[current]

(* On the way to the kernel's continuation of the task.                    *)
AtRedirect ==
  /\ phase = "trapped" /\ sp = current /\ cut = <<>>
  /\ pstate = SPSR_EL1H_MASKED /\ Saved(current)
  /\ \/ /\ pc = <<"RESTORE_SYNC_CONTEXT">> /\ OneFrame
        /\ Top.elr = <<"user_task_return_to_kernel">>
        /\ Top.spsr = SPSR_EL1H_MASKED
     \/ pc = <<"RESTORE_CONTEXT">> /\ OneFrame /\ ToKernel
     \/ pc = <<"eret">> /\ NoFrames /\ ToKernel
     \/ pc = <<"user_task_return_to_kernel">> /\ NoFrames

(* In el0_resume, with IRQs masked.                                        *)
AtLoad ==
  /\ phase = "el0" /\ sp = current /\ cut = <<>> /\ NoFrames
  /\ pstate = SPSR_EL1H_MASKED /\ Saved(current) /\ rx0 = current
  /\ \/ pc = <<"load_sp_el0">>
     \/ pc = <<"load_elr">> /\ sp0 = Here
     \/ pc = <<"load_spsr">> /\ sp0 = Here /\ elr = Here
     \/ pc = <<"load_registers">> /\ sp0 = Here /\ TaskLeft

(* Where IRQs are open, and the thread layer's control point there.        *)
OpenPoints == {"pick", "switch", "context_switch", "thread_bootstrap", "landed",
               "idle", "thread_current_user_ctx", "el0_resume"}

PhaseAt(q) ==
  CASE q \in {"context_switch", "thread_bootstrap", "landed"} -> "landed"
    [] q \in {"thread_current_user_ctx", "el0_resume"} -> "resume"
    [] OTHER -> q

(* The kernel at q with v in x0: on the current thread's stack, but        *)
(* between the bookkeeping of a switch and the switch.                     *)
Kernelly(q, v) ==
  /\ phase = PhaseAt(q)
  /\ q # "context_switch" => sp = current
  /\ q = "context_switch" => v = sp /\ sp # current /\ sp \notin bootstrap
  /\ q = "el0_resume" => v = current
  /\ \A t \in UserSlots : t = current => Saved(t)

AtOpen(q, v) ==
  /\ pc = <<q>> /\ pstate = EL1H_OPEN /\ Kernelly(q, v)
  /\ regs = Kernel(sp) /\ rx0 = v
  /\ cut = <<>> /\ NoFrames

(* An interrupt of the kernel at q.                                        *)
IrqFrame(q, v) ==
  [elr |-> <<q>>, spsr |-> EL1H_OPEN, regs |-> Kernel(sp), x0 |-> v,
   sp |-> Kernel(sp)]

AtIrq(q, v) ==
  /\ pstate = SPSR_EL1H_MASKED /\ Kernelly(q, v)
  /\ cut = <<<< <<q>>, EL1H_OPEN, Kernel(sp), v, sp >>>>
  /\ elr = <<q>> /\ spsr = EL1H_OPEN
  /\ \/ /\ pc \in {<<"irq_vector">>, <<"eret">>} /\ NoFrames
        /\ regs = Kernel(sp) /\ rx0 = v
     \/ /\ pc \in {<<"exception_irq">>, <<"RESTORE_CONTEXT">>} /\ OneFrame
        /\ Top = IrqFrame(q, v)

InKernel    == \E q \in OpenPoints, v \in Stacks : AtOpen(q, v)
Interrupted == \E q \in OpenPoints, v \in Stacks : AtIrq(q, v)

Control ==
  \/ AtTask \/ AtTrap \/ AtReturn \/ AtRedirect \/ AtLoad
  \/ InKernel \/ Interrupted

(* What is saved for the threads and tasks the CPU is not with.            *)
Contexts ==
  /\ \A t \in UserSlots \ {current} : Saved(t)
  /\ \A t \in Slots \ {sp} : kctx[t] = KernelCtx(t)

(* A thread has left thread_bootstrap once it has landed.                  *)
Bootstrapped == current # NONE /\ phase # "landed" => current \notin bootstrap

CpuTypeOK ==
  /\ sp \in Stacks
  /\ kctx = [t \in Stacks |-> kctx[t]]
  /\ uctx = [t \in UserSlots |-> uctx[t]]
  /\ want = [t \in UserSlots |-> want[t]]
  /\ NoFrames \/ OneFrame

CpuInv ==
  /\ ThreadTypeOK /\ SchedulerInv /\ NoInternalPanic
  /\ Bootstrapped
  /\ CpuTypeOK
  /\ panic = "none" => Control /\ Contexts

-----------------------------------------------------------------------------
(* Facts about labels, frames and contexts                                 *)

(* A program's address is no label of the kernel's code and tells its task.*)
LEMMA Labels ==
  ASSUME NEW t, NEW n, NEW l
  PROVE  /\ User(t, n) # <<l>>
         /\ User(t, n)[2] = t
         /\ InSandbox(User(t, n)) <=> n \in 0 .. POINTS
<1>1. Len(User(t, n)) = 3 /\ Len(<<l>>) = 1
  BY DEF User
<1> QED BY <1>1 DEF User, InSandbox

(* A stack of one frame (SAVE_CONTEXT on an empty stack, RESTORE_CONTEXT). *)
LEMMA OneElement ==
  ASSUME NEW f, NEW g
  PROVE  /\ <<f>> \o <<>> = <<f>>
         /\ Head(<<f>>) = f
         /\ Tail(<<f>>) = <<>>
         /\ <<f>> # <<>>
         /\ <<g>> \o Tail(<<f>>) = <<g>>
OBVIOUS

(* Pushing, editing and popping the one frame, and leaving it alone.       *)
LEMMA FramePushed ==
  ASSUME sp \in Stacks, NoFrames, NEW f, sp' = sp,
         frames' = [frames EXCEPT ![sp] = <<f>> \o @]
  PROVE  OneFrame' /\ Top' = f
<1>1. frames' = [t \in Stacks |-> IF t = sp THEN <<f>> ELSE <<>>]
  BY OneElement DEF NoFrames
<1>2. Top' = f
  BY <1>1, OneElement DEF Top
<1> QED BY <1>1, <1>2 DEF OneFrame

LEMMA FrameEdited ==
  ASSUME sp \in Stacks, OneFrame, NEW f, sp' = sp, OnTop(f)
  PROVE  OneFrame' /\ Top' = f
<1>1. frames' = [t \in Stacks |-> IF t = sp THEN <<f>> ELSE <<>>]
  BY OneElement DEF OneFrame, OnTop
<1>2. Top' = f
  BY <1>1, OneElement DEF Top
<1> QED BY <1>1, <1>2 DEF OneFrame

LEMMA FramePopped ==
  ASSUME sp \in Stacks, OneFrame, frames' = [frames EXCEPT ![sp] = Tail(@)]
  PROVE  NoFrames'
BY OneElement DEF OneFrame, NoFrames

LEMMA FramesSame ==
  ASSUME UNCHANGED frames
  PROVE  /\ NoFrames' = NoFrames
         /\ sp' = sp => OneFrame' = OneFrame /\ Top' = Top
BY DEF NoFrames, OneFrame, Top

(* What no step touches stays saved.                                       *)
LEMMA SavedSame ==
  ASSUME NEW t, uctx'[t] = uctx[t], want'[t] = want[t], x0'[t] = x0[t]
  PROVE  Saved(t)' = Saved(t)
BY DEF Saved, CtxOf

(* A wake-up keeps saved contexts saved: the result goes to the context    *)
(* and is what x0 will be (thread_user_wake_with_x0).                      *)
LEMMA WokenSaved ==
  ASSUME NEW wake, NEW t \in UserSlots, NEW u, NEW n, NEW v,
         u[t] = CtxOf(t, n, v)
  PROVE  Woken(u, wake)[t] = CtxOf(t, n, IF t \in DOMAIN wake THEN wake[t] ELSE v)
BY DEF Woken, CtxOf

(* Where the CPU is, by its label and its mask.                            *)
LEMMA Where ==
  ASSUME Control
  PROVE  /\ pstate \in {SPSR_EL0T_MASKED, SPSR_EL1H_MASKED, EL1H_OPEN}
         /\ pstate = SPSR_EL0T_MASKED => AtTask
         /\ pstate = EL1H_OPEN => InKernel
         /\ pc[1] \in {"el0_sync", "exception_sync_el0"} => AtTrap
         /\ pc[1] = "RESTORE_SYNC_CONTEXT" => AtReturn \/ AtRedirect
         /\ pc[1] = "user_task_return_to_kernel" => AtRedirect
         /\ pc[1] \in {"load_sp_el0", "load_elr", "load_spsr", "load_registers"}
              => AtLoad
         /\ pc[1] \in {"irq_vector", "exception_irq"} => Interrupted
         /\ pc[1] \in {"RESTORE_CONTEXT", "eret"}
              => AtReturn \/ AtRedirect \/ Interrupted
         /\ pc[1] \in OpenPoints => InKernel
<1>1. AtTask => pc[1] = "user" /\ pstate = SPSR_EL0T_MASKED
  BY DEF AtTask, Here, User
<1>2. AtTrap => /\ pc[1] \in {"el0_sync", "exception_sync_el0"}
                /\ pstate = SPSR_EL1H_MASKED
  BY DEF AtTrap
<1>3. AtReturn => /\ pc[1] \in {"RESTORE_SYNC_CONTEXT", "RESTORE_CONTEXT", "eret"}
                  /\ pstate = SPSR_EL1H_MASKED
  BY DEF AtReturn
<1>4. AtRedirect => /\ pc[1] \in {"RESTORE_SYNC_CONTEXT", "RESTORE_CONTEXT", "eret",
                                  "user_task_return_to_kernel"}
                    /\ pstate = SPSR_EL1H_MASKED
  BY DEF AtRedirect
<1>5. AtLoad => /\ pc[1] \in {"load_sp_el0", "load_elr", "load_spsr",
                              "load_registers"}
                /\ pstate = SPSR_EL1H_MASKED
  BY DEF AtLoad
<1>6. InKernel => pc[1] \in OpenPoints /\ pstate = EL1H_OPEN
  BY DEF InKernel, AtOpen
<1>7. Interrupted => /\ pc[1] \in {"irq_vector", "exception_irq",
                                   "RESTORE_CONTEXT", "eret"}
                     /\ pstate = SPSR_EL1H_MASKED
  BY DEF Interrupted, AtIrq
<1>8. /\ SPSR_EL0T_MASKED # SPSR_EL1H_MASKED /\ SPSR_EL0T_MASKED # EL1H_OPEN
      /\ SPSR_EL1H_MASKED # EL1H_OPEN
  BY DEF SPSR_EL0T_MASKED, SPSR_EL1H_MASKED, EL1H_OPEN
<1> QED BY <1>8, <1>1, <1>2, <1>3, <1>4, <1>5, <1>6, <1>7 DEF Control, OpenPoints

(* The thread layer's control points at the labels with IRQs open.         *)
LEMMA Phase ==
  /\ PhaseAt("pick") = "pick" /\ PhaseAt("switch") = "switch"
  /\ PhaseAt("idle") = "idle"
  /\ PhaseAt("context_switch") = "landed" /\ PhaseAt("landed") = "landed"
  /\ PhaseAt("thread_bootstrap") = "landed"
  /\ PhaseAt("thread_current_user_ctx") = "resume"
  /\ PhaseAt("el0_resume") = "resume"
  /\ \A q \in OpenPoints : PhaseAt(q) \in IrqOpen
<1>1. \A q : q \in {"context_switch", "thread_bootstrap", "landed"}
               => PhaseAt(q) = "landed"
  BY DEF PhaseAt
<1>2. \A q : q \in {"thread_current_user_ctx", "el0_resume"}
               => PhaseAt(q) = "resume"
  BY DEF PhaseAt
<1>3. \A q \in {"pick", "switch", "idle"} : PhaseAt(q) = q
  BY DEF PhaseAt
<1> QED BY <1>1, <1>2, <1>3 DEF OpenPoints, IrqOpen

(* The kernel at a label with IRQs open.                                   *)
LEMMA Opened ==
  ASSUME CpuInv, NEW q \in OpenPoints, AtPc(q)
  PROVE  /\ AtOpen(q, rx0) /\ rx0 \in Stacks
         /\ phase = PhaseAt(q) /\ Contexts
<1>1. Control /\ Contexts /\ pc[1] = q
  BY DEF CpuInv, AtPc
<1>2. PICK p \in OpenPoints, v \in Stacks : AtOpen(p, v)
  BY <1>1, Where DEF InKernel
<1>3. p = q /\ v = rx0
  BY <1>1, <1>2 DEF AtOpen
<1> QED BY <1>1, <1>2, <1>3 DEF AtOpen, Kernelly

(* A task that is about to be resumed has its context within the sandbox.  *)
LEMMA ResumesInside ==
  ASSUME CpuInv, AtPc("thread_current_user_ctx")
  PROVE  /\ OnUserTask /\ currentTask = current /\ current \in UserSlots
         /\ Saved(current) /\ InSandbox(uctx[currentTask].elr)
<1>1. AtOpen("thread_current_user_ctx", rx0) /\ phase = "resume"
  BY Opened, Phase DEF OpenPoints
<1>2. OnUserTask
  BY <1>1 DEF CpuInv, SchedulerInv, AtPc, InTask
<1>3. Saved(current) /\ current \in UserSlots
  BY <1>1, <1>2 DEF AtOpen, Kernelly, OnUserTask
<1>4. /\ uctx[current].elr = User(current, want[current])
      /\ want[current] \in 0 .. POINTS
  BY <1>3 DEF Saved, CtxOf
<1>5. currentTask = current
  BY <1>2 DEF OnUserTask
<1> QED BY <1>2, <1>3, <1>4, <1>5, Labels

(* Each step is one of the thread layer's, or leaves it alone; the mask    *)
(* lets a tick in only where Thread does, and the context that is resumed  *)
(* passes its check.                                                       *)
LEMMA ThreadStep ==
  ASSUME CpuInv, [CpuNext]_cpuVars
  PROVE  [ThreadNext]_threadVars
<1>1. CASE exception_irq
  <2>1. AtPc("exception_irq") /\ panic = "none"
    BY <1>1 DEF exception_irq, AtPc
  <2>2. Interrupted
    BY <2>1, Where DEF CpuInv, AtPc
  <2>3. phase \in IrqOpen
    BY <2>2, Phase DEF Interrupted, AtIrq, Kernelly
  <2>4. thread_tick_irq \/ UNCHANGED threadVars
    BY <1>1, <2>1, <2>3 DEF exception_irq, thread_tick_irq
  <2> QED BY <2>4 DEF ThreadNext
<1>2. CASE exception_sync_el0
  <2>1. CASE \E ret \in RetVals, wake \in Wakes : HandlerReturns(ret, wake)
    BY <2>1 DEF HandlerReturns, ThreadNext
  <2>2. CASE \E t \in UserSlots : HandlerRestarts(t)
    BY <2>2 DEF HandlerRestarts, ThreadNext
  <2>3. ASSUME NEW r \in Reasons \ {"NONE"}, NEW wake \in Wakes,
               HandlerRedirects(r, wake)
        PROVE  ThreadNext
    <3>1. InSandbox(Top.elr) \in BOOLEAN
      BY DEF InSandbox
    <3> QED BY <2>3, <3>1 DEF HandlerRedirects, ThreadNext
  <2>4. NoWake \in Wakes
    <3>1. NoWake \in [{} -> RetVals]
      BY DEF NoWake
    <3> QED BY <3>1 DEF Wakes
  <2>5. "FAULT" \in Reasons \ {"NONE"}
    BY DEF Reasons
  <2> QED BY <1>2, <2>1, <2>2, <2>3, <2>4, <2>5 DEF exception_sync_el0
<1>3. CASE thread_current_user_ctx
  BY <1>3, ResumesInside DEF thread_current_user_ctx, AtPc, threadVars
<1>4. ASSUME NEW wake \in Wakes, ReturnToKernel(wake)
      PROVE  ThreadNext
  BY <1>4 DEF ReturnToKernel, ThreadNext
<1>5. CASE Pick \/ SwitchTo \/ thread_bootstrap \/ IdleConsumes \/ Landed
  BY <1>5 DEF Pick, SwitchTo, thread_bootstrap, IdleConsumes, Landed, ThreadNext,
              SchedulerStep
<1>6. CASE ResumeMasks
  BY <1>6 DEF ResumeMasks, ThreadNext, SchedulerStep
<1>7. CASE ResumeSp \/ ResumeElr \/ ResumeSpsr \/ ResumeRegisters
  BY <1>7 DEF ResumeSp, ResumeElr, ResumeSpsr, ResumeRegisters
<1>8. CASE \/ \E n \in 1 .. WILD : el0_trap(n)
           \/ SAVE_CONTEXT("el0_sync", "exception_sync_el0") \/ take_irq
           \/ SAVE_CONTEXT("irq_vector", "exception_irq")
           \/ RESTORE_SYNC_CONTEXT \/ RESTORE_CONTEXT \/ eret \/ context_switch
  BY <1>8 DEF el0_trap, SAVE_CONTEXT, take_irq, RESTORE_SYNC_CONTEXT,
              RESTORE_CONTEXT, eret, context_switch
<1>9. CASE UNCHANGED cpuVars
  BY <1>9 DEF cpuVars
<1> QED BY <1>1, <1>2, <1>3, <1>4, <1>5, <1>6, <1>7, <1>8, <1>9
        DEF CpuNext, Resume

-----------------------------------------------------------------------------
(* The steps of the machine keep the invariant                             *)

Machine == CpuTypeOK /\ (panic = "none" => Control /\ Contexts)

(* Saved contexts and stacks that a step does not touch.                   *)
LEMMA ContextsSame ==
  ASSUME UNCHANGED <<uctx, kctx, want, sp, current, x0, bootstrap>>
  PROVE  /\ Contexts' = Contexts
         /\ \A t : Saved(t)' = Saved(t)
         /\ Here' = Here
BY DEF Contexts, Saved, CtxOf, KernelCtx, Here

LEMMA TypeSame ==
  ASSUME CpuTypeOK, UNCHANGED <<uctx, kctx, want, sp>>, (NoFrames \/ OneFrame)'
  PROVE  CpuTypeOK'
BY DEF CpuTypeOK

(* What the invariant says of the thread layer at EL0 and in a trap.       *)
LEMMA CurrentIsTask ==
  ASSUME CpuInv, panic = "none", phase \in InTask
  PROVE  /\ current \in UserSlots /\ current \in Slots /\ current \in Stacks
         /\ currentTask = current /\ current # NONE
         /\ ustate[current] = "RUNNING"
BY ThreadAssumption
   DEF CpuInv, SchedulerInv, OnUserTask, UserSlots, Stacks, Slots, NONE

(* A system call or a fault at EL0, in the sandbox or not: the vector is   *)
(* entered with the task's registers and its ELR.                          *)
LEMMA TrapStep ==
  ASSUME CpuInv, NEW n, el0_trap(n)
  PROVE  Machine'
<1>1. panic = "none" /\ pstate.el = 0 /\ UNCHANGED threadVars
  BY DEF el0_trap
<1>2. AtTask /\ Contexts /\ CpuTypeOK
  <2>1. pstate = SPSR_EL0T_MASKED
    BY <1>1, Where DEF CpuInv, SPSR_EL1H_MASKED, EL1H_OPEN
  <2> QED BY <1>1, <2>1, Where DEF CpuInv
<1>3. pc = Here /\ pc[2] = current /\ current \in UserSlots
  BY <1>1, <1>2, Labels, CurrentIsTask DEF AtTask, Here, InTask
<1>4. /\ want' = [want EXCEPT ![current] = n] /\ current' = current
      /\ want'[current] = n /\ want' = [t \in UserSlots |-> want'[t]]
  BY <1>1, <1>2, <1>3 DEF el0_trap, threadVars, CpuTypeOK
<1>5. Here' = User(current, n) /\ NoFrames'
  BY <1>2, <1>4, FramesSame DEF Here, el0_trap, AtTask, memory
<1>6. AtTrap'
  BY <1>1, <1>2, <1>3, <1>5 DEF el0_trap, AtTask, AtTrap, Go, threadVars
<1>7. Contexts'
  <2>1. /\ UNCHANGED <<uctx, kctx, sp, current, x0, bootstrap>>
        /\ \A t \in UserSlots \ {current} : want'[t] = want[t]
    BY <1>1, <1>4, <1>2 DEF el0_trap, memory, threadVars, CpuTypeOK
  <2> QED BY <1>2, <2>1 DEF Contexts, Saved, CtxOf, KernelCtx
<1>8. CpuTypeOK'
  BY <1>2, <1>4, <1>5 DEF CpuTypeOK, el0_trap, memory
<1> QED BY <1>6, <1>7, <1>8 DEF Machine, Control

(* The trap frame: ELR, SPSR, the registers and the EL0 stack pointer.     *)
LEMMA SaveTrapStep ==
  ASSUME CpuInv, SAVE_CONTEXT("el0_sync", "exception_sync_el0")
  PROVE  Machine'
<1> DEFINE f == [elr |-> elr, spsr |-> spsr, regs |-> regs, x0 |-> rx0,
                 sp |-> IF spsr.el = 0 THEN sp0 ELSE Kernel(sp)]
<1>1. /\ panic = "none" /\ pc = <<"el0_sync">> /\ pc[1] = "el0_sync"
      /\ pc' = <<"exception_sync_el0">>
      /\ frames' = [frames EXCEPT ![sp] = <<f>> \o @]
      /\ UNCHANGED <<threadVars, pstate, sp0, sp, kctx, uctx, want, cut>>
  BY DEF SAVE_CONTEXT, AtPc, Go
<1>2. Contexts /\ CpuTypeOK
  BY <1>1 DEF CpuInv
<1>3. /\ NoFrames /\ elr = Here /\ spsr = SPSR_EL0T_MASKED
      /\ regs = Here /\ rx0 = ARG /\ sp0 = Here
      /\ phase = "el0" /\ sp = current /\ cut = <<>>
      /\ pstate = SPSR_EL1H_MASKED
  BY <1>1, Where DEF CpuInv, AtTrap
<1>4. f = CtxOf(current, want[current], ARG)
  <2>1. spsr.el = 0
    BY <1>3 DEF SPSR_EL0T_MASKED
  <2>2. f = [elr |-> Here, spsr |-> SPSR_EL0T_MASKED, regs |-> Here, x0 |-> ARG,
             sp |-> Here]
    BY <1>3, <2>1
  <2> QED BY <2>2 DEF CtxOf, Here
<1> HIDE DEF f
<1>5. OneFrame' /\ Top' = f
  BY <1>1, <1>2, <1>3, FramePushed DEF CpuTypeOK
<1>6. Contexts' /\ CpuTypeOK' /\ Here' = Here
  BY <1>1, <1>2, <1>5, ContextsSame, TypeSame DEF threadVars
<1>7. AtTrap'
  <2>1. CtxOf(current, want[current], ARG)' = CtxOf(current, want[current], ARG)
    BY <1>1 DEF CtxOf, threadVars
  <2> QED BY <1>1, <1>3, <1>4, <1>5, <1>6, <2>1 DEF AtTrap, threadVars
<1> QED BY <1>6, <1>7 DEF Machine, Control

(* The handler of a synchronous trap finds the task's frame on the stack.  *)
LEMMA Handled ==
  ASSUME CpuInv, AtPc("exception_sync_el0")
  PROVE  /\ panic = "none" /\ Contexts /\ CpuTypeOK
         /\ phase = "el0" /\ sp = current /\ cut = <<>>
         /\ pstate = SPSR_EL1H_MASKED /\ sp0 = Here
         /\ current \in UserSlots /\ current \in Slots /\ current \in Stacks
         /\ ustate[current] = "RUNNING"
         /\ OneFrame /\ Top = CtxOf(current, want[current], ARG)
         /\ InSandbox(Top.elr) <=> want[current] \in 0 .. POINTS
<1>1. panic = "none" /\ pc = <<"exception_sync_el0">> /\ pc[1] = "exception_sync_el0"
  BY DEF AtPc
<1>2. Control /\ Contexts /\ CpuTypeOK
  BY <1>1 DEF CpuInv
<1>3. AtTrap
  BY <1>1, <1>2, Where
<1>4. OneFrame /\ Top = CtxOf(current, want[current], ARG)
  BY <1>1, <1>3 DEF AtTrap
<1>5. InSandbox(Top.elr) <=> want[current] \in 0 .. POINTS
  <2>1. Top.elr = User(current, want[current])
    BY <1>4 DEF CtxOf
  <2> QED BY <2>1, Labels
<1>6. phase = "el0" /\ sp = current /\ cut = <<>>
      /\ pstate = SPSR_EL1H_MASKED /\ sp0 = Here
  BY <1>3 DEF AtTrap
<1>7. phase \in InTask
  BY <1>6 DEF InTask
<1> QED BY <1>1, <1>2, <1>4, <1>5, <1>6, <1>7, CurrentIsTask

(* A system call that returns to its task, with the wake-ups it makes: the *)
(* result is in the frame, those of the woken are in their contexts.       *)
LEMMA ReturnsStep ==
  ASSUME CpuInv, AtPc("exception_sync_el0"), Go("RESTORE_SYNC_CONTEXT"),
         NEW ret, NEW wake \in Wakes, HandlerReturns(ret, wake),
         UNCHANGED <<pstate, sp0, sp, kctx, cut>>
  PROVE  Machine'
<1>1. /\ x0' = [s \in Slots |-> IF s \in DOMAIN wake THEN wake[s]
                                ELSE [x0 EXCEPT ![current] = ret][s]]
      /\ uctx' = Woken(uctx, wake)
      /\ UNCHANGED <<current, phase, bootstrap, want>>
  BY DEF HandlerReturns, SyscallReturn, thread_user_wake_with_x0
<1>2. \A s \in DOMAIN wake : s \in UserSlots /\ ustate[s] = "BLOCKED"
  BY WakesLemma
<1>3. x0'[current] = ret
  BY <1>1, <1>2, Handled DEF CpuInv, ThreadTypeOK
<1>4. \A t \in UserSlots \ {current} :
        x0'[t] = IF t \in DOMAIN wake THEN wake[t] ELSE x0[t]
  BY <1>1, Handled DEF CpuInv, ThreadTypeOK, UserSlots
<1>5. \A t \in UserSlots \ {current} : Saved(t)'
  BY <1>1, <1>4, WokenSaved, Handled DEF Contexts, Saved
<1>6. OneFrame' /\ Top' = CtxOf(current, want[current], ret)
  <2>1. [Top EXCEPT !.x0 = ret] = CtxOf(current, want[current], ret)
    BY Handled DEF CtxOf
  <2> QED BY <2>1, Handled, FrameEdited DEF HandlerReturns
<1>7. Contexts'
  BY <1>1, <1>5, Handled DEF Contexts, KernelCtx
<1>8. CpuTypeOK'
  BY <1>1, <1>6, Handled DEF CpuTypeOK, Woken
<1>9. AtReturn'
  <2>1. Top' = CtxOf(current, want[current], x0[current])'
    BY <1>1, <1>3, <1>6 DEF CtxOf
  <2>2. pc' = <<"RESTORE_SYNC_CONTEXT">> /\ Here' = Here
    BY <1>1 DEF Go, Here
  <2> QED BY <1>1, <1>6, <2>1, <2>2, Handled DEF AtReturn
<1> QED BY <1>7, <1>8, <1>9 DEF Machine, Control

(* A restart: the dead task starts afresh, its kernel stack as it is.      *)
LEMMA RestartsStep ==
  ASSUME CpuInv, AtPc("exception_sync_el0"), Go("RESTORE_SYNC_CONTEXT"),
         NEW s \in UserSlots, HandlerRestarts(s),
         UNCHANGED <<pstate, sp0, sp, kctx, cut>>
  PROVE  Machine'
<1>1. /\ x0' = [x0 EXCEPT ![s] = 0, ![current] = 0]
      /\ uctx' = [uctx EXCEPT ![s] = user_task_init(s)]
      /\ want' = [want EXCEPT ![s] = 0]
      /\ UNCHANGED <<current, phase, bootstrap>>
      /\ ustate[s] = "DEAD"
  BY DEF HandlerRestarts, thread_user_restart, Restartable
<1>2. s # current /\ s \in Slots
  BY <1>1, Handled DEF UserSlots
<1>3. /\ x0'[current] = 0 /\ x0'[s] = 0
      /\ want'[current] = want[current] /\ want'[s] = 0 /\ 0 \in 0 .. POINTS
  BY <1>1, <1>2, Handled, CpuAssumption DEF CpuInv, ThreadTypeOK, CpuTypeOK
<1>4. ASSUME NEW t \in UserSlots \ {current}
      PROVE  Saved(t)'
  <2>1. CASE t = s
    <3>1. uctx'[s] = CtxOf(s, 0, 0)
      BY <1>1, Handled DEF CpuTypeOK, user_task_init, CtxOf
    <3> QED BY <1>3, <2>1, <3>1 DEF Saved
  <2>2. CASE t # s
    <3>1. uctx'[t] = uctx[t] /\ want'[t] = want[t] /\ x0'[t] = x0[t]
      BY <1>1, <2>2, Handled DEF CpuTypeOK, CpuInv, ThreadTypeOK, UserSlots
    <3> QED BY <3>1, SavedSame, Handled DEF Contexts
  <2> QED BY <2>1, <2>2
<1>6. OneFrame' /\ Top' = CtxOf(current, want[current], 0)
  <2>1. [Top EXCEPT !.x0 = 0] = CtxOf(current, want[current], 0)
    BY Handled DEF CtxOf
  <2> QED BY <2>1, Handled, FrameEdited DEF HandlerRestarts
<1>7. Contexts'
  BY <1>1, <1>4, Handled DEF Contexts, KernelCtx
<1>8. CpuTypeOK'
  BY <1>1, <1>6, Handled DEF CpuTypeOK
<1>9. AtReturn'
  <2>1. Top' = CtxOf(current, want[current], x0[current])'
    BY <1>1, <1>3, <1>6 DEF CtxOf
  <2>2. pc' = <<"RESTORE_SYNC_CONTEXT">> /\ Here' = Here
    BY <1>1, <1>3 DEF Go, Here
  <2> QED BY <1>1, <1>6, <2>1, <2>2, Handled DEF AtReturn
<1> QED BY <1>7, <1>8, <1>9 DEF Machine, Control

(* A redirected trap: the frame becomes the task's context, with the       *)
(* call's first argument in x0, and then the way to the continuation; an   *)
(* ELR outside the sandbox stops the kernel instead.                       *)
LEMMA RedirectsStep ==
  ASSUME CpuInv, AtPc("exception_sync_el0"), Go("RESTORE_SYNC_CONTEXT"),
         NEW r \in Reasons \ {"NONE"}, NEW wake \in Wakes,
         HandlerRedirects(r, wake),
         UNCHANGED <<pstate, sp0, sp, kctx, cut>>
  PROVE  Machine'
<1> DEFINE f == [Top EXCEPT !.elr = <<"user_task_return_to_kernel">>,
                            !.spsr = SPSR_EL1H_MASKED, !.x0 = 0]
           u == [uctx EXCEPT ![current] = Top]
<1>1. /\ thread_user_trap_redirect(r, InSandbox(Top.elr), wake)
      /\ x0' = [s \in Slots |-> IF s \in DOMAIN wake THEN wake[s]
                                ELSE [x0 EXCEPT ![current] = ARG][s]]
      /\ uctx' = Woken(u, wake) /\ OnTop(f)
      /\ UNCHANGED <<current, bootstrap, want>> /\ phase' = "trapped"
  BY DEF HandlerRedirects, thread_user_trap_redirect, thread_user_wake_with_x0
<1>2. panic' = IF InSandbox(Top.elr) THEN "none" ELSE ElrPanic
  <2>1. InSandbox(Top.elr) \in BOOLEAN
    BY DEF InSandbox
  <2> QED BY <1>1, <2>1, RedirectSafe DEF CpuInv
<1>3. f.elr = <<"user_task_return_to_kernel">> /\ f.spsr = SPSR_EL1H_MASKED
  <2>1. Top = CtxOf(current, want[current], ARG)
    BY Handled
  <2> QED BY <2>1 DEF CtxOf
<1>4. u[current] = Top /\ \A t \in UserSlots \ {current} : u[t] = uctx[t]
  BY Handled DEF CpuTypeOK
<1> HIDE DEF f, u
<1>5. OneFrame' /\ Top' = f
  BY <1>1, Handled, FrameEdited
<1>6. CpuTypeOK'
  BY <1>1, <1>5, Handled DEF CpuTypeOK, Woken
<1>7. ASSUME panic' = "none"
      PROVE  Control' /\ Contexts'
  <2>1. Top = CtxOf(current, want[current], ARG) /\ want[current] \in 0 .. POINTS
    BY <1>2, <1>7, Handled DEF ElrPanic
  <2>2. \A s \in DOMAIN wake : s \in UserSlots /\ ustate[s] = "BLOCKED"
    BY WakesLemma
  <2>3. x0'[current] = ARG /\ current \notin DOMAIN wake
    BY <1>1, <2>2, Handled DEF CpuInv, ThreadTypeOK
  <2>5. Saved(current)'
    <3>1. uctx'[current] = CtxOf(current, want[current], ARG)
      BY <1>1, <1>4, <2>1, <2>3, WokenSaved, Handled
    <3> QED BY <1>1, <2>1, <2>3, <3>1 DEF Saved
  <2>6. \A t \in UserSlots \ {current} :
          x0'[t] = IF t \in DOMAIN wake THEN wake[t] ELSE x0[t]
    BY <1>1, Handled DEF CpuInv, ThreadTypeOK, UserSlots
  <2>7. \A t \in UserSlots \ {current} : Saved(t)'
    BY <1>1, <1>4, <2>6, WokenSaved, Handled DEF Contexts, Saved
  <2>8. Contexts'
    BY <1>1, <2>7, Handled DEF Contexts, KernelCtx
  <2>9. AtRedirect'
    <3>1. pc' = <<"RESTORE_SYNC_CONTEXT">>
      BY DEF Go
    <3>2. Saved(current)' /\ sp' = current'
      BY <1>1, <2>5, Handled
    <3> QED BY <1>1, <1>3, <1>5, <2>5, <3>1, <3>2, Handled DEF AtRedirect
  <2> QED BY <2>8, <2>9 DEF Control
<1> QED BY <1>6, <1>7 DEF Machine

(* The handler, whatever it decides.                                       *)
LEMMA HandlerStep ==
  ASSUME CpuInv, exception_sync_el0
  PROVE  Machine'
<1>1. /\ AtPc("exception_sync_el0") /\ Go("RESTORE_SYNC_CONTEXT")
      /\ UNCHANGED <<pstate, sp0, sp, kctx, cut>>
  BY DEF exception_sync_el0
<1>2. NoWake \in Wakes
  <2>1. NoWake \in [{} -> RetVals]
    BY DEF NoWake
  <2> QED BY <2>1 DEF Wakes
<1>3. "FAULT" \in Reasons \ {"NONE"}
  BY DEF Reasons
<1>4. \/ \E ret \in RetVals, wake \in Wakes : HandlerReturns(ret, wake)
      \/ \E t \in UserSlots : HandlerRestarts(t)
      \/ \E r \in Reasons \ {"NONE"}, wake \in Wakes : HandlerRedirects(r, wake)
  BY <1>2, <1>3 DEF exception_sync_el0
<1> QED BY <1>1, <1>4, ReturnsStep, RestartsStep, RedirectsStep

(* The kernel's situation is the same when nothing it is made of changes.  *)
LEMMA KernellySame ==
  ASSUME UNCHANGED <<phase, sp, current, bootstrap, uctx, want, x0>>,
         NEW q, NEW v
  PROVE  Kernelly(q, v)' = Kernelly(q, v)
BY ContextsSame DEF Kernelly, Saved, CtxOf

(* An interrupt is taken only in the kernel, and carries its situation.    *)
LEMMA TakeIrqStep ==
  ASSUME CpuInv, take_irq
  PROVE  Machine'
<1>1. /\ panic = "none" /\ ~pstate.masked
      /\ elr' = pc /\ spsr' = pstate /\ pstate' = SPSR_EL1H_MASKED
      /\ pc' = <<"irq_vector">>
      /\ cut' = <<<<pc, pstate, regs, rx0, sp>>>> \o cut
      /\ UNCHANGED <<threadVars, sp0, sp, regs, rx0, memory, want>>
  BY DEF take_irq, Go
<1>2. Control /\ Contexts /\ CpuTypeOK
  BY <1>1 DEF CpuInv
<1>3. pstate = EL1H_OPEN
  BY <1>1, <1>2, Where DEF SPSR_EL0T_MASKED, SPSR_EL1H_MASKED
<1>4. PICK q \in OpenPoints, v \in Stacks : AtOpen(q, v)
  BY <1>2, <1>3, Where DEF InKernel
<1>5. AtIrq(q, v)'
  <2>1. Kernelly(q, v)' /\ NoFrames'
    BY <1>1, <1>4, KernellySame, FramesSame DEF threadVars, memory, AtOpen
  <2>2. cut' = <<<< <<q>>, EL1H_OPEN, Kernel(sp), v, sp>>>>
    BY <1>1, <1>4, OneElement DEF AtOpen
  <2> QED BY <1>1, <1>3, <1>4, <2>1, <2>2 DEF AtIrq, AtOpen
<1>6. Interrupted'
  BY <1>5 DEF Interrupted
<1>7. Contexts'
  BY <1>1, <1>2, ContextsSame DEF threadVars, memory
<1>8. CpuTypeOK'
  BY <1>1, <1>2, TypeSame, FramesSame DEF memory, CpuTypeOK
<1> QED BY <1>6, <1>7, <1>8 DEF Machine, Control

(* Its frame is pushed on the stack of the thread that runs.               *)
LEMMA SaveIrqStep ==
  ASSUME CpuInv, SAVE_CONTEXT("irq_vector", "exception_irq")
  PROVE  Machine'
<1> DEFINE f == [elr |-> elr, spsr |-> spsr, regs |-> regs, x0 |-> rx0,
                 sp |-> IF spsr.el = 0 THEN sp0 ELSE Kernel(sp)]
<1>1. /\ panic = "none" /\ pc = <<"irq_vector">> /\ pc[1] = "irq_vector"
      /\ pc' = <<"exception_irq">>
      /\ frames' = [frames EXCEPT ![sp] = <<f>> \o @]
      /\ UNCHANGED <<threadVars, pstate, elr, spsr, sp, kctx, uctx, want, cut>>
  BY DEF SAVE_CONTEXT, AtPc, Go
<1>2. Control /\ Contexts /\ CpuTypeOK
  BY <1>1 DEF CpuInv
<1>3. PICK q \in OpenPoints, v \in Stacks : AtIrq(q, v)
  BY <1>1, <1>2, Where DEF Interrupted
<1>4. /\ NoFrames /\ elr = <<q>> /\ spsr = EL1H_OPEN
      /\ regs = Kernel(sp) /\ rx0 = v
  BY <1>1, <1>3 DEF AtIrq
<1>5. f = IrqFrame(q, v)
  <2>1. spsr.el # 0
    BY <1>4 DEF EL1H_OPEN
  <2> QED BY <1>4, <2>1 DEF IrqFrame
<1> HIDE DEF f
<1>6. OneFrame' /\ Top' = f
  BY <1>1, <1>2, <1>4, FramePushed DEF CpuTypeOK
<1>7. AtIrq(q, v)'
  <2>1. Kernelly(q, v)'
    BY <1>1, <1>3, KernellySame DEF threadVars, AtIrq
  <2>2. IrqFrame(q, v)' = IrqFrame(q, v)
    BY <1>1 DEF IrqFrame
  <2> QED BY <1>1, <1>3, <1>5, <1>6, <2>1, <2>2 DEF AtIrq
<1>8. Contexts' /\ CpuTypeOK' /\ Interrupted'
  BY <1>1, <1>2, <1>3, <1>6, <1>7, ContextsSame, TypeSame DEF threadVars, Interrupted
<1> QED BY <1>8 DEF Machine, Control

(* The handler charges the tick, and touches neither frame nor contexts.   *)
LEMMA IrqHandlerStep ==
  ASSUME CpuInv, exception_irq
  PROVE  Machine'
<1>1. /\ panic = "none" /\ pc = <<"exception_irq">> /\ pc[1] = "exception_irq"
      /\ pc' = <<"RESTORE_CONTEXT">>
      /\ UNCHANGED <<phase, current, bootstrap, x0, panic>>
      /\ UNCHANGED <<pstate, elr, spsr, sp, memory, want, cut>>
  BY DEF exception_irq, AtPc, Go, ChargeTick, threadVars
<1>2. Control /\ Contexts /\ CpuTypeOK
  BY <1>1 DEF CpuInv
<1>3. PICK q \in OpenPoints, v \in Stacks : AtIrq(q, v)
  BY <1>1, <1>2, Where DEF Interrupted
<1>4. OneFrame /\ Top = IrqFrame(q, v)
  BY <1>1, <1>3 DEF AtIrq
<1>5. OneFrame' /\ Top' = Top
  BY <1>1, <1>4, FramesSame DEF memory
<1>6. AtIrq(q, v)'
  <2>1. Kernelly(q, v)'
    BY <1>1, <1>3, KernellySame DEF memory, AtIrq
  <2>2. IrqFrame(q, v)' = IrqFrame(q, v)
    BY <1>1 DEF IrqFrame
  <2> QED BY <1>1, <1>3, <1>4, <1>5, <2>1, <2>2 DEF AtIrq
<1>7. Contexts' /\ CpuTypeOK' /\ Interrupted'
  BY <1>1, <1>2, <1>3, <1>5, <1>6, ContextsSame, TypeSame DEF memory, Interrupted
<1> QED BY <1>7 DEF Machine, Control

-----------------------------------------------------------------------------
(* Out of an exception                                                     *)

(* ELR and SPSR are taken from the frame on the synchronous paths.         *)
LEMMA RestoreSyncStep ==
  ASSUME CpuInv, RESTORE_SYNC_CONTEXT
  PROVE  Machine'
<1>1. /\ panic = "none" /\ pc = <<"RESTORE_SYNC_CONTEXT">>
      /\ pc[1] = "RESTORE_SYNC_CONTEXT"
      /\ pc' = <<"RESTORE_CONTEXT">> /\ elr' = Top.elr /\ spsr' = Top.spsr
      /\ UNCHANGED <<threadVars, pstate, sp0, sp, memory, want, cut>>
  BY DEF RESTORE_SYNC_CONTEXT, AtPc, Go
<1>2. Control /\ Contexts /\ CpuTypeOK
  BY <1>1 DEF CpuInv
<1>3. /\ UNCHANGED <<uctx, kctx, want, sp, current, x0, bootstrap, phase>>
      /\ UNCHANGED <<pstate, sp0, cut, frames>>
  BY <1>1 DEF threadVars, memory
<1>4. Contexts' /\ CpuTypeOK' /\ Here' = Here /\ Saved(current)' = Saved(current)
  BY <1>2, <1>3, ContextsSame, TypeSame, FramesSame DEF CpuTypeOK
<1>5. OneFrame /\ OneFrame' /\ Top' = Top
  BY <1>1, <1>2, <1>3, Where, FramesSame DEF AtReturn, AtRedirect
<1>6. CASE AtReturn
  <2>1. /\ phase = "el0" /\ sp = current /\ cut = <<>>
        /\ pstate = SPSR_EL1H_MASKED /\ sp0 = Here
        /\ Top = CtxOf(current, want[current], x0[current])
    BY <1>1, <1>6 DEF AtReturn
  <2>2. Top.elr = Here /\ Top.spsr = SPSR_EL0T_MASKED
    BY <2>1 DEF CtxOf, Here
  <2>3. CtxOf(current, want[current], x0[current])' = Top
    BY <1>3, <2>1 DEF CtxOf
  <2>4. AtReturn'
    BY <1>1, <1>3, <1>4, <1>5, <2>1, <2>2, <2>3 DEF AtReturn, TaskLeft
  <2> QED BY <1>4, <2>4 DEF Machine, Control
<1>7. CASE AtRedirect
  <2>1. /\ phase = "trapped" /\ sp = current /\ cut = <<>>
        /\ pstate = SPSR_EL1H_MASKED /\ Saved(current)
        /\ Top.elr = <<"user_task_return_to_kernel">>
        /\ Top.spsr = SPSR_EL1H_MASKED
    BY <1>1, <1>7 DEF AtRedirect
  <2>2. AtRedirect'
    BY <1>1, <1>3, <1>4, <1>5, <2>1 DEF AtRedirect, ToKernel
  <2> QED BY <1>4, <2>2 DEF Machine, Control
<1> QED BY <1>1, <1>2, <1>6, <1>7, Where

(* The registers are taken from the frame, and the frame is gone.          *)
LEMMA RestoreStep ==
  ASSUME CpuInv, RESTORE_CONTEXT
  PROVE  Machine'
<1>1. /\ panic = "none" /\ pc = <<"RESTORE_CONTEXT">> /\ pc[1] = "RESTORE_CONTEXT"
      /\ pc' = <<"eret">> /\ regs' = Top.regs /\ rx0' = Top.x0
      /\ frames' = [frames EXCEPT ![sp] = Tail(@)]
      /\ UNCHANGED <<threadVars, pstate, elr, spsr, sp0, sp, kctx, uctx, want, cut>>
  BY DEF RESTORE_CONTEXT, AtPc, Go
<1>2. Control /\ Contexts /\ CpuTypeOK
  BY <1>1 DEF CpuInv
<1>3. /\ UNCHANGED <<uctx, kctx, want, sp, current, x0, bootstrap, phase>>
      /\ UNCHANGED <<pstate, sp0, elr, spsr, cut>>
  BY <1>1 DEF threadVars
<1>4. NoFrames'
  <2>1. OneFrame
    BY <1>1, <1>2, Where DEF AtReturn, AtRedirect, Interrupted, AtIrq
  <2> QED BY <1>1, <1>2, <2>1, FramePopped DEF CpuTypeOK
<1>5. Contexts' /\ CpuTypeOK' /\ Here' = Here /\ Saved(current)' = Saved(current)
  BY <1>2, <1>3, <1>4, ContextsSame, TypeSame
<1>6. CASE AtReturn
  <2>1. /\ phase = "el0" /\ sp = current /\ cut = <<>>
        /\ pstate = SPSR_EL1H_MASKED /\ sp0 = Here /\ TaskLeft
        /\ Top = CtxOf(current, want[current], x0[current])
    BY <1>1, <1>6 DEF AtReturn
  <2>2. Top.regs = Here /\ Top.x0 = x0[current]
    BY <2>1 DEF CtxOf, Here
  <2>3. TaskLeft'
    BY <1>3, <1>5, <2>1 DEF TaskLeft
  <2>4. AtReturn'
    BY <1>1, <1>3, <1>4, <1>5, <2>1, <2>2, <2>3 DEF AtReturn
  <2> QED BY <1>5, <2>4 DEF Machine, Control
<1>7. CASE AtRedirect
  <2>1. /\ phase = "trapped" /\ sp = current /\ cut = <<>>
        /\ pstate = SPSR_EL1H_MASKED /\ Saved(current) /\ ToKernel
    BY <1>1, <1>7 DEF AtRedirect
  <2>2. ToKernel'
    BY <1>3, <2>1 DEF ToKernel
  <2>3. AtRedirect'
    BY <1>1, <1>3, <1>4, <1>5, <2>1, <2>2 DEF AtRedirect
  <2> QED BY <1>5, <2>3 DEF Machine, Control
<1>8. CASE Interrupted
  <2>1. PICK q \in OpenPoints, v \in Stacks : AtIrq(q, v)
    BY <1>8 DEF Interrupted
  <2>2. Top = IrqFrame(q, v)
    BY <1>1, <2>1 DEF AtIrq
  <2>3. Top.regs = Kernel(sp) /\ Top.x0 = v
    BY <2>2 DEF IrqFrame
  <2>4. Kernelly(q, v)'
    BY <1>3, <2>1, KernellySame DEF AtIrq
  <2>5. AtIrq(q, v)'
    BY <1>1, <1>3, <1>4, <2>1, <2>3, <2>4 DEF AtIrq
  <2>6. Interrupted'
    BY <2>5 DEF Interrupted
  <2> QED BY <1>5, <2>6 DEF Machine, Control
<1> QED BY <1>1, <1>2, <1>6, <1>7, <1>8, Where

(* The return: to the task, to its continuation, or to what an interrupt   *)
(* has left.                                                               *)
LEMMA EretStep ==
  ASSUME CpuInv, eret
  PROVE  Machine'
<1>1. /\ panic = "none" /\ pc = <<"eret">> /\ pc[1] = "eret"
      /\ pc' = elr /\ pstate' = spsr
      /\ cut' = IF cut = <<>> THEN <<>> ELSE Tail(cut)
      /\ UNCHANGED <<threadVars, elr, spsr, sp0, sp, regs, rx0, memory, want>>
  BY DEF eret, AtPc
<1>2. Control /\ Contexts /\ CpuTypeOK
  BY <1>1 DEF CpuInv
<1>3. /\ UNCHANGED <<uctx, kctx, want, sp, current, x0, bootstrap, phase>>
      /\ UNCHANGED <<sp0, elr, spsr, regs, rx0, frames>>
  BY <1>1 DEF threadVars, memory
<1>4. NoFrames /\ NoFrames'
  <2>1. NoFrames
    BY <1>1, <1>2, Where DEF AtReturn, AtRedirect, Interrupted, AtIrq
  <2> QED BY <1>3, <2>1, FramesSame
<1>5. Contexts' /\ CpuTypeOK' /\ Here' = Here /\ Saved(current)' = Saved(current)
  BY <1>2, <1>3, <1>4, ContextsSame, TypeSame
<1>6. CASE AtReturn
  <2>1. /\ phase = "el0" /\ sp = current /\ cut = <<>>
        /\ sp0 = Here /\ TaskLeft /\ regs = Here /\ rx0 = x0[current]
    BY <1>1, <1>6 DEF AtReturn
  <2>2. AtTask'
    BY <1>1, <1>3, <1>4, <1>5, <2>1 DEF AtTask, TaskLeft
  <2> QED BY <1>5, <2>2 DEF Machine, Control
<1>7. CASE AtRedirect
  <2>1. /\ phase = "trapped" /\ sp = current /\ cut = <<>>
        /\ Saved(current) /\ ToKernel
    BY <1>1, <1>7 DEF AtRedirect
  <2>2. AtRedirect'
    BY <1>1, <1>3, <1>4, <1>5, <2>1 DEF AtRedirect, ToKernel
  <2> QED BY <1>5, <2>2 DEF Machine, Control
<1>8. CASE Interrupted
  <2>1. PICK q \in OpenPoints, v \in Stacks : AtIrq(q, v)
    BY <1>8 DEF Interrupted
  <2>2. cut' = <<>>
    BY <1>1, <2>1, OneElement DEF AtIrq
  <2>3. Kernelly(q, v)'
    BY <1>3, <2>1, KernellySame DEF AtIrq
  <2>4. AtOpen(q, v)'
    BY <1>1, <1>3, <1>4, <2>1, <2>2, <2>3 DEF AtIrq, AtOpen
  <2>5. InKernel'
    BY <2>4 DEF InKernel
  <2> QED BY <1>5, <2>5 DEF Machine, Control
<1> QED BY <1>1, <1>2, <1>6, <1>7, <1>8, Where

-----------------------------------------------------------------------------
(* The kernel with IRQs open                                               *)

(* A step of the kernel from label to label.                               *)
LEMMA KernelGoes ==
  ASSUME NEW q, NEW v, AtOpen(q, v), CpuTypeOK,
         NEW p \in OpenPoints, NEW w \in Stacks, pc' = <<p>>, rx0' = w,
         UNCHANGED <<pstate, cut, frames, uctx, want>>,
         sp' \in Stacks, regs' = Kernel(sp'), kctx' = [t \in Stacks |-> kctx'[t]],
         Kernelly(p, w)', Contexts'
  PROVE  Machine'
<1>1. NoFrames'
  BY FramesSame DEF AtOpen
<1>2. CpuTypeOK'
  BY <1>1 DEF CpuTypeOK
<1>3. AtOpen(p, w)'
  BY <1>1 DEF AtOpen
<1> QED BY <1>2, <1>3 DEF Machine, Control, InKernel

(* The trampoline up to the rescheduling point: the wake-ups a death makes *)
(* reach the saved contexts, the task's own among them.                    *)
LEMMA ReturnToKernelStep ==
  ASSUME CpuInv, NEW wake \in Wakes, ReturnToKernel(wake)
  PROVE  Machine'
<1> DEFINE w == IF reason[current] \in Deaths THEN wake ELSE NoWake
<1>1. /\ panic = "none" /\ pc = <<"user_task_return_to_kernel">>
      /\ pc[1] = "user_task_return_to_kernel" /\ pc' = <<"pick">>
      /\ x0' = [s \in Slots |-> IF s \in DOMAIN w THEN w[s] ELSE x0[s]]
      /\ uctx' = Woken(uctx, w) /\ phase' = "pick"
      /\ pstate' = EL1H_OPEN /\ regs' = Kernel(sp) /\ rx0' = 0
      /\ UNCHANGED <<current, bootstrap, sp, frames, kctx, want, cut>>
  BY DEF ReturnToKernel, AtPc, Go, user_task_return_step, thread_user_wake_with_x0
<1> HIDE DEF w
<1>2. Contexts /\ CpuTypeOK /\ AtRedirect
  BY <1>1, Where DEF CpuInv
<1>3. /\ sp = current /\ cut = <<>> /\ NoFrames /\ Saved(current)
      /\ phase \in InTask
  BY <1>1, <1>2 DEF AtRedirect, InTask
<1>4. \A t \in UserSlots : Saved(t)'
  <2>1. ASSUME NEW t \in UserSlots
        PROVE  Saved(t)'
    <3>1. /\ uctx[t] = CtxOf(t, want[t], x0[t]) /\ t \in Slots
          /\ want[t] \in 0 .. POINTS
      BY <1>2, <1>3 DEF Contexts, Saved, UserSlots
    <3>2. x0'[t] = IF t \in DOMAIN w THEN w[t] ELSE x0[t]
      BY <1>1, <3>1
    <3> QED BY <1>1, <3>1, <3>2, WokenSaved DEF Saved
  <2> QED BY <2>1
<1>5. Contexts'
  BY <1>1, <1>2, <1>3, <1>4 DEF Contexts, KernelCtx
<1>6. NoFrames'
  BY <1>1, <1>3, FramesSame
<1>7. CpuTypeOK'
  BY <1>1, <1>2, <1>6 DEF CpuTypeOK, Woken
<1>8. AtOpen("pick", 0)'
  <2>1. Kernelly("pick", 0)'
    BY <1>1, <1>3, <1>4, Phase DEF Kernelly
  <2> QED BY <1>1, <1>3, <1>6, <2>1 DEF AtOpen
<1>9. 0 \in Stacks
  BY ThreadAssumption DEF Stacks, Slots
<1> QED BY <1>5, <1>7, <1>8, <1>9 DEF Machine, Control, InKernel, OpenPoints

(* Choosing the next thread, and the idle loop's way there.                *)
LEMMA PickStep ==
  ASSUME CpuInv, Pick \/ IdleConsumes
  PROVE  Machine'
<1>1. PICK q \in {"pick", "idle"}, p \in {"pick", "switch"} :
        /\ AtPc(q) /\ pc' = <<p>> /\ phase' = p
        /\ UNCHANGED <<pstate, sp, regs, rx0, memory, want, cut>>
        /\ UNCHANGED <<current, x0, bootstrap>>
  <2>1. CASE Pick
    BY <2>1 DEF Pick, Runs, Go, thread_resched_point_pick
  <2>2. CASE IdleConsumes
    BY <2>2 DEF IdleConsumes, Runs, Go, thread_resched_point_idle
  <2> QED BY <2>1, <2>2
<1>2. AtOpen(q, rx0) /\ rx0 \in Stacks /\ Contexts /\ CpuTypeOK
  BY <1>1, Opened DEF OpenPoints, CpuInv
<1>3. Kernelly(p, rx0)'
  <2>1. sp = current /\ \A t \in UserSlots : t = current => Saved(t)
    BY <1>1, <1>2 DEF AtOpen, Kernelly
  <2>2. p \in {"pick", "switch"} /\ PhaseAt(p) = p
    BY <1>1, Phase
  <2>3. \A t \in UserSlots : Saved(t)' = Saved(t)
    BY <1>1, ContextsSame DEF memory
  <2> QED BY <1>1, <2>1, <2>2, <2>3 DEF Kernelly
<1>4. Contexts'
  BY <1>1, <1>2, ContextsSame DEF memory
<1>5. p \in OpenPoints /\ regs' = Kernel(sp')
  BY <1>1, <1>2 DEF OpenPoints, AtOpen
<1> QED BY <1>1, <1>2, <1>3, <1>4, <1>5, KernelGoes DEF memory, CpuTypeOK

(* thread_switch_to's bookkeeping: from here on current and the stack are  *)
(* of two threads, and both threads' contexts are saved.                   *)
LEMMA SwitchToStep ==
  ASSUME CpuInv, SwitchTo
  PROVE  Machine'
<1>1. PICK p, c :
      /\ p = (IF next = current THEN "landed" ELSE "context_switch") /\ c = current
      /\ AtPc("switch") /\ pc' = <<p>> /\ rx0' = c /\ phase' = "landed"
      /\ current' = next
      /\ UNCHANGED <<pstate, sp, regs, memory, want, cut, x0, bootstrap>>
  BY DEF SwitchTo, Go, thread_switch_to
<1>2. /\ AtOpen("switch", rx0) /\ Contexts /\ CpuTypeOK /\ phase = "switch"
      /\ current \in Stacks
  BY <1>1, Opened, Phase DEF OpenPoints, CpuInv, ThreadTypeOK, Stacks
<1>3. sp = current /\ \A t \in UserSlots : Saved(t)
  BY <1>2 DEF AtOpen, Kernelly, Contexts
<1>4. current \notin bootstrap
  BY <1>2, ThreadAssumption
     DEF CpuInv, Bootstrapped, ThreadTypeOK, Slots, NONE
<1>5. \A t \in UserSlots : Saved(t)'
  BY <1>1, <1>3, SavedSame DEF memory
<1>6. Kernelly(p, c)'
  <2>1. CASE next = current
    BY <1>1, <1>3, <1>5, <2>1, Phase DEF Kernelly
  <2>2. CASE next # current
    BY <1>1, <1>3, <1>4, <1>5, <2>2, Phase DEF Kernelly
  <2> QED BY <2>1, <2>2
<1>7. Contexts'
  BY <1>1, <1>2, <1>5 DEF Contexts, KernelCtx, memory
<1>8. p \in OpenPoints /\ regs' = Kernel(sp')
  BY <1>1, <1>2 DEF OpenPoints, AtOpen
<1>9. UNCHANGED <<uctx, kctx, frames>>
  BY <1>1 DEF memory
<1> QED BY <1>1, <1>2, <1>6, <1>7, <1>8, <1>9, KernelGoes DEF CpuTypeOK

(* The switch itself: the old thread's context is that of a thread that    *)
(* has landed, and the new thread's stack and registers are its own.       *)
LEMMA ContextSwitchStep ==
  ASSUME CpuInv, context_switch
  PROVE  Machine'
<1>1. /\ AtPc("context_switch") /\ panic = "none"
      /\ kctx' = [kctx EXCEPT ![rx0] = [lr |-> <<"landed">>, sp |-> sp,
                                        regs |-> regs]]
      /\ pc' = kctx[current].lr
      /\ sp' = kctx[current].sp /\ regs' = kctx[current].regs
      /\ UNCHANGED <<threadVars, pstate, rx0, frames, uctx, want, cut>>
  BY DEF context_switch, AtPc
<1>2. /\ AtOpen("context_switch", rx0) /\ rx0 \in Stacks /\ Contexts /\ CpuTypeOK
      /\ phase = "landed"
  BY <1>1, Opened, Phase DEF OpenPoints, CpuInv
<1>3. /\ rx0 = sp /\ sp # current /\ sp \notin bootstrap /\ regs = Kernel(sp)
      /\ \A t \in UserSlots : t = current => Saved(t)
  BY <1>2 DEF AtOpen, Kernelly
<1>4. current \in Slots /\ current \in Stacks
  BY <1>1, <1>2 DEF CpuInv, SchedulerInv, Stacks
<1>5. UNCHANGED <<phase, current, x0, bootstrap, uctx, want>>
  BY <1>1 DEF threadVars
<1>6. kctx[current] = KernelCtx(current)
  BY <1>2, <1>3, <1>4 DEF Contexts
<1>7. sp' = current /\ regs' = Kernel(current)
  BY <1>1, <1>6 DEF KernelCtx
<1>8. PICK p \in {"thread_bootstrap", "landed"} : pc' = <<p>>
  BY <1>1, <1>6 DEF KernelCtx
<1>9. \A t : Saved(t)' = Saved(t)
  BY <1>5, SavedSame
<1>10. Contexts'
  <2>1. ASSUME NEW t \in Slots \ {current}
        PROVE  kctx'[t] = KernelCtx(t)
    <3>1. CASE t = sp
      <4>1. kctx'[sp] = [lr |-> <<"landed">>, sp |-> sp, regs |-> Kernel(sp)]
        BY <1>1, <1>2, <1>3 DEF CpuTypeOK
      <4> QED BY <1>3, <3>1, <4>1 DEF KernelCtx
    <3>2. CASE t # sp
      <4>1. kctx'[t] = kctx[t]
        BY <1>1, <1>2, <1>3, <3>2 DEF CpuTypeOK, Stacks
      <4> QED BY <1>2, <3>2, <4>1 DEF Contexts
    <3> QED BY <3>1, <3>2
  <2>2. \A t \in Slots \ {current} : KernelCtx(t)' = KernelCtx(t)
    BY <1>5 DEF KernelCtx
  <2> QED BY <1>2, <1>5, <1>7, <1>9, <2>1, <2>2 DEF Contexts
<1>11. PICK w \in Stacks : w = rx0
  BY <1>2
<1>12. Kernelly(p, w)'
  BY <1>2, <1>3, <1>5, <1>7, <1>8, <1>9, Phase DEF Kernelly
<1>13. kctx' = [t \in Stacks |-> kctx'[t]] /\ p \in OpenPoints /\ rx0' = w
  BY <1>1, <1>2, <1>8, <1>11 DEF CpuTypeOK, OpenPoints
<1> QED BY <1>1, <1>2, <1>4, <1>5, <1>7, <1>8, <1>10, <1>12, <1>13, KernelGoes

(* A thread lands, at first or again, on its way to EL0 or to its wfi.     *)
LEMMA LandStep ==
  ASSUME CpuInv, thread_bootstrap \/ Landed
  PROVE  Machine'
<1>1. PICK q \in {"thread_bootstrap", "landed"},
           p \in {"el0_resume", "thread_current_user_ctx", "idle"} :
        /\ AtPc(q) /\ pc' = <<p>> /\ phase' = PhaseAt(p)
        /\ rx0' = IF p = "el0_resume" THEN current ELSE rx0
        /\ bootstrap' \in {bootstrap, bootstrap \ {current}}
        /\ UNCHANGED <<pstate, sp, regs, memory, want, cut, current, x0>>
  <2>1. CASE thread_bootstrap
    BY <2>1, Phase DEF thread_bootstrap, Go, thread_enter_el0, thread_entry_idle
  <2>2. CASE Landed
    BY <2>2, Phase DEF Landed, Runs, Go, user_task_resume, thread_entry_idle
  <2> QED BY <2>1, <2>2
<1>2. AtOpen(q, rx0) /\ rx0 \in Stacks /\ Contexts /\ CpuTypeOK
  BY <1>1, Opened DEF OpenPoints, CpuInv
<1>3. sp = current /\ \A t \in UserSlots : Saved(t)
  BY <1>1, <1>2 DEF AtOpen, Kernelly, Contexts
<1>4. PICK w \in Stacks : w = (IF p = "el0_resume" THEN current ELSE rx0) /\ rx0' = w
  BY <1>1, <1>2 DEF CpuInv, ThreadTypeOK, Stacks
<1>5. \A t \in UserSlots : Saved(t)'
  BY <1>1, <1>3, SavedSame DEF memory
<1>6. Kernelly(p, w)'
  BY <1>1, <1>3, <1>4, <1>5 DEF Kernelly
<1>7. Contexts'
  BY <1>1, <1>2, <1>3, <1>5 DEF Contexts, KernelCtx, memory
<1>8. p \in OpenPoints /\ regs' = Kernel(sp')
  BY <1>1, <1>2 DEF OpenPoints, AtOpen
<1>9. UNCHANGED <<uctx, kctx, frames>>
  BY <1>1 DEF memory
<1> QED BY <1>1, <1>2, <1>4, <1>6, <1>7, <1>8, <1>9, KernelGoes DEF CpuTypeOK

(* The resumed task's context is found.                                    *)
LEMMA CurrentCtxStep ==
  ASSUME CpuInv, thread_current_user_ctx
  PROVE  Machine'
<1>1. /\ AtPc("thread_current_user_ctx") /\ pc' = <<"el0_resume">>
      /\ rx0' = currentTask
      /\ UNCHANGED <<pstate, sp, regs, memory, want, cut>>
      /\ UNCHANGED <<current, x0, bootstrap, phase>>
  BY DEF thread_current_user_ctx, Go
<1>2. /\ AtOpen("thread_current_user_ctx", rx0) /\ Contexts /\ CpuTypeOK
      /\ phase = "resume"
  BY <1>1, Opened, Phase DEF OpenPoints, CpuInv
<1>3. /\ sp = current /\ Saved(current)
      /\ currentTask = current /\ current \in UserSlots
  BY <1>1, <1>2, ResumesInside DEF AtOpen, Kernelly
<1>4. PICK w \in Stacks : w = current
  BY <1>3 DEF Stacks, UserSlots
<1>5. \A t : Saved(t)' = Saved(t)
  BY <1>1, SavedSame DEF memory
<1>6. Kernelly("el0_resume", w)'
  BY <1>1, <1>2, <1>3, <1>4, <1>5, Phase DEF Kernelly
<1>7. Contexts'
  BY <1>1, <1>2, ContextsSame DEF memory
<1>8. "el0_resume" \in OpenPoints /\ regs' = Kernel(sp') /\ rx0' = w
  BY <1>1, <1>2, <1>3, <1>4 DEF OpenPoints, AtOpen
<1>9. UNCHANGED <<uctx, kctx, frames>>
  BY <1>1 DEF memory
<1> QED BY <1>1, <1>2, <1>6, <1>7, <1>8, <1>9, KernelGoes DEF CpuTypeOK

-----------------------------------------------------------------------------
(* el0_resume                                                              *)

(* With IRQs masked nothing comes between the loads and the eret.          *)
LEMMA ResumeMasksStep ==
  ASSUME CpuInv, ResumeMasks
  PROVE  Machine'
<1>1. /\ AtPc("el0_resume") /\ phase' = "el0" /\ pc' = <<"load_sp_el0">>
      /\ pstate' = SPSR_EL1H_MASKED
      /\ UNCHANGED <<sp, rx0, memory, want, cut, current, x0, bootstrap>>
  BY DEF ResumeMasks, Go, el0_resume
<1>2. /\ AtOpen("el0_resume", rx0) /\ Contexts /\ CpuTypeOK /\ phase = "resume"
      /\ panic = "none"
  BY <1>1, Opened, Phase DEF OpenPoints, CpuInv, AtPc
<1>3. /\ sp = current /\ rx0 = current /\ cut = <<>> /\ NoFrames
      /\ \A t \in UserSlots : t = current => Saved(t)
  BY <1>2 DEF AtOpen, Kernelly
<1>4. current \in UserSlots
  BY <1>2, CurrentIsTask DEF InTask
<1>5. NoFrames' /\ Contexts' /\ Saved(current)'
  BY <1>1, <1>2, <1>3, <1>4, FramesSame, ContextsSame DEF memory
<1>6. AtLoad'
  <2>1. Saved(current)'
    BY <1>5
  <2> QED BY <1>1, <1>3, <1>5, <2>1 DEF AtLoad
<1>7. CpuTypeOK'
  BY <1>1, <1>2, <1>5, TypeSame DEF memory
<1> QED BY <1>5, <1>6, <1>7 DEF Machine, Control

(* The loads take SP_EL0, ELR, SPSR and the registers of one context.      *)
LEMMA LoadStep ==
  ASSUME CpuInv, ResumeSp \/ ResumeElr \/ ResumeSpsr \/ ResumeRegisters
  PROVE  Machine'
<1>1. /\ UNCHANGED <<uctx, kctx, want, sp, current, x0, bootstrap, phase>>
      /\ UNCHANGED <<frames, pstate, cut>> /\ panic = "none"
      /\ pc[1] \in {"load_sp_el0", "load_elr", "load_spsr", "load_registers"}
  BY DEF ResumeSp, ResumeElr, ResumeSpsr, ResumeRegisters, AtPc, threadVars, memory
<1>2. Contexts /\ CpuTypeOK /\ AtLoad
  BY <1>1, Where DEF CpuInv
<1>3. /\ phase = "el0" /\ sp = current /\ cut = <<>> /\ NoFrames
      /\ pstate = SPSR_EL1H_MASKED /\ Saved(current) /\ rx0 = current
  BY <1>2 DEF AtLoad
<1>4. NoFrames' /\ Contexts' /\ CpuTypeOK' /\ Saved(current)' = Saved(current)
      /\ Here' = Here
  BY <1>1, <1>2, <1>3, FramesSame, ContextsSame, TypeSame
<1>5. /\ uctx[current].sp = Here /\ uctx[current].elr = Here
      /\ uctx[current].spsr = SPSR_EL0T_MASKED
      /\ uctx[current].regs = Here /\ uctx[current].x0 = x0[current]
  BY <1>3 DEF Saved, CtxOf, Here
<1>6. CASE ResumeSp
  <2>1. pc' = <<"load_elr">> /\ sp0' = uctx[rx0].sp /\ rx0' = rx0
    BY <1>6 DEF ResumeSp, Go
  <2>2. AtLoad'
    BY <1>1, <1>3, <1>4, <1>5, <2>1 DEF AtLoad
  <2> QED BY <1>4, <2>2 DEF Machine, Control
<1>7. CASE ResumeElr
  <2>1. /\ pc = <<"load_elr">> /\ pc[1] = "load_elr" /\ pc' = <<"load_spsr">>
        /\ elr' = uctx[rx0].elr /\ UNCHANGED <<rx0, sp0>>
    BY <1>7 DEF ResumeElr, Go, AtPc
  <2>2. sp0 = Here
    BY <1>2, <2>1 DEF AtLoad
  <2>3. AtLoad'
    BY <1>1, <1>3, <1>4, <1>5, <2>1, <2>2 DEF AtLoad
  <2> QED BY <1>4, <2>3 DEF Machine, Control
<1>8. CASE ResumeSpsr
  <2>1. /\ pc = <<"load_spsr">> /\ pc[1] = "load_spsr" /\ pc' = <<"load_registers">>
        /\ spsr' = uctx[rx0].spsr /\ UNCHANGED <<rx0, sp0, elr>>
    BY <1>8 DEF ResumeSpsr, Go, AtPc
  <2>2. sp0 = Here /\ elr = Here
    BY <1>2, <2>1 DEF AtLoad
  <2>3. AtLoad'
    BY <1>1, <1>3, <1>4, <1>5, <2>1, <2>2 DEF AtLoad, TaskLeft
  <2> QED BY <1>4, <2>3 DEF Machine, Control
<1>9. CASE ResumeRegisters
  <2>1. /\ pc = <<"load_registers">> /\ pc[1] = "load_registers" /\ pc' = <<"eret">>
        /\ regs' = uctx[rx0].regs /\ rx0' = uctx[rx0].x0
        /\ UNCHANGED <<sp0, elr, spsr>>
    BY <1>9 DEF ResumeRegisters, Go, AtPc
  <2>2. sp0 = Here /\ TaskLeft
    BY <1>2, <2>1 DEF AtLoad
  <2>3. TaskLeft'
    BY <1>4, <2>1, <2>2 DEF TaskLeft
  <2>4. AtReturn'
    BY <1>1, <1>3, <1>4, <1>5, <2>1, <2>2, <2>3 DEF AtReturn
  <2> QED BY <1>4, <2>4 DEF Machine, Control
<1> QED BY <1>6, <1>7, <1>8, <1>9

-----------------------------------------------------------------------------
(* The theorems                                                            *)

(* A thread that has landed has left thread_bootstrap.                     *)
LEMMA BootstrappedStep ==
  ASSUME Bootstrapped, [ThreadNext]_threadVars
  PROVE  Bootstrapped'
<1>1. CASE SchedulerStep
  <2>1. CASE thread_resched_point_pick
    BY <2>1 DEF Bootstrapped, thread_resched_point_pick, At
  <2>2. CASE user_task_resume
    BY <2>2 DEF Bootstrapped, user_task_resume, At
  <2> QED BY <1>1, <2>1, <2>2
          DEF Bootstrapped, SchedulerStep, thread_switch_to, thread_enter_el0,
              thread_entry_idle, thread_resched_point_idle, el0_resume, At
<1>2. CASE thread_tick_irq \/ UNCHANGED threadVars
  BY <1>2 DEF Bootstrapped, thread_tick_irq, ChargeTick, threadVars
<1>3. ASSUME UNCHANGED <<current, bootstrap>>, phase # "landed"
      PROVE  Bootstrapped'
  BY <1>3 DEF Bootstrapped
<1>4. CASE \/ \E ret \in RetVals, wake \in Wakes : SyscallReturn(ret, wake)
           \/ \E r \in Reasons \ {"NONE"}, ok \in BOOLEAN, wake \in Wakes :
                thread_user_trap_redirect(r, ok, wake)
           \/ \E s \in UserSlots : thread_user_restart(s)
           \/ \E wake \in Wakes : user_task_return_step(wake)
  BY <1>3, <1>4 DEF SyscallReturn, thread_user_trap_redirect,
                    thread_user_restart, user_task_return_step, At
<1> QED BY <1>1, <1>2, <1>4 DEF ThreadNext, Panicked

LEMMA CpuInvInit == CpuInit => CpuInv
<1> SUFFICES ASSUME CpuInit
             PROVE  CpuInv
  OBVIOUS
<1>1. ThreadTypeOK /\ SchedulerInv /\ NoInternalPanic /\ Bootstrapped
  BY ThreadInitType, SchedulerInit
     DEF CpuInit, ThreadInit, NoInternalPanic, Bootstrapped
<1>2. NoFrames /\ CpuTypeOK
  BY DEF CpuInit, NoFrames, Stacks, CpuTypeOK
<1>3. \A t \in UserSlots : Saved(t)
  BY CpuAssumption
     DEF CpuInit, ThreadInit, Saved, CtxOf, user_task_init, UserSlots
<1>4. \A t \in Stacks : t \in Slots => kctx[t] = KernelCtx(t)
  BY DEF CpuInit, ThreadInit, KernelCtx, Stacks
<1>5. Contexts
  BY <1>3, <1>4 DEF Contexts, Stacks
<1>6. AtOpen("switch", 0)
  BY <1>2, <1>3, Phase DEF CpuInit, ThreadInit, AtOpen, Kernelly
<1>7. 0 \in Stacks
  BY ThreadAssumption DEF Stacks, Slots
<1> QED BY <1>1, <1>2, <1>5, <1>6, <1>7 DEF CpuInv, Control, InKernel, OpenPoints

LEMMA CpuInvStep == CpuInv /\ [CpuNext]_cpuVars => CpuInv'
<1> SUFFICES ASSUME CpuInv, [CpuNext]_cpuVars
             PROVE  CpuInv'
  OBVIOUS
<1>1. [ThreadNext]_threadVars
  BY ThreadStep
<1>2. (ThreadTypeOK /\ SchedulerInv /\ NoInternalPanic /\ Bootstrapped)'
  BY <1>1, ThreadTypeStep, SchedulerStepSafe, BootstrappedStep DEF CpuInv
<1>3. SUFFICES Machine'
  BY <1>2 DEF Machine, CpuInv
<1>4. CASE CpuNext /\ ~UNCHANGED cpuVars
  <2>1. ASSUME NEW n \in 1 .. WILD, el0_trap(n)
        PROVE  Machine'
    BY <2>1, TrapStep
  <2>2. CASE SAVE_CONTEXT("el0_sync", "exception_sync_el0") \/ exception_sync_el0
    BY <2>2, SaveTrapStep, HandlerStep
  <2>3. CASE take_irq \/ SAVE_CONTEXT("irq_vector", "exception_irq") \/ exception_irq
    BY <2>3, TakeIrqStep, SaveIrqStep, IrqHandlerStep
  <2>4. CASE RESTORE_SYNC_CONTEXT \/ RESTORE_CONTEXT \/ eret
    BY <2>4, RestoreSyncStep, RestoreStep, EretStep
  <2>5. CASE \E wake \in Wakes : ReturnToKernel(wake)
    BY <2>5, ReturnToKernelStep
  <2>6. CASE Pick \/ SwitchTo \/ context_switch \/ IdleConsumes
    BY <2>6, PickStep, SwitchToStep, ContextSwitchStep
  <2>7. CASE thread_bootstrap \/ Landed \/ thread_current_user_ctx
    BY <2>7, LandStep, CurrentCtxStep
  <2>8. CASE Resume
    BY <2>8, ResumeMasksStep, LoadStep DEF Resume
  <2> QED BY <1>4, <2>1, <2>2, <2>3, <2>4, <2>5, <2>6, <2>7, <2>8 DEF CpuNext
<1>5. CASE UNCHANGED cpuVars
  <2>1. /\ UNCHANGED <<uctx, kctx, want, sp, current, x0, bootstrap, phase>>
        /\ UNCHANGED <<pc, pstate, elr, spsr, sp0, regs, rx0, frames, cut, panic>>
    BY <1>5 DEF cpuVars, threadVars, registers, memory
  <2>2. NoFrames' = NoFrames /\ OneFrame' = OneFrame /\ Top' = Top
    BY <2>1, FramesSame
  <2>3. CpuTypeOK' = CpuTypeOK /\ Contexts' = Contexts
    BY <2>1, <2>2, ContextsSame DEF CpuTypeOK
  <2>4. Control' = Control
    BY <2>1, <2>2
       DEF Control, AtTask, AtTrap, AtReturn, AtRedirect, AtLoad, InKernel,
           Interrupted, AtOpen, AtIrq, Kernelly, IrqFrame, TaskLeft, ToKernel,
           Saved, CtxOf, Here
  <2> QED BY <2>1, <2>3, <2>4 DEF Machine, CpuInv
<1> QED BY <1>3, <1>4, <1>5

(* The inductive invariant.                                                *)
THEOREM CpuCorrect == CpuSpec => []CpuInv
BY CpuInvInit, CpuInvStep, PTL DEF CpuSpec

(* The machine, with an interrupt between any two instructions at which    *)
(* PSTATE.I is clear, implements the thread layer: a tick comes only where *)
(* Thread's phases say it may.                                             *)
THEOREM CpuImplementsThread == CpuSpec => ImplementsThread
<1>1. CpuInit => ThreadInit
  BY DEF CpuInit
<1>2. CpuInv /\ [CpuNext]_cpuVars => [ThreadNext]_threadVars
  BY ThreadStep
<1> QED BY <1>1, <1>2, CpuCorrect, PTL DEF CpuSpec, ImplementsThread

(* Only a task is ever at EL0.                                             *)
LEMMA EL0IsTask ==
  ASSUME CpuInv, AtEL0
  PROVE  AtTask /\ OnUserTask /\ currentTask = current /\ current \in Stacks
<1>1. Control /\ panic = "none" /\ pstate.el = 0
  BY DEF AtEL0, CpuInv
<1>2. AtTask
  BY <1>1, Where DEF SPSR_EL1H_MASKED, EL1H_OPEN
<1>3. phase \in InTask
  BY <1>2 DEF AtTask, InTask
<1> QED BY <1>1, <1>2, <1>3, CurrentIsTask DEF OnUserTask

(* A task at EL0 is the current one, where it was and with what it had     *)
(* (el0_resume, the vectors' restore, thread_user_trap_redirect).          *)
THEOREM ContextCorrect == CpuSpec => []ContextIntact
<1>1. CpuInv => ContextIntact
  BY EL0IsTask DEF ContextIntact, AtTask, Here
<1> QED BY <1>1, CpuCorrect, PTL

(* A task's x0 is its call's result, whether it comes by the frame, by the *)
(* saved context or by a fresh one.                                        *)
THEOREM DeliveryCorrect == CpuSpec => []ResultDelivered
<1>1. CpuInv => ResultDelivered
  BY EL0IsTask DEF ResultDelivered, AtTask
<1> QED BY <1>1, CpuCorrect, PTL

(* No kernel stack holds more than one trap frame, and that of a task at   *)
(* EL0 none.                                                               *)
THEOREM StackCorrect == CpuSpec => []KernelStackBounded
<1>1. CpuInv => KernelStackBounded
  <2>1. ASSUME CpuInv, NEW t \in Stacks
        PROVE  Len(frames[t]) <= 1
    <3>1. NoFrames \/ OneFrame
      BY <2>1 DEF CpuInv, CpuTypeOK
    <3>2. frames[t] = <<>> \/ frames[t] = <<Top>>
      BY <3>1 DEF NoFrames, OneFrame
    <3>3. Len(<<>>) = 0 /\ Len(<<Top>>) = 1
      OBVIOUS
    <3>4. Len(frames[t]) \in {0, 1}
      BY <3>2, <3>3, Zenon
    <3>5. \A n \in {0, 1} : n <= 1
      OBVIOUS
    <3> QED BY <3>4, <3>5, Zenon
  <2>2. CpuInv /\ AtEL0 => frames[currentTask] = <<>>
    BY EL0IsTask DEF AtTask, NoFrames
  <2> QED BY <2>1, <2>2 DEF KernelStackBounded, Stacks
<1> QED BY <1>1, CpuCorrect, PTL

(* What an interrupt returns to is what it interrupted, although its path  *)
(* restores neither ELR nor SPSR (vectors.S).                              *)
THEOREM IrqCorrect == CpuSpec => []IrqTransparent
<1>1. ASSUME CpuInv, AtPc("eret"), cut # <<>>
      PROVE  Head(cut) = <<elr, spsr, regs, rx0, sp>>
  <2>1. Control /\ pc = <<"eret">> /\ pc[1] = "eret"
    BY <1>1 DEF CpuInv, AtPc
  <2>2. PICK q \in OpenPoints, v \in Stacks : AtIrq(q, v)
    BY <1>1, <2>1, Where DEF AtReturn, AtRedirect, Interrupted
  <2> QED BY <2>1, <2>2, OneElement DEF AtIrq
<1>2. CpuInv => IrqTransparent
  BY <1>1 DEF IrqTransparent
<1> QED BY <1>2, CpuCorrect, PTL
=============================================================================
