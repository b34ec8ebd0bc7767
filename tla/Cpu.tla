-------------------------------- MODULE Cpu --------------------------------
(***************************************************************************)
(* The kernel's way in and out of EL0, instruction by instruction: the     *)
(* exception vectors (vectors.S), the redirection of a trap to             *)
(* user_task_return_to_kernel, context_switch, and el0_resume, with an     *)
(* interrupt between any two steps at which PSTATE.I is clear.             *)
(*                                                                         *)
(* Thread fixes where ticks may come by its variable phase.  Here only the *)
(* machine's mask says so, and Thread is the abstract specification: every *)
(* step is a step of the thread layer or leaves it alone.                  *)
(*                                                                         *)
(* The registers are abstracted to where their contents come from: what    *)
(* the EL0 program of slot t held at its n-th trap point is one token for  *)
(* PC, SP_EL0 and the registers other than x0, yet each of the three       *)
(* travels by itself.  A kernel stack is the sequence of its trap frames;  *)
(* SP_EL1 always points at the top of one.                                 *)
(***************************************************************************)
EXTENDS Thread, Sequences

CONSTANT POINTS     (* bound: points of its code a task may trap at        *)

ASSUME CpuAssumption == POINTS \in Nat \ {0}

VARIABLES
  pc, pstate,       (* PC and PSTATE: exception level and IRQ mask         *)
  elr, spsr,        (* ELR_EL1 and SPSR_EL1                                *)
  sp0,              (* SP_EL0                                              *)
  sp,               (* SP_EL1: the thread on whose stack the kernel runs   *)
  regs, rx0,        (* the general registers but x0, and x0                *)
  frames,           (* per kernel stack: its struct trap_frame's           *)
  kctx,             (* thread.ctx                                          *)
  uctx,             (* thread.user.ctx, with the fields of a trap frame    *)
  want,             (* history: the point each task is to go on from       *)
  cut               (* history: what each IRQ being served interrupted     *)

registers == <<pc, pstate, elr, spsr, sp0, sp, regs, rx0>>
memory    == <<frames, kctx, uctx>>
cpuVars   == <<threadVars, registers, memory, want, cut>>

User(t, n) == <<"user", t, n>>       (* a program's registers at a point   *)
Kernel(t)  == <<"kernel", t>>        (* the registers of a kernel thread   *)

(* Two points lie outside the sandbox: the address behind an svc in its    *)
(* last word, and any from which a fetch faults.                           *)
LAST == POINTS + 1
WILD == POINTS + 2
InSandbox(l) == l[3] \in 0 .. POINTS

SPSR_EL0T_MASKED == [el |-> 0, masked |-> TRUE]
SPSR_EL1H_MASKED == [el |-> 1, masked |-> TRUE]
EL1H_OPEN        == [el |-> 1, masked |-> FALSE]

(* user_task_init: the context a task starts with, at first or again.      *)
user_task_init(t) ==
  [elr |-> User(t, 0), spsr |-> SPSR_EL0T_MASKED, sp |-> User(t, 0),
   regs |-> User(t, 0), x0 |-> 0]

CpuInit ==
  /\ ThreadInit
  /\ pc = <<"switch">> /\ pstate = EL1H_OPEN
  /\ elr = <<"boot">> /\ spsr = EL1H_OPEN
  /\ sp0 = <<"boot">> /\ sp = NONE
  /\ regs = Kernel(NONE) /\ rx0 = 0
  /\ frames = [t \in Slots \cup {NONE} |-> <<>>]
  /\ kctx = [t \in Slots \cup {NONE} |->
               [lr |-> <<"thread_bootstrap">>, sp |-> t, regs |-> Kernel(t)]]
  /\ uctx = [t \in UserSlots |-> user_task_init(t)]
  /\ want = [t \in UserSlots |-> 0]
  /\ cut = <<>>

AtPc(l) == pc = <<l>> /\ panic = "none"
Go(l)   == pc' = <<l>>
Top     == Head(frames[sp])          (* the frame the handler works on     *)
OnTop(f) == frames' = [frames EXCEPT ![sp] = <<f>> \o Tail(@)]

(* Kernel code from one label to the next that touches no more than PC.    *)
Runs(from, to) ==
  /\ AtPc(from) /\ Go(to)
  /\ UNCHANGED <<pstate, elr, spsr, sp0, sp, regs, rx0, memory, want, cut>>

-----------------------------------------------------------------------------
(* Into the kernel                                                         *)

(* The task at EL0 runs to its n-th trap point and issues a system call or *)
(* faults there; the hardware enters the vector.  Behind the sandbox's     *)
(* last word it can only fault.                                            *)
el0_trap(n) ==
  LET u == User(pc[2], n) IN
    /\ pstate.el = 0 /\ panic = "none"
    /\ pc[3] = LAST => n = WILD
    /\ sp0' = u /\ regs' = u /\ rx0' = ARG
    /\ elr' = u /\ spsr' = pstate /\ pstate' = SPSR_EL1H_MASKED
    /\ Go("el0_sync")
    /\ want' = [want EXCEPT ![pc[2]] = n]
    /\ UNCHANGED <<threadVars, sp, memory, cut>>

(* The hardware takes an interrupt wherever IRQs are open.                 *)
take_irq ==
  /\ ~pstate.masked /\ panic = "none"
  /\ elr' = pc /\ spsr' = pstate /\ pstate' = SPSR_EL1H_MASKED
  /\ Go("irq_vector")
  /\ cut' = <<<<pc, pstate, regs, rx0, sp>>>> \o cut
  /\ UNCHANGED <<threadVars, sp0, sp, regs, rx0, memory, want>>

(* SAVE_CONTEXT_EL0 saves the EL0 stack pointer, SAVE_CONTEXT its own.     *)
SAVE_CONTEXT(from, to) ==
  /\ AtPc(from) /\ Go(to)
  /\ frames' = [frames EXCEPT ![sp] =
       <<[elr |-> elr, spsr |-> spsr, regs |-> regs, x0 |-> rx0,
          sp |-> IF spsr.el = 0 THEN sp0 ELSE Kernel(sp)]>> \o @]
  /\ UNCHANGED <<threadVars, pstate, elr, spsr, sp0, sp, regs, rx0, kctx, uctx,
                 want, cut>>

(* Mutant: the handler opens IRQs, as a rescheduling point in it would.    *)
irq_opens_irqs ==
  /\ AtPc("exception_irq") /\ Go("RESTORE_CONTEXT")
  /\ \/ current # NONE /\ ChargeTick
     \/ UNCHANGED threadVars
  /\ pstate' = EL1H_OPEN
  /\ regs' = <<"irq">> /\ rx0' = 0
  /\ UNCHANGED <<elr, spsr, sp0, sp, memory, want, cut>>

(* A timer tick, or an interrupt that is none, or one that comes before    *)
(* the first switch.                                                       *)
exception_irq ==
  /\ AtPc("exception_irq") /\ Go("RESTORE_CONTEXT")
  /\ \/ current # NONE /\ ChargeTick
     \/ UNCHANGED threadVars
  /\ regs' = <<"irq">> /\ rx0' = 0
  /\ UNCHANGED <<pstate, elr, spsr, sp0, sp, memory, want, cut>>

-----------------------------------------------------------------------------
(* The handler of a synchronous trap                                       *)

(* Mutant: the result reaches the thread table's reader but not the saved  *)
(* context.                                                                *)
woken_without_context(u, wake) == u

(* The saved contexts after the wake-ups wrote their results there.        *)
Woken(u, wake) ==
  [t \in UserSlots |->
     IF t \in DOMAIN wake THEN [u[t] EXCEPT !.x0 = wake[t]] ELSE u[t]]

(* syscall_dispatch returns to the task; the result goes to the frame.     *)
HandlerReturns(ret, wake) ==
  /\ SyscallReturn(ret, wake)
  /\ OnTop([Top EXCEPT !.x0 = ret])
  /\ uctx' = Woken(uctx, wake)
  /\ UNCHANGED want

HandlerRestarts(t) ==
  /\ thread_user_restart(t)
  /\ OnTop([Top EXCEPT !.x0 = 0])
  /\ uctx' = [uctx EXCEPT ![t] = user_task_init(t)]
  /\ want' = [want EXCEPT ![t] = 0]

(* Mutant: the continuation is entered with IRQs open.                     *)
redirect_unmasked(r, wake) ==
  /\ thread_user_trap_redirect(r, InSandbox(Top.elr), wake)
  /\ uctx' = Woken([uctx EXCEPT ![current] = Top], wake)
  /\ OnTop([Top EXCEPT !.elr = <<"user_task_return_to_kernel">>,
                       !.spsr = EL1H_OPEN, !.x0 = 0])
  /\ UNCHANGED want

(* thread_user_trap_redirect: the frame becomes the user context, and then *)
(* that of user_task_return_to_kernel, which ignores x0.                   *)
HandlerRedirects(r, wake) ==
  /\ thread_user_trap_redirect(r, InSandbox(Top.elr), wake)
  /\ uctx' = Woken([uctx EXCEPT ![current] = Top], wake)
  /\ OnTop([Top EXCEPT !.elr = <<"user_task_return_to_kernel">>,
                       !.spsr = SPSR_EL1H_MASKED, !.x0 = 0])
  /\ UNCHANGED want

exception_sync_el0 ==
  /\ AtPc("exception_sync_el0") /\ Go("RESTORE_SYNC_CONTEXT")
  /\ \/ /\ Top.elr[3] # WILD    (* an svc, which lies in the sandbox        *)
        /\ \/ \E ret \in RetVals, wake \in Wakes : HandlerReturns(ret, wake)
           \/ \E t \in UserSlots : HandlerRestarts(t)
           \/ \E r \in Reasons \ {"NONE", "FAULT"}, wake \in Wakes :
                HandlerRedirects(r, wake)
     \/ Top.elr[3] # LAST /\ HandlerRedirects("FAULT", NoWake)
  /\ regs' = Kernel(sp) /\ rx0' = 0
  /\ UNCHANGED <<pstate, elr, spsr, sp0, sp, kctx, cut>>

-----------------------------------------------------------------------------
(* Out of an exception                                                     *)

(* The edited ELR and SPSR, restored on the synchronous paths only.        *)
RESTORE_SYNC_CONTEXT ==
  /\ AtPc("RESTORE_SYNC_CONTEXT") /\ Go("RESTORE_CONTEXT")
  /\ elr' = Top.elr /\ spsr' = Top.spsr
  /\ UNCHANGED <<threadVars, pstate, sp0, sp, regs, rx0, memory, want, cut>>

(* Mutant: the frame is left on the stack.                                 *)
restore_without_pop ==
  /\ AtPc("RESTORE_CONTEXT") /\ Go("eret")
  /\ regs' = Top.regs /\ rx0' = Top.x0
  /\ UNCHANGED <<threadVars, pstate, elr, spsr, sp0, sp, memory, want, cut>>

RESTORE_CONTEXT ==
  /\ AtPc("RESTORE_CONTEXT") /\ Go("eret")
  /\ regs' = Top.regs /\ rx0' = Top.x0
  /\ frames' = [frames EXCEPT ![sp] = Tail(@)]
  /\ UNCHANGED <<threadVars, pstate, elr, spsr, sp0, sp, kctx, uctx, want, cut>>

(* The hardware's return; nothing that is interrupted traps, so a          *)
(* nonempty cut is what an IRQ returns to.                                 *)
eret ==
  /\ AtPc("eret")
  /\ pc' = elr /\ pstate' = spsr
  /\ cut' = IF cut = <<>> THEN <<>> ELSE Tail(cut)
  /\ UNCHANGED <<threadVars, elr, spsr, sp0, sp, regs, rx0, memory, want>>

-----------------------------------------------------------------------------
(* The kernel continuation of a task                                       *)

(* user_task_return_step until thread_resched_point has consumed the       *)
(* request and opened IRQs.                                                *)
ReturnToKernel(wake) ==
  /\ AtPc("user_task_return_to_kernel") /\ Go("pick")
  /\ user_task_return_step(wake)
  /\ uctx' = Woken(uctx, IF reason[current] \in Deaths THEN wake ELSE NoWake)
  /\ pstate' = EL1H_OPEN
  /\ regs' = Kernel(sp) /\ rx0' = 0
  /\ UNCHANGED <<elr, spsr, sp0, sp, frames, kctx, want, cut>>

Pick == thread_resched_point_pick /\ Runs("pick", "switch")

(* thread_switch_to: the bookkeeping with IRQs open, then context_switch   *)
(* with the address of the old thread's context in x0, unless the thread   *)
(* is the old one.                                                         *)
SwitchTo ==
  /\ AtPc("switch") /\ Go(IF next = current THEN "landed" ELSE "context_switch")
  /\ thread_switch_to
  /\ rx0' = current
  /\ UNCHANGED <<pstate, elr, spsr, sp0, sp, regs, memory, want, cut>>

(* The swap is masked; IRQs are open again at its return.                  *)
context_switch ==
  /\ AtPc("context_switch")
  /\ kctx' = [kctx EXCEPT ![rx0] = [lr |-> <<"landed">>, sp |-> sp, regs |-> regs]]
  /\ pc' = kctx[current].lr
  /\ sp' = kctx[current].sp /\ regs' = kctx[current].regs
  /\ UNCHANGED <<threadVars, pstate, elr, spsr, sp0, rx0, frames, uctx, want, cut>>

(* A thread's first landing, with &t->user.ctx in x0, and the idle loop.   *)
thread_bootstrap ==
  /\ AtPc("thread_bootstrap")
  /\ \/ thread_enter_el0 /\ rx0' = current /\ Go("el0_resume")
     \/ thread_entry_idle /\ rx0' = rx0 /\ Go("idle")
  /\ UNCHANGED <<pstate, elr, spsr, sp0, sp, regs, memory, want, cut>>

Landed ==
  \/ user_task_resume /\ Runs("landed", "thread_current_user_ctx")
  \/ thread_entry_idle /\ Runs("landed", "idle")

IdleConsumes == thread_resched_point_idle /\ Runs("idle", "pick")

thread_current_user_ctx ==
  /\ AtPc("thread_current_user_ctx") /\ Go("el0_resume")
  /\ rx0' = currentTask
  /\ panic' = IF OnUserTask /\ InSandbox(uctx[currentTask].elr)
              THEN "none" ELSE "user resume ELR outside sandbox"
  /\ UNCHANGED <<tstate, ustate, reason, x0, quantum, bootstrap, current,
                 currentTask, resched, phase, next, pstate, elr, spsr, sp0, sp,
                 regs, memory, want, cut>>

-----------------------------------------------------------------------------
(* el0_resume, with the context's address in x0                            *)

(* Mutant: IRQs stay open.                                                 *)
resume_unmasked ==
  /\ AtPc("el0_resume") /\ Go("load_sp_el0")
  /\ el0_resume
  /\ UNCHANGED <<pstate, elr, spsr, sp0, sp, regs, rx0, memory, want, cut>>

ResumeMasks ==
  /\ AtPc("el0_resume") /\ Go("load_sp_el0")
  /\ el0_resume
  /\ pstate' = SPSR_EL1H_MASKED
  /\ UNCHANGED <<elr, spsr, sp0, sp, regs, rx0, memory, want, cut>>

ResumeSp ==
  /\ AtPc("load_sp_el0") /\ Go("load_elr")
  /\ sp0' = uctx[rx0].sp
  /\ UNCHANGED <<threadVars, pstate, elr, spsr, sp, regs, rx0, memory, want, cut>>

ResumeElr ==
  /\ AtPc("load_elr") /\ Go("load_spsr")
  /\ elr' = uctx[rx0].elr
  /\ UNCHANGED <<threadVars, pstate, spsr, sp0, sp, regs, rx0, memory, want, cut>>

ResumeSpsr ==
  /\ AtPc("load_spsr") /\ Go("load_registers")
  /\ spsr' = uctx[rx0].spsr
  /\ UNCHANGED <<threadVars, pstate, elr, sp0, sp, regs, rx0, memory, want, cut>>

(* x0, which holds the address until x9 takes it over, is loaded among the *)
(* last.                                                                   *)
ResumeRegisters ==
  /\ AtPc("load_registers") /\ Go("eret")
  /\ regs' = uctx[rx0].regs /\ rx0' = uctx[rx0].x0
  /\ UNCHANGED <<threadVars, pstate, elr, spsr, sp0, sp, memory, want, cut>>

Resume == ResumeMasks \/ ResumeSp \/ ResumeElr \/ ResumeSpsr \/ ResumeRegisters

-----------------------------------------------------------------------------
CpuNext ==
  \/ \E n \in 1 .. WILD : el0_trap(n)
  \/ SAVE_CONTEXT("el0_sync", "exception_sync_el0") \/ exception_sync_el0
  \/ take_irq \/ SAVE_CONTEXT("irq_vector", "exception_irq") \/ exception_irq
  \/ RESTORE_SYNC_CONTEXT \/ RESTORE_CONTEXT \/ eret
  \/ \E wake \in Wakes : ReturnToKernel(wake)
  \/ Pick \/ SwitchTo \/ context_switch
  \/ thread_bootstrap \/ Landed \/ IdleConsumes \/ thread_current_user_ctx
  \/ Resume
  \/ Panicked /\ UNCHANGED cpuVars

CpuSpec == CpuInit /\ [][CpuNext]_cpuVars

-----------------------------------------------------------------------------
(* Correctness                                                             *)

AtEL0 == pstate.el = 0 /\ panic = "none"

(* Whenever a task runs at EL0 it is the current one, at the point it left *)
(* (after a restart, at its entry), with its own stack pointer and         *)
(* registers, and with IRQs masked: nobody wrote to ELR, SPSR or SP_EL0    *)
(* between their load and the eret.                                        *)
ContextIntact ==
  AtEL0 =>
    /\ OnUserTask
    /\ pstate = SPSR_EL0T_MASKED
    /\ \A r \in {pc, sp0, regs} : r = User(currentTask, want[currentTask])

(* x0 at EL0 is the result the kernel gave the call, by whichever of the   *)
(* three ways it travels: the frame, the saved context at a wake-up, the   *)
(* fresh context of a restart.                                             *)
ResultDelivered == AtEL0 => rx0 = x0[currentTask]

(* A task goes to EL0 with its kernel stack as empty as it was the last    *)
(* time, however its trap ended and whether or not it was restarted, and   *)
(* no stack ever holds more than one frame: the frame of a redirected trap *)
(* is gone before IRQs open.                                               *)
KernelStackBounded ==
  /\ AtEL0 => frames[currentTask] = <<>>
  /\ \A t \in Slots \cup {NONE} : Len(frames[t]) <= 1

(* An interrupt is invisible to what it interrupts although its return     *)
(* path does not restore ELR and SPSR.                                     *)
IrqTransparent ==
  AtPc("eret") /\ cut # <<>> => Head(cut) = <<elr, spsr, regs, rx0, sp>>

(* Every step is one of the thread layer's or invisible to it; so a tick   *)
(* is taken only where Thread's phase has IRQs open.                       *)
ImplementsThread == ThreadInit /\ [][ThreadNext]_threadVars
=============================================================================
