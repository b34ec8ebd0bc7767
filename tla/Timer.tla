------------------------------- MODULE Timer -------------------------------
(***************************************************************************)
(* The tick: the virtual timer (arch/aarch64/timer.c), the interrupt       *)
(* controller (arch/aarch64/gic.c), and the rest of the kernel reduced to  *)
(* when it masks IRQs.  The counter goes on between any two steps.         *)
(*                                                                         *)
(* The timer's line is high while the counter has reached CNTV_CVAL, and   *)
(* only a new compare value takes it down.  An IAR read makes the          *)
(* interrupt active, an EOIR write inactive; it is signalled while the     *)
(* line is high and it is not active.                                      *)
(*                                                                         *)
(* Counters are kept finite by their differences: left is CNTV_CVAL less   *)
(* the counter, owed is the number of times the line rose less the tick    *)
(* count the tasks see, g_sched_ticks.                                     *)
(***************************************************************************)
EXTENDS Integers

CONSTANTS
  FREQS,       (* values CNTFRQ_EL0 may have, in Hz                        *)
  MAX_SINCE    (* bound: the counter is followed no longer between ticks   *)

ASSUME TimerAssumption ==
  /\ FREQS \subseteq Nat \ {0} /\ MAX_SINCE \in Nat
  /\ \A f \in FREQS : f \div 1000 < MAX_SINCE

TIMER_IRQ_ID == 27
SPURIOUS     == 1023

VARIABLES
  pc,          (* the CPU's control point                                  *)
  masked,      (* PSTATE.I                                                 *)
  freq,        (* CNTFRQ_EL0                                               *)
  interval,    (* g_tick_interval                                          *)
  left,        (* counter steps until the line rises, 0 if it has          *)
  ctl,         (* CNTV_CTL_EL0.ENABLE                                      *)
  gic,         (* distributor and CPU interface forward the interrupt      *)
  active,      (* the interrupt is active                                  *)
  iar,         (* the local of gic_handle_irq                              *)
  current,     (* g_current is set                                         *)
  owed,        (* see above                                                *)
  since        (* history: counter steps since the last tick               *)

timerVars == <<pc, masked, freq, interval, left, ctl, gic, active, iar,
               current, owed, since>>

TimerInit ==
  /\ pc = "gic_init" /\ masked = TRUE
  /\ freq \in FREQS
  /\ interval = 0 /\ left \in 0 .. 1 /\ ctl = FALSE
  /\ gic = FALSE /\ active = FALSE /\ iar = SPURIOUS
  /\ current = FALSE
  /\ owed = 0 /\ since = 0

Line   == ctl /\ left = 0
Signal == gic /\ Line /\ ~active

Step(from, to) == pc = from /\ pc' = to

-----------------------------------------------------------------------------
(* The hardware                                                            *)

count ==
  /\ left' = IF left = 0 THEN 0 ELSE left - 1
  /\ owed' = IF ctl /\ left = 1 THEN owed + 1 ELSE owed
  /\ since' = IF since = MAX_SINCE THEN since ELSE since + 1
  /\ UNCHANGED <<pc, masked, freq, interval, ctl, gic, active, iar, current>>

take_irq ==
  /\ Step("running", "gic_handle_irq")
  /\ ~masked /\ Signal
  /\ masked' = TRUE
  /\ UNCHANGED <<freq, interval, left, ctl, gic, active, iar, current, owed,
                 since>>

-----------------------------------------------------------------------------
(* Start-up                                                                *)

gic_init ==
  /\ Step("gic_init", "timer_init")
  /\ gic' = TRUE
  /\ UNCHANGED <<masked, freq, interval, left, ctl, active, iar, current,
                 owed, since>>

(* Mutant: no fallback for a slow counter.                                 *)
plain_interval(f) == f \div 1000

tick_interval(f) == IF f \div 1000 = 0 THEN 1 ELSE f \div 1000

timer_init ==
  /\ Step("timer_init", "write_cntv_ctl")
  /\ interval' = tick_interval(freq)
  /\ left' = tick_interval(freq)
  /\ since' = 0
  /\ UNCHANGED <<masked, freq, ctl, gic, active, iar, current, owed>>

write_cntv_ctl ==
  /\ Step("write_cntv_ctl", "arch_enable_irq")
  /\ ctl' = TRUE
  /\ owed' = IF left = 0 THEN owed + 1 ELSE owed
  /\ UNCHANGED <<masked, freq, interval, left, gic, active, iar, current,
                 since>>

arch_enable_irq ==
  /\ Step("arch_enable_irq", "running")
  /\ masked' = FALSE
  /\ UNCHANGED <<freq, interval, left, ctl, gic, active, iar, current, owed,
                 since>>

-----------------------------------------------------------------------------
(* The kernel and its tasks as the timer sees them                         *)

thread_start ==
  /\ pc = "running" /\ ~current
  /\ current' = TRUE
  /\ UNCHANGED <<pc, masked, freq, interval, left, ctl, gic, active, iar,
                 owed, since>>

(* EL0 and the first half of a trap run masked, the rescheduling point and *)
(* the idle loop open.                                                     *)
KernelMasks(m) ==
  /\ pc = "running" /\ current /\ masked = ~m
  /\ masked' = m
  /\ UNCHANGED <<pc, freq, interval, left, ctl, gic, active, iar, current,
                 owed, since>>

-----------------------------------------------------------------------------
(* The interrupt handler, masked throughout                                *)

gic_handle_irq ==
  /\ Step("gic_handle_irq", IF Signal THEN "timer_handle_irq" ELSE "EOIR")
  /\ iar' = IF Signal THEN TIMER_IRQ_ID ELSE SPURIOUS
  /\ active' = (active \/ Signal)
  /\ UNCHANGED <<masked, freq, interval, left, ctl, gic, current, owed, since>>

timer_handle_irq ==
  /\ Step("timer_handle_irq", "write_cntv_tval")
  /\ since' = 0
  /\ UNCHANGED <<masked, freq, interval, left, ctl, gic, active, iar, current,
                 owed>>

(* Mutant: the timer is taken to reload itself.                            *)
tval_not_written ==
  /\ Step("write_cntv_tval", "thread_tick_irq")
  /\ UNCHANGED <<masked, freq, interval, left, ctl, gic, active, iar, current,
                 owed, since>>

write_cntv_tval ==
  /\ Step("write_cntv_tval", "thread_tick_irq")
  /\ left' = interval
  /\ UNCHANGED <<masked, freq, interval, ctl, gic, active, iar, current, owed,
                 since>>

(* thread_tick_irq counts the tick whether or not there is a thread to     *)
(* charge.                                                                 *)
thread_tick_irq ==
  /\ Step("thread_tick_irq", "EOIR")
  /\ owed' = owed - 1
  /\ UNCHANGED <<masked, freq, interval, left, ctl, gic, active, iar, current,
                 since>>

(* Mutant: the interrupt is not ended.                                     *)
return_without_eoi ==
  /\ Step("EOIR", "running")
  /\ masked' = FALSE
  /\ UNCHANGED <<freq, interval, left, ctl, gic, active, iar, current, owed,
                 since>>

(* The end of interrupt, and the return to where IRQs were open.           *)
end_of_interrupt ==
  /\ Step("EOIR", "running")
  /\ active' = (active /\ iar # TIMER_IRQ_ID)
  /\ masked' = FALSE
  /\ UNCHANGED <<freq, interval, left, ctl, gic, iar, current, owed, since>>

CpuStep ==
  \/ gic_init \/ timer_init \/ write_cntv_ctl \/ arch_enable_irq
  \/ thread_start
  \/ gic_handle_irq \/ timer_handle_irq \/ write_cntv_tval \/ thread_tick_irq
  \/ end_of_interrupt

TimerNext ==
  \/ count \/ take_irq \/ CpuStep
  \/ \E m \in BOOLEAN : KernelMasks(m)

(* Time passes, the CPU goes on, the kernel opens IRQs again after it has  *)
(* masked them, and a pending interrupt is not passed over for ever.       *)
TimerSpec ==
  /\ TimerInit /\ [][TimerNext]_timerVars
  /\ WF_timerVars(count) /\ WF_timerVars(CpuStep)
  /\ WF_timerVars(KernelMasks(FALSE))
  /\ SF_timerVars(take_irq)

-----------------------------------------------------------------------------
(* Correctness                                                             *)

(* Every rise of the line is one tick of the count the tasks see: while it *)
(* waits to be handled none other can come, however long IRQs stay masked, *)
(* a tick that is handled is not taken a second time, and the ticks that   *)
(* come before there is a thread count too.                                *)
EveryExpiryOnce ==
  owed = (IF Line /\ pc # "write_cntv_tval" THEN 1 ELSE 0)
           + (IF pc \in {"write_cntv_tval", "thread_tick_irq"} THEN 1 ELSE 0)

(* Two ticks are never closer than a millisecond, rounded down to whole    *)
(* counter steps but at least one of them: from a tick to the n-th after   *)
(* it a task waits for n milliseconds.                                     *)
NeverEarly ==
  [][pc = "timer_handle_irq" /\ pc' # pc =>
       since >= 1 /\ 1000 * (since + 1) > freq]_timerVars

(* The tick never dies: the line is taken down before the interrupt ends,  *)
(* and comes back.  This is what System assumes of the timer.              *)
TicksForever == []<>(pc = "timer_handle_irq")
=============================================================================
