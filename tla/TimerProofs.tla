---------------------------- MODULE TimerProofs ----------------------------
(***************************************************************************)
(* Proofs about the tick, for every counter frequency: each expiry of the  *)
(* timer is counted once, and no tick comes early.  What the proofs rest   *)
(* on: the handler runs only while the line is high, the line goes down    *)
(* only when the handler writes the compare value, and the interrupt stays *)
(* active in between.                                                      *)
(***************************************************************************)
EXTENDS Timer, TLAPS

TimerPcs == {"gic_init", "timer_init", "write_cntv_ctl", "arch_enable_irq",
             "running", "gic_handle_irq", "timer_handle_irq",
             "write_cntv_tval", "thread_tick_irq", "EOIR"}

(* The timer has not been given an interval, or has not been enabled.      *)
Unset    == pc \in {"gic_init", "timer_init"}
Disabled == pc \in {"gic_init", "timer_init", "write_cntv_ctl"}

TimerTypeOK ==
  /\ pc \in TimerPcs
  /\ freq \in FREQS
  /\ left \in Nat /\ since \in 0 .. MAX_SINCE /\ owed \in Int
  /\ ctl \in BOOLEAN /\ (ctl <=> ~Disabled)
  /\ active \in BOOLEAN /\ gic \in BOOLEAN

(* Where the handler is, what the line and the interrupt controller are.   *)
HandlerInv ==
  /\ pc = "gic_handle_irq" => Signal
  /\ pc \in {"timer_handle_irq", "write_cntv_tval"} => left = 0
  /\ pc \in {"timer_handle_irq", "write_cntv_tval", "thread_tick_irq"}
       => active /\ iar = TIMER_IRQ_ID
  /\ pc = "EOIR" /\ active => iar = TIMER_IRQ_ID
  /\ active => pc \in {"timer_handle_irq", "write_cntv_tval",
                       "thread_tick_irq", "EOIR"}

(* From the last tick to the next rise of the line is at least an          *)
(* interval, but for the time between the tick and the compare value's     *)
(* write.                                                                  *)
IntervalInv ==
  ~Unset => /\ interval = tick_interval(freq)
            /\ pc # "write_cntv_tval" => since + left >= interval

TimerInv ==
  /\ TimerTypeOK
  /\ HandlerInv
  /\ IntervalInv
  /\ Disabled => owed = 0
  /\ EveryExpiryOnce

(* An interval is at least one counter step, a millisecond rounded down,   *)
(* and is followed to its end (tick_interval, timer.c).                    *)
LEMMA TickInterval ==
  ASSUME NEW f \in FREQS
  PROVE  /\ tick_interval(f) \in Nat \ {0}
         /\ tick_interval(f) <= MAX_SINCE
         /\ f < 1000 * (tick_interval(f) + 1)
<1>1. /\ f \in Nat \ {0} /\ MAX_SINCE \in Nat /\ f \div 1000 < MAX_SINCE
  BY TimerAssumption
<1>2. f \div 1000 \in Nat /\ f < 1000 * (f \div 1000 + 1)
  BY <1>1
<1> QED BY <1>1, <1>2 DEF tick_interval

(* Before the timer is set up nothing has expired (kernel_main).           *)
LEMMA TimerInvInit == TimerInit => TimerInv
<1> SUFFICES ASSUME TimerInit PROVE TimerInv
  OBVIOUS
<1> USE DEF TimerInit, Disabled, Unset
<1>1. TimerTypeOK
  <2>1. /\ pc \in TimerPcs /\ freq \in FREQS
        /\ left \in Nat /\ since \in 0 .. MAX_SINCE /\ owed \in Int
    BY TimerAssumption DEF TimerPcs
  <2>2. ctl \in BOOLEAN /\ active \in BOOLEAN /\ gic \in BOOLEAN
    BY Zenon
  <2>3. ~ctl /\ Disabled
    OBVIOUS
  <2> QED BY <2>1, <2>2, <2>3 DEF TimerTypeOK
<1>2. HandlerInv /\ IntervalInv
  BY DEF HandlerInv, IntervalInv
<1>3. owed = 0 /\ EveryExpiryOnce
  BY DEF EveryExpiryOnce, Line
<1> QED BY <1>1, <1>2, <1>3 DEF TimerInv

(* Every step keeps the types.                                             *)
LEMMA TimerTypeStep ==
  ASSUME TimerTypeOK, IntervalInv, TimerNext
  PROVE  TimerTypeOK'
<1> USE DEF TimerTypeOK, TimerPcs, Disabled, Step
<1>1. CASE count
  BY <1>1, TimerAssumption DEF count
<1>2. CASE take_irq \/ thread_start \/ gic_init \/ arch_enable_irq
  <2>1. /\ pc' \in TimerPcs /\ (Disabled' <=> Disabled)
        /\ UNCHANGED <<freq, left, since, owed, ctl, active>>
    BY <1>2 DEF take_irq, thread_start, gic_init, arch_enable_irq
  <2>2. gic' \in BOOLEAN
    BY <1>2 DEF take_irq, thread_start, gic_init, arch_enable_irq
  <2> QED BY <2>1, <2>2
<1>8. CASE write_cntv_ctl
  <2>1. /\ pc' = "arch_enable_irq" /\ ctl' = TRUE /\ owed' \in Int
        /\ UNCHANGED <<freq, left, since, active, gic>>
    BY <1>8 DEF write_cntv_ctl
  <2> QED BY <2>1
<1>3. CASE timer_init
  BY <1>3, TickInterval, TimerAssumption DEF timer_init
<1>4. CASE gic_handle_irq
  BY <1>4 DEF gic_handle_irq, Signal, Line
<1>5. CASE timer_handle_irq \/ thread_tick_irq \/ end_of_interrupt
  <2>1. /\ pc' \in TimerPcs /\ ~Disabled /\ ~Disabled'
        /\ owed' \in Int /\ since' \in 0 .. MAX_SINCE
        /\ UNCHANGED <<freq, left, ctl, gic>>
    BY <1>5, TimerAssumption DEF timer_handle_irq, thread_tick_irq, end_of_interrupt
  <2>2. active' \in BOOLEAN
    BY <1>5 DEF timer_handle_irq, thread_tick_irq, end_of_interrupt
  <2> QED BY <2>1, <2>2
<1>6. CASE write_cntv_tval
  BY <1>6, TickInterval DEF write_cntv_tval, IntervalInv, Unset
<1>7. ASSUME NEW m, KernelMasks(m)
      PROVE  TimerTypeOK'
  BY <1>7 DEF KernelMasks
<1> QED BY <1>1, <1>2, <1>3, <1>4, <1>5, <1>6, <1>7, <1>8 DEF TimerNext, CpuStep

(* Every step keeps the invariant.                                         *)
LEMMA TimerInvStep == TimerInv /\ [TimerNext]_timerVars => TimerInv'
<1> SUFFICES ASSUME TimerInv, [TimerNext]_timerVars
             PROVE  TimerInv'
  OBVIOUS
<1>0. CASE UNCHANGED timerVars
  BY <1>0 DEF timerVars, TimerInv, TimerTypeOK, Disabled, Unset, HandlerInv,
              Signal, IntervalInv, EveryExpiryOnce, Line
<1>1. ASSUME TimerNext
      PROVE  TimerInv'
  <2>0. TimerTypeOK /\ TimerTypeOK'
    BY <1>1, TimerTypeStep DEF TimerInv
  <2>1. /\ left \in Nat /\ owed \in Int /\ since \in Nat /\ MAX_SINCE \in Nat
        /\ since <= MAX_SINCE /\ (ctl <=> ~Disabled) /\ freq \in FREQS
    BY <2>0, TimerAssumption DEF TimerTypeOK
  <2>2. /\ tick_interval(freq) \in Nat \ {0}
        /\ tick_interval(freq) <= MAX_SINCE
    BY <2>1, TickInterval
  <2> USE DEF TimerInv, Disabled, Unset, HandlerInv, Signal, IntervalInv,
              EveryExpiryOnce, Line, Step
  <2>3. CASE count
    <3>1. /\ left' = IF left = 0 THEN 0 ELSE left - 1
          /\ owed' = IF ctl /\ left = 1 THEN owed + 1 ELSE owed
          /\ since' = IF since = MAX_SINCE THEN since ELSE since + 1
          /\ UNCHANGED <<pc, freq, interval, ctl, gic, active, iar>>
      BY <2>3 DEF count
    <3>2. HandlerInv'
      BY <2>1, <3>1
    <3>3. IntervalInv'
      BY <2>1, <2>2, <3>1
    <3>4. (Disabled => owed = 0)'
      BY <2>1, <3>1
    <3>5. EveryExpiryOnce'
      BY <2>1, <3>1
    <3> QED BY <2>0, <3>2, <3>3, <3>4, <3>5
  <2>4. CASE take_irq
    BY <2>0, <2>1, <2>4 DEF take_irq
  <2>5. CASE gic_init \/ arch_enable_irq
    BY <2>0, <2>1, <2>5 DEF gic_init, arch_enable_irq
  <2>6. CASE timer_init
    BY <2>0, <2>1, <2>2, <2>6 DEF timer_init
  <2>7. CASE write_cntv_ctl
    BY <2>0, <2>1, <2>7 DEF write_cntv_ctl
  <2>8. CASE thread_start
    BY <2>0, <2>1, <2>8 DEF thread_start
  <2>9. CASE gic_handle_irq
    BY <2>0, <2>1, <2>9 DEF gic_handle_irq
  <2>10. CASE timer_handle_irq
    BY <2>0, <2>1, <2>10 DEF timer_handle_irq
  <2>11. CASE write_cntv_tval
    BY <2>0, <2>1, <2>2, <2>11 DEF write_cntv_tval
  <2>12. CASE thread_tick_irq
    BY <2>0, <2>1, <2>12 DEF thread_tick_irq
  <2>13. CASE end_of_interrupt
    BY <2>0, <2>1, <2>13 DEF end_of_interrupt
  <2>14. ASSUME NEW m, KernelMasks(m)
         PROVE  TimerInv'
    BY <2>0, <2>1, <2>14 DEF KernelMasks
  <2> QED BY <1>1, <2>3, <2>4, <2>5, <2>6, <2>7, <2>8, <2>9, <2>10, <2>11,
             <2>12, <2>13, <2>14 DEF TimerNext, CpuStep
<1> QED BY <1>0, <1>1

(* Every expiry of the timer becomes one tick, however long IRQs stay      *)
(* masked, and none is handled twice (timer_handle_irq, gic_handle_irq).   *)
THEOREM TimerCountsEveryExpiry == TimerSpec => []EveryExpiryOnce
<1>1. TimerInv => EveryExpiryOnce
  BY DEF TimerInv
<1> QED BY <1>1, TimerInvInit, TimerInvStep, PTL DEF TimerSpec

(* Ticks are a millisecond apart, rounded down to whole counter steps, at  *)
(* any counter frequency (timer_init's interval, the reload in             *)
(* timer_handle_irq).                                                      *)
THEOREM TimerNeverEarly == TimerSpec => NeverEarly
<1> DEFINE Early == pc = "timer_handle_irq" /\ pc' # pc =>
                      since >= 1 /\ 1000 * (since + 1) > freq
<1>1. TimerInv => Early
  <2> SUFFICES ASSUME TimerInv, pc = "timer_handle_irq"
               PROVE  since >= 1 /\ 1000 * (since + 1) > freq
    OBVIOUS
  <2>1. /\ since \in Nat /\ freq \in FREQS /\ freq \in Nat
        /\ since >= tick_interval(freq)
    BY TimerAssumption
       DEF TimerInv, TimerTypeOK, HandlerInv, IntervalInv, Unset
  <2>2. /\ tick_interval(freq) \in Nat \ {0}
        /\ freq < 1000 * (tick_interval(freq) + 1)
    BY <2>1, TickInterval
  <2> QED BY <2>1, <2>2
<1>2. TimerInv /\ [TimerNext]_timerVars => [Early]_timerVars
  BY <1>1
<1> QED BY <1>2, TimerInvInit, TimerInvStep, PTL DEF TimerSpec, NeverEarly
=============================================================================
