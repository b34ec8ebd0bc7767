------------------------------ MODULE Deadline ------------------------------
(***************************************************************************)
(* The clock of task A (el0/user_tasks.c): a deadline on the tick counter, *)
(* both of them unsigned words that wrap around, compared by the sign of   *)
(* their difference.                                                       *)
(***************************************************************************)
EXTENDS Integers

CONSTANTS
  WORD,        (* number of values of a word: 2^64                         *)
  PERIOD,      (* ticks between two writes: 200                            *)
  MAX_LAG      (* bound: ticks by which a poll may come late               *)

ASSUME DeadlineAssumption ==
  /\ WORD \in Nat /\ PERIOD \in Nat \ {0} /\ MAX_LAG \in Nat
  /\ 2 * PERIOD < WORD /\ 2 * MAX_LAG < WORD

Words == 0 .. WORD - 1

VARIABLES
  ticks,       (* g_sched_ticks                                            *)
  nextWrite,   (* task A's local next                                      *)
  due          (* history: ticks, in real time, until the deadline         *)

deadlineVars == <<ticks, nextWrite, due>>

Plus(a, b)  == IF a + b >= WORD THEN a + b - WORD ELSE a + b
Minus(a, b) == IF a >= b THEN a - b ELSE a - b + WORD

(* The value of a word as a signed number.                                 *)
Signed(a) == IF 2 * a >= WORD THEN a - WORD ELSE a

(* Mutant: the words are compared as they are.                             *)
reached_unsigned(now, target) == now >= target

tick_reached(now, target) == Signed(Minus(now, target)) >= 0

DeadlineInit ==
  /\ ticks \in Words
  /\ nextWrite = Plus(ticks, PERIOD)
  /\ due = PERIOD

(* thread_tick_irq: the tick is counted.                                   *)
count_tick ==
  /\ due > -MAX_LAG
  /\ ticks' = Plus(ticks, 1)
  /\ due' = due - 1
  /\ UNCHANGED nextWrite

(* The program starts: the first deadline is a period from now.            *)
start ==
  /\ nextWrite' = Plus(ticks, PERIOD)
  /\ due' = PERIOD
  /\ UNCHANGED ticks

(* The next deadline is a period after the last, however late the write    *)
(* was, so that a late one does not delay the others.                      *)
advance ==
  /\ nextWrite' = Plus(nextWrite, PERIOD)
  /\ due' = due + PERIOD
  /\ UNCHANGED ticks

(* A poll that finds the deadline reached writes and advances it.          *)
write == tick_reached(ticks, nextWrite) /\ advance

DeadlineNext == count_tick \/ start \/ write

DeadlineSpec == DeadlineInit /\ [][DeadlineNext]_deadlineVars

-----------------------------------------------------------------------------
(* Across any number of wrap-arounds of both words the comparison tells    *)
(* whether the deadline has passed in real time, as long as nobody is late *)
(* by half the words' range.                                               *)
DeadlineExact == tick_reached(ticks, nextWrite) <=> due <= 0

(* The two words are as far apart as the deadline is in real time, so late *)
(* writes are caught up with and none is dropped.                          *)
DistanceKept == Signed(Minus(nextWrite, ticks)) = due
=============================================================================
