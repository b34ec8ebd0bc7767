----------------------------- MODULE BenchStats -----------------------------
(***************************************************************************)
(* The latency benchmark's arithmetic (el0/user_tasks.c): a batch of timed *)
(* calls per test, of which the failed ones leave no sample, then an       *)
(* insertion sort and a median.  Both batches use the same array, so the   *)
(* second starts from what the first left there.                           *)
(***************************************************************************)
EXTENDS Integers, Sequences

CONSTANTS
  ITER,        (* BENCH_ITERATIONS                                         *)
  WORD         (* number of values of a word: 2^64                         *)

ASSUME BenchAssumption == ITER \in Nat \ {0} /\ WORD \in Nat \ {0}

Words == 0 .. WORD - 1
Slots == 0 .. ITER - 1
UNSET == -1    (* a slot of the stack array nothing was written to         *)

VARIABLES
  test,        (* the test that runs: "sys_write", then "ipc_roundtrip"    *)
  at,          (* where it is: "collect", "sort", "shift" or "emit"        *)
  samples, success_count, min_cycles, max_cycles, total_cycles, failures,
  i, j, key,   (* loop counters and locals                                 *)
  median_cycles,
  taken        (* history: how long the calls that succeeded really took   *)

results  == <<min_cycles, max_cycles, total_cycles, failures>>
sortVars == <<j, key>>
benchVars == <<test, at, samples, success_count, results, i, sortVars,
               median_cycles, taken>>

(* Unsigned arithmetic.                                                    *)
Plus(a, b)  == IF a + b >= WORD THEN a + b - WORD ELSE a + b
Minus(a, b) == IF a >= b THEN a - b ELSE a - b + WORD

-----------------------------------------------------------------------------
(* The head of either collection: the results are reset, the array is not. *)
BenchInit ==
  /\ test = "sys_write" /\ at = "collect"
  /\ samples = [s \in Slots |-> UNSET]
  /\ success_count = 0
  /\ min_cycles = 0 /\ max_cycles = 0 /\ total_cycles = 0 /\ failures = 0
  /\ i = 0 /\ j = 0 /\ key = 0 /\ median_cycles = 0
  /\ taken = <<>>

(* Mutant: the smallest sample is compared with the initial zero.          *)
sample_min_from_zero(start, end, took) ==
  /\ success_count' = success_count + 1
  /\ samples' = [samples EXCEPT ![success_count] = Minus(end, start)]
  /\ total_cycles' = Plus(total_cycles, Minus(end, start))
  /\ min_cycles' = IF Minus(end, start) < min_cycles
                   THEN Minus(end, start) ELSE min_cycles
  /\ max_cycles' = IF Minus(end, start) > max_cycles
                   THEN Minus(end, start) ELSE max_cycles
  /\ taken' = Append(taken, took)
  /\ UNCHANGED failures

(* A call between start and end: elapsed is their difference as words.     *)
sample(start, end, took) ==
  LET elapsed == Minus(end, start) IN
  /\ success_count' = success_count + 1
  /\ samples' = [samples EXCEPT ![success_count] = elapsed]
  /\ total_cycles' = Plus(total_cycles, elapsed)
  /\ min_cycles' = IF success_count + 1 = 1 \/ elapsed < min_cycles
                   THEN elapsed ELSE min_cycles
  /\ max_cycles' = IF elapsed > max_cycles THEN elapsed ELSE max_cycles
  /\ taken' = Append(taken, took)
  /\ UNCHANGED failures

(* One round of either loop.  The counter may wrap during the call, which  *)
(* may fail.                                                               *)
round ==
  /\ at = "collect" /\ i < ITER
  /\ i' = i + 1
  /\ \/ \E start, took \in Words : sample(start, Plus(start, took), took)
     \/ /\ failures' = failures + 1
        /\ UNCHANGED <<samples, success_count, min_cycles, max_cycles,
                       total_cycles, taken>>
  /\ UNCHANGED <<test, at, sortVars, median_cycles>>

bench_collect_write_samples == test = "sys_write" /\ round
bench_collect_ipc_samples   == test = "ipc_roundtrip" /\ round

(* The loop ends and bench_median_u64 is entered: nothing to sort gives a  *)
(* median of zero.                                                         *)
collected ==
  /\ at = "collect" /\ i = ITER
  /\ IF success_count = 0
     THEN at' = "emit" /\ median_cycles' = 0 /\ UNCHANGED i
     ELSE at' = "sort" /\ i' = 1 /\ UNCHANGED median_cycles
  /\ UNCHANGED <<test, samples, success_count, results, sortVars, taken>>

(* bench_sort_u64: the outer loop takes the next key out,                  *)
take_key ==
  /\ at = "sort" /\ i < success_count
  /\ key' = samples[i] /\ j' = i
  /\ at' = "shift"
  /\ UNCHANGED <<test, samples, success_count, results, i, median_cycles,
                 taken>>

(* the inner loop moves the larger ones up,                                *)
shift ==
  /\ at = "shift" /\ j > 0 /\ samples[j - 1] > key
  /\ samples' = [samples EXCEPT ![j] = samples[j - 1]]
  /\ j' = j - 1
  /\ UNCHANGED <<test, at, success_count, results, i, key, median_cycles,
                 taken>>

(* and the key goes into the gap.                                          *)
put_key ==
  /\ at = "shift" /\ ~(j > 0 /\ samples[j - 1] > key)
  /\ samples' = [samples EXCEPT ![j] = key]
  /\ i' = i + 1 /\ at' = "sort"
  /\ UNCHANGED <<test, success_count, results, sortVars, median_cycles, taken>>

(* Mutant: the two middle samples are added before they are halved.        *)
middle_by_sum ==
  LET mid == success_count \div 2 IN
  IF success_count % 2 = 0
  THEN Plus(samples[mid - 1], samples[mid]) \div 2
  ELSE samples[mid]

(* The rest of bench_median_u64.                                           *)
middle ==
  LET mid == success_count \div 2 IN
  IF success_count % 2 = 0
  THEN LET lower == samples[mid - 1]
           upper == samples[mid]
       IN  Plus(lower, Minus(upper, lower) \div 2)
  ELSE samples[mid]

bench_median_u64 ==
  /\ at = "sort" /\ i >= success_count
  /\ median_cycles' = middle
  /\ at' = "emit"
  /\ UNCHANGED <<test, samples, success_count, results, i, sortVars, taken>>

(* Mutant: the second collection goes on adding to the first one's total.  *)
next_test_same_total ==
  /\ at = "emit" /\ test = "sys_write"
  /\ test' = "ipc_roundtrip" /\ at' = "collect"
  /\ success_count' = 0 /\ i' = 0 /\ taken' = <<>>
  /\ min_cycles' = 0 /\ max_cycles' = 0 /\ failures' = 0
  /\ UNCHANGED <<samples, total_cycles, sortVars, median_cycles>>

(* The first test's line is out: the second collection begins.             *)
next_test ==
  /\ at = "emit" /\ test = "sys_write"
  /\ test' = "ipc_roundtrip" /\ at' = "collect"
  /\ success_count' = 0 /\ i' = 0 /\ taken' = <<>>
  /\ min_cycles' = 0 /\ max_cycles' = 0 /\ total_cycles' = 0 /\ failures' = 0
  /\ UNCHANGED <<samples, sortVars, median_cycles>>

BenchNext ==
  \/ bench_collect_write_samples \/ bench_collect_ipc_samples
  \/ collected \/ take_key \/ shift \/ put_key \/ bench_median_u64
  \/ next_test

BenchSpec == BenchInit /\ [][BenchNext]_benchVars

-----------------------------------------------------------------------------
(* The ways to put n things in order.                                      *)
Orders(n) == {p \in [1 .. n -> 1 .. n] :
                \A a, b \in 1 .. n : p[a] = p[b] => a = b}

(* m is the median of a sequence: put in ascending order, its middle, or   *)
(* the mean of its two middle ones rounded down.                           *)
MedianOf(m, seq) ==
  LET n == Len(seq) IN
  \E p \in Orders(n) :
    /\ \A a, b \in 1 .. n : a < b => seq[p[a]] <= seq[p[b]]
    /\ m = (seq[p[(n + 1) \div 2]] + seq[p[n \div 2 + 1]]) \div 2

(* The median on the line (bench_median_u64) is that of the calls of this  *)
(* test that succeeded, computed without wrapping around, whatever the     *)
(* failures left of the array and the other test left in it; zero without  *)
(* a success.                                                              *)
MedianExact ==
  at = "emit" => IF taken = <<>> THEN median_cycles = 0
                                 ELSE MedianOf(median_cycles, taken)

(* The smallest and the largest time on the line belong to calls that      *)
(* succeeded and bound all of them, and every call is a success or a       *)
(* failure (bench_collect_write_samples, bench_collect_ipc_samples).       *)
ExtremesExact ==
  at = "emit" =>
    /\ Len(taken) + failures = ITER
    /\ \A n \in 1 .. Len(taken) :
         min_cycles <= taken[n] /\ taken[n] <= max_cycles
    /\ taken # <<>> =>
         \E n, m \in 1 .. Len(taken) :
           taken[n] = min_cycles /\ taken[m] = max_cycles

(* The total on the line is of this test alone: it lies between as many    *)
(* times the smallest and the largest as there were successes, unless it   *)
(* may have wrapped around.                                                *)
TotalPlausible ==
  at = "emit" /\ success_count * max_cycles < WORD =>
    /\ success_count * min_cycles <= total_cycles
    /\ total_cycles <= success_count * max_cycles
=============================================================================
