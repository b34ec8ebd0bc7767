-------------------------- MODULE BenchStatsProofs --------------------------
(***************************************************************************)
(* Proofs about the benchmark's arithmetic, for any number of iterations   *)
(* and words of any size.                                                  *)
(***************************************************************************)
EXTENDS BenchStats, TLAPS

(* The array with the key that is out of it back in its gap.               *)
Held == [s \in Slots |-> IF at = "shift" /\ s = j THEN key ELSE samples[s]]

(* What the variables range over, and what the counters count.             *)
Counts ==
  /\ at \in {"collect", "sort", "shift", "emit"}
  /\ samples \in [Slots -> Words \cup {UNSET}]
  /\ taken \in Seq(Words)
  /\ success_count = Len(taken) /\ failures \in Nat /\ i \in Nat
  /\ IF at = "collect" THEN i <= ITER /\ success_count + failures = i
                       ELSE success_count + failures = ITER

(* The samples are the times taken, in some order.                         *)
Rearranged ==
  \E p \in Orders(success_count) :
    \A n \in 1 .. success_count : Held[n - 1] = taken[p[n]]

(* The results so far bound what was taken so far.                         *)
Bounds ==
  /\ min_cycles \in Words /\ max_cycles \in Words
  /\ taken = <<>> => max_cycles = 0
  /\ \A n \in 1 .. Len(taken) :
       min_cycles <= taken[n] /\ taken[n] <= max_cycles
  /\ taken # <<>> =>
       \E n, m \in 1 .. Len(taken) :
         taken[n] = min_cycles /\ taken[m] = max_cycles

(* The samples below i are in order.                                       *)
Prefix ==
  at = "sort" =>
    /\ i \in 1 .. success_count
    /\ \A a, b \in 0 .. i - 1 : a < b => samples[a] <= samples[b]

(* Those up to i are, but for the gap, and the key belongs below those     *)
(* above the gap.                                                          *)
Gap ==
  at = "shift" =>
    /\ i \in 1 .. success_count - 1 /\ j \in 0 .. i /\ key \in Words
    /\ \A a, b \in 0 .. i :
         a < b /\ a # j /\ b # j => samples[a] <= samples[b]
    /\ \A b \in 0 .. i : j < b => key < samples[b]

(* The inductive invariant.                                                *)
BInv == Counts /\ Rearranged /\ Bounds /\ Prefix /\ Gap /\ MedianExact

-----------------------------------------------------------------------------
(* The difference of two readings of the counter is the time between them, *)
(* whether it wrapped around or not.                                       *)
LEMMA Elapsed ==
  ASSUME NEW start \in Words, NEW took \in Words
  PROVE  Minus(Plus(start, took), start) = took
BY BenchAssumption DEF Words, Plus, Minus

(* Two things of an order exchanged are still in some order.               *)
LEMMA Exchange ==
  ASSUME NEW n \in Nat, NEW p \in Orders(n), NEW a \in 1 .. n, NEW b \in 1 .. n
  PROVE  [p EXCEPT ![a] = p[b], ![b] = p[a]] \in Orders(n)
<1> DEFINE q == [p EXCEPT ![a] = p[b], ![b] = p[a]]
<1>1. p \in [1 .. n -> 1 .. n]
      /\ \A c, d \in 1 .. n : p[c] = p[d] => c = d
  BY DEF Orders
<1>2. q \in [1 .. n -> 1 .. n]
  BY <1>1
<1>3. ASSUME NEW c \in 1 .. n, NEW d \in 1 .. n, q[c] = q[d]
      PROVE  c = d
  <2>1. /\ q[a] = p[b] /\ q[b] = p[a]
        /\ \A e \in 1 .. n \ {a, b} : q[e] = p[e]
    BY <1>1
  <2> HIDE DEF q
  <2>2. CASE c \in {a, b}
    BY <1>1, <1>3, <2>1, <2>2
  <2>3. CASE c \notin {a, b}
    BY <1>1, <1>3, <2>1, <2>3
  <2> QED BY <2>2, <2>3
<1> QED BY <1>2, <1>3 DEF Orders

(* An order with one thing more after the others.                          *)
LEMMA Extend ==
  ASSUME NEW n \in Nat, NEW p \in Orders(n)
  PROVE  [x \in 1 .. n + 1 |-> IF x = n + 1 THEN n + 1 ELSE p[x]]
           \in Orders(n + 1)
<1> DEFINE q == [x \in 1 .. n + 1 |-> IF x = n + 1 THEN n + 1 ELSE p[x]]
<1>1. p \in [1 .. n -> 1 .. n]
      /\ \A c, d \in 1 .. n : p[c] = p[d] => c = d
  BY DEF Orders
<1>2. q \in [1 .. n + 1 -> 1 .. n + 1]
  BY <1>1
<1>3. ASSUME NEW c \in 1 .. n + 1, NEW d \in 1 .. n + 1, q[c] = q[d]
      PROVE  c = d
  BY <1>1, <1>3
<1> QED BY <1>2, <1>3 DEF Orders

-----------------------------------------------------------------------------
(* Nothing was taken yet.                                                  *)
LEMMA BInvInit == BenchInit => BInv
<1> SUFFICES ASSUME BenchInit PROVE BInv
  OBVIOUS
<1> USE BenchAssumption DEF BenchInit
<1>1. Counts
  BY DEF Counts, Words
<1>2. Rearranged
  <2>1. [x \in 1 .. 0 |-> x] \in Orders(0)
    BY DEF Orders
  <2> QED BY <2>1 DEF Rearranged
<1>3. Bounds
  BY DEF Bounds, Words
<1> QED BY <1>1, <1>2, <1>3 DEF BInv, Prefix, Gap, MedianExact

(* A round of either collection adds a sample at the end, or none.         *)
LEMMA BInvRound == BInv /\ round => BInv'
<1> SUFFICES ASSUME BInv, round PROVE BInv'
  OBVIOUS
<1> USE BenchAssumption
<1>1. /\ at = "collect" /\ at' = "collect" /\ i < ITER /\ i' = i + 1
  BY DEF round
<1>2. CASE \E start, took \in Words : sample(start, Plus(start, took), took)
  <2>1. PICK start \in Words, took \in Words :
          sample(start, Plus(start, took), took)
    BY <1>2
  <2>2. /\ success_count' = success_count + 1
        /\ samples' = [samples EXCEPT ![success_count] = took]
        /\ min_cycles' = IF success_count + 1 = 1 \/ took < min_cycles
                         THEN took ELSE min_cycles
        /\ max_cycles' = IF took > max_cycles THEN took ELSE max_cycles
        /\ taken' = Append(taken, took)
        /\ failures' = failures
    BY <2>1, Elapsed DEF sample
  <2>3. /\ taken \in Seq(Words) /\ success_count = Len(taken)
        /\ success_count \in Slots /\ success_count \in Nat
        /\ failures \in Nat /\ i \in Nat
        /\ success_count + failures = i
        /\ samples \in [Slots -> Words \cup {UNSET}]
    BY <1>1 DEF BInv, Counts, Slots
  <2>4. /\ Len(taken') = success_count + 1
        /\ taken' \in Seq(Words)
        /\ taken'[success_count + 1] = took
        /\ \A n \in 1 .. success_count : taken'[n] = taken[n]
    BY <2>2, <2>3
  <2>5. Counts'
    <3>1. samples' \in [Slots -> Words \cup {UNSET}]
      BY <2>2, <2>3
    <3>2. i' <= ITER /\ success_count' + failures' = i'
      BY <1>1, <2>2, <2>3
    <3> QED BY <1>1, <2>2, <2>3, <2>4, <3>1, <3>2 DEF Counts
  <2>6. Rearranged'
    <3>1. PICK p \in Orders(success_count) :
            \A n \in 1 .. success_count : Held[n - 1] = taken[p[n]]
      BY DEF BInv, Rearranged
    <3> DEFINE q == [x \in 1 .. success_count + 1 |->
                       IF x = success_count + 1 THEN success_count + 1
                                                ELSE p[x]]
    <3>2. q \in Orders(success_count + 1)
      BY <2>3, Extend
    <3>3. ASSUME NEW n \in 1 .. success_count + 1
          PROVE  Held'[n - 1] = taken'[q[n]]
      <4>1. n - 1 \in Slots
        BY <2>3, <3>3 DEF Slots
      <4>2. Held'[n - 1] = samples'[n - 1]
        BY <1>1, <4>1 DEF Held
      <4>3. CASE n = success_count + 1
        BY <2>2, <2>3, <2>4, <4>1, <4>2, <4>3
      <4>4. CASE n # success_count + 1
        <5>1. n \in 1 .. success_count /\ q[n] = p[n]
          BY <2>3, <3>3, <4>4
        <5>2. p[n] \in 1 .. success_count
          BY <5>1, <3>1 DEF Orders
        <5>3. samples'[n - 1] = samples[n - 1]
          BY <2>2, <2>3, <4>1, <4>4
        <5>4. Held[n - 1] = samples[n - 1]
          BY <1>1, <4>1 DEF Held
        <5> QED BY <2>4, <3>1, <4>2, <5>1, <5>2, <5>3, <5>4
      <4> QED BY <4>3, <4>4
    <3> HIDE DEF q
    <3>4. \E o \in Orders(success_count + 1) :
            \A n \in 1 .. success_count + 1 : Held'[n - 1] = taken'[o[n]]
      BY <3>2, <3>3
    <3> QED BY <2>2, <3>4 DEF Rearranged
  <2>7. Bounds'
    <3>1. Bounds
      BY DEF BInv
    <3>2. CASE success_count = 0
      <4>1. max_cycles = 0
        BY <2>3, <3>1, <3>2 DEF Bounds
      <4>2. min_cycles' = took /\ max_cycles' = took
        BY <2>2, <3>2, <4>1 DEF Words
      <4> QED BY <2>3, <2>4, <3>2, <4>2 DEF Bounds, Words
    <3>3. CASE success_count # 0
      <4>1. /\ min_cycles \in Words /\ max_cycles \in Words
            /\ \A n \in 1 .. success_count :
                 min_cycles <= taken[n] /\ taken[n] <= max_cycles
        BY <2>3, <3>1 DEF Bounds
      <4>2. PICK n \in 1 .. success_count, m \in 1 .. success_count :
              taken[n] = min_cycles /\ taken[m] = max_cycles
        BY <2>3, <3>1, <3>3 DEF Bounds
      <4>3. /\ min_cycles' = IF took < min_cycles THEN took ELSE min_cycles
            /\ min_cycles' \in Words /\ max_cycles' \in Words
        BY <2>2, <2>3, <3>3, <4>1
      <4>4. ASSUME NEW x \in 1 .. success_count + 1
            PROVE  min_cycles' <= taken'[x] /\ taken'[x] <= max_cycles'
        <5>1. CASE x = success_count + 1
          BY <2>2, <2>4, <4>1, <4>3, <5>1 DEF Words
        <5>2. CASE x # success_count + 1
          <6>1. x \in 1 .. success_count /\ taken[x] \in Words
            BY <2>3, <4>4, <5>2
          <6> QED BY <2>2, <2>4, <4>1, <4>3, <6>1 DEF Words
        <5> QED BY <5>1, <5>2
      <4>5. /\ \E x \in 1 .. success_count + 1 : taken'[x] = min_cycles'
            /\ \E x \in 1 .. success_count + 1 : taken'[x] = max_cycles'
        <5>1. /\ n \in 1 .. success_count + 1 /\ m \in 1 .. success_count + 1
              /\ success_count + 1 \in 1 .. success_count + 1
          BY <2>3
        <5> QED BY <2>2, <2>4, <4>2, <4>3, <5>1
      <4>6. \E x, y \in 1 .. success_count + 1 :
              taken'[x] = min_cycles' /\ taken'[y] = max_cycles'
        BY <4>5
      <4>7. taken' # <<>>
        BY <2>3, <2>4
      <4> QED BY <2>4, <4>3, <4>4, <4>6, <4>7 DEF Bounds
    <3> QED BY <3>2, <3>3
  <2> QED BY <1>1, <2>5, <2>6, <2>7 DEF BInv, Prefix, Gap, MedianExact
<1>3. CASE /\ failures' = failures + 1
           /\ UNCHANGED <<samples, success_count, min_cycles, max_cycles,
                          total_cycles, taken>>
  <2>1. Counts'
    BY <1>1, <1>3 DEF BInv, Counts
  <2>2. Held' = Held
    BY <1>1, <1>3 DEF Held
  <2>3. Rearranged'
    BY <1>3, <2>2 DEF BInv, Rearranged
  <2>4. Bounds'
    BY <1>3 DEF BInv, Bounds
  <2> QED BY <1>1, <2>1, <2>3, <2>4 DEF BInv, Prefix, Gap, MedianExact
<1> QED BY <1>2, <1>3 DEF round

(* The batch is complete: the first sample alone is in order.              *)
LEMMA BInvCollected == BInv /\ collected => BInv'
<1> SUFFICES ASSUME BInv, collected PROVE BInv'
  OBVIOUS
<1>1. /\ at = "collect" /\ i = ITER /\ at' \in {"emit", "sort"}
      /\ UNCHANGED <<samples, success_count, min_cycles, max_cycles,
                     failures, taken>>
  BY DEF collected, results
<1>2. success_count \in Nat /\ success_count = Len(taken) /\ taken \in Seq(Words)
  BY DEF BInv, Counts
<1>3. Counts'
  BY <1>1, BenchAssumption DEF BInv, Counts, collected
<1>4. Held' = Held
  BY <1>1 DEF Held
<1>5. Rearranged'
  BY <1>1, <1>4 DEF BInv, Rearranged
<1>6. Bounds'
  BY <1>1 DEF BInv, Bounds
<1>7. Prefix'
  BY <1>1, <1>2 DEF collected, Prefix
<1>8. MedianExact'
  BY <1>1, <1>2 DEF collected, MedianExact
<1> QED BY <1>1, <1>3, <1>5, <1>6, <1>7, <1>8 DEF BInv, Gap

(* The next key is taken: its slot is the gap.                             *)
LEMMA BInvTakeKey == BInv /\ take_key => BInv'
<1> SUFFICES ASSUME BInv, take_key PROVE BInv'
  OBVIOUS
<1>1. /\ at = "sort" /\ at' = "shift" /\ i < success_count
      /\ key' = samples[i] /\ j' = i
      /\ UNCHANGED <<samples, success_count, min_cycles, max_cycles,
                     failures, i, taken>>
  BY DEF take_key, results
<1>2. /\ success_count \in 0 .. ITER /\ success_count = Len(taken)
      /\ taken \in Seq(Words) /\ i \in 1 .. success_count
  BY <1>1, BenchAssumption DEF BInv, Counts, Prefix
<1>3. Counts'
  BY <1>1 DEF BInv, Counts
<1>4. Held' = Held
  BY <1>1 DEF Held
<1>5. Rearranged'
  BY <1>1, <1>4 DEF BInv, Rearranged
<1>6. Bounds'
  BY <1>1 DEF BInv, Bounds
<1>7. samples[i] \in Words
  <2>1. PICK p \in Orders(success_count) :
          \A n \in 1 .. success_count : Held[n - 1] = taken[p[n]]
    BY DEF BInv, Rearranged
  <2>2. i + 1 \in 1 .. success_count /\ p[i + 1] \in 1 .. success_count
    BY <1>1, <1>2, <2>1 DEF Orders
  <2>3. Held[i] = samples[i]
    BY <1>1, <1>2, BenchAssumption DEF Held, Slots
  <2>4. (i + 1) - 1 = i
    BY <1>2
  <2>5. Held[i] = taken[p[i + 1]]
    BY <2>1, <2>2, <2>4
  <2> QED BY <1>2, <2>2, <2>3, <2>5
<1>8. Gap'
  BY <1>1, <1>2, <1>7 DEF BInv, Prefix, Gap
<1> QED BY <1>1, <1>3, <1>5, <1>6, <1>8 DEF BInv, Prefix, MedianExact

(* A larger sample moves up: with the key in its gap, two things changed   *)
(* places.                                                                 *)
LEMMA BInvShift == BInv /\ shift => BInv'
<1> SUFFICES ASSUME BInv, shift PROVE BInv'
  OBVIOUS
<1> USE BenchAssumption
<1>1. /\ at = "shift" /\ at' = "shift" /\ j > 0 /\ samples[j - 1] > key
      /\ samples' = [samples EXCEPT ![j] = samples[j - 1]]
      /\ j' = j - 1
      /\ UNCHANGED <<success_count, min_cycles, max_cycles, failures, i, key,
                     taken>>
  BY DEF shift, results
<1>2. /\ success_count \in 0 .. ITER /\ success_count = Len(taken)
      /\ samples \in [Slots -> Words \cup {UNSET}]
      /\ i \in 1 .. success_count - 1 /\ j \in 0 .. i /\ key \in Words
      /\ \A a, b \in 0 .. i :
           a < b /\ a # j /\ b # j => samples[a] <= samples[b]
      /\ \A b \in 0 .. i : j < b => key < samples[b]
  BY <1>1 DEF BInv, Counts, Gap
<1>3. /\ j \in Slots /\ j - 1 \in Slots /\ 0 .. i \subseteq Slots
      /\ j - 1 \in 0 .. i
  BY <1>1, <1>2 DEF Slots
<1>4. Counts'
  BY <1>1, <1>2, <1>3 DEF BInv, Counts
<1>5. /\ samples'[j] = samples[j - 1]
      /\ \A s \in Slots : s # j => samples'[s] = samples[s]
  BY <1>1, <1>2, <1>3
<1>6. Rearranged'
  <2>1. PICK p \in Orders(success_count) :
          \A n \in 1 .. success_count : Held[n - 1] = taken[p[n]]
    BY DEF BInv, Rearranged
  <2> DEFINE q == [p EXCEPT ![j] = p[j + 1], ![j + 1] = p[j]]
  <2>2. /\ j \in 1 .. success_count /\ j + 1 \in 1 .. success_count
        /\ success_count \in Nat
    BY <1>1, <1>2
  <2>3. q \in Orders(success_count)
    BY <2>1, <2>2, Exchange
  <2>4. p \in [1 .. success_count -> 1 .. success_count]
    BY <2>1 DEF Orders
  <2>5. ASSUME NEW n \in 1 .. success_count
        PROVE  Held'[n - 1] = taken[q[n]]
    <3>1. n - 1 \in Slots
      BY <1>2, <2>5 DEF Slots
    <3>2. CASE n = j
      <4>1. Held'[n - 1] = key
        BY <1>1, <3>1, <3>2 DEF Held
      <4>2. Held[j] = key
        BY <1>1, <1>3 DEF Held
      <4>3. (j + 1) - 1 = j
        BY <1>2
      <4>4. Held[j] = taken[p[j + 1]]
        BY <2>1, <2>2, <4>3
      <4>5. q[n] = p[j + 1]
        BY <1>2, <2>2, <2>4, <3>2
      <4> QED BY <4>1, <4>2, <4>4, <4>5
    <3>3. CASE n = j + 1
      <4>1. n - 1 = j /\ j # j - 1
        BY <1>2, <3>3
      <4>2. Held'[n - 1] = samples[j - 1]
        BY <1>1, <1>5, <3>1, <4>1 DEF Held
      <4>3. Held[j - 1] = samples[j - 1]
        BY <1>1, <1>3, <4>1 DEF Held
      <4>4. Held[j - 1] = taken[p[j]]
        BY <2>1, <2>2
      <4>5. q[n] = p[j]
        BY <2>2, <2>4, <3>3
      <4> QED BY <4>2, <4>3, <4>4, <4>5
    <3>4. CASE n # j /\ n # j + 1
      <4>1. n - 1 # j /\ n - 1 # j - 1
        BY <1>2, <3>4
      <4>2. Held'[n - 1] = samples[n - 1]
        BY <1>1, <1>5, <3>1, <4>1 DEF Held
      <4>3. Held[n - 1] = samples[n - 1]
        BY <3>1, <4>1 DEF Held
      <4>4. q[n] = p[n]
        BY <2>4, <3>4
      <4> QED BY <2>1, <4>2, <4>3, <4>4
    <3> QED BY <3>2, <3>3, <3>4
  <2> HIDE DEF q
  <2> QED BY <1>1, <2>3, <2>5 DEF Rearranged
<1>7. Bounds'
  BY <1>1 DEF BInv, Bounds
<1>8. ASSUME NEW a \in 0 .. i, NEW b \in 0 .. i, a < b, a # j - 1, b # j - 1
      PROVE  samples'[a] <= samples'[b]
  <2>1. a \in Slots /\ b \in Slots
    BY <1>3
  <2>2. CASE b = j
    <3>1. a < j - 1 /\ a # j
      BY <1>2, <1>8, <2>2
    <3>2. samples[a] <= samples[j - 1]
      BY <1>2, <1>3, <3>1
    <3> QED BY <1>5, <2>1, <2>2, <3>1, <3>2
  <2>3. CASE a = j
    <3>1. j - 1 < b /\ b # j /\ j - 1 # j
      BY <1>2, <1>8, <2>3
    <3>2. samples[j - 1] <= samples[b]
      BY <1>2, <1>3, <3>1
    <3> QED BY <1>5, <2>1, <2>3, <3>1, <3>2
  <2>4. CASE a # j /\ b # j
    BY <1>2, <1>5, <1>8, <2>1, <2>4
  <2> QED BY <2>2, <2>3, <2>4
<1>9. ASSUME NEW b \in 0 .. i, j - 1 < b
      PROVE  key < samples'[b]
  <2>1. CASE b = j
    BY <1>1, <1>5, <2>1
  <2>2. CASE b # j
    BY <1>2, <1>3, <1>5, <1>9, <2>2
  <2> QED BY <2>1, <2>2
<1>10. Gap'
  BY <1>1, <1>2, <1>3, <1>8, <1>9 DEF Gap
<1> QED BY <1>1, <1>4, <1>6, <1>7, <1>10 DEF BInv, Prefix, MedianExact

(* The key goes into its gap: one more sample is in order.                 *)
LEMMA BInvPutKey == BInv /\ put_key => BInv'
<1> SUFFICES ASSUME BInv, put_key PROVE BInv'
  OBVIOUS
<1> USE BenchAssumption
<1>1. /\ at = "shift" /\ at' = "sort" /\ ~(j > 0 /\ samples[j - 1] > key)
      /\ samples' = [samples EXCEPT ![j] = key]
      /\ i' = i + 1
      /\ UNCHANGED <<success_count, min_cycles, max_cycles, failures, taken>>
  BY DEF put_key, results
<1>2. /\ success_count \in 0 .. ITER /\ success_count = Len(taken)
      /\ samples \in [Slots -> Words \cup {UNSET}]
      /\ i \in 1 .. success_count - 1 /\ j \in 0 .. i /\ key \in Words
      /\ \A a, b \in 0 .. i :
           a < b /\ a # j /\ b # j => samples[a] <= samples[b]
      /\ \A b \in 0 .. i : j < b => key < samples[b]
  BY <1>1 DEF BInv, Counts, Gap
<1>3. j \in Slots /\ 0 .. i \subseteq Slots
  BY <1>2 DEF Slots
<1>4. Counts'
  BY <1>1, <1>2, <1>3 DEF BInv, Counts
<1>5. /\ samples'[j] = key
      /\ \A s \in Slots : s # j => samples'[s] = samples[s]
  BY <1>1, <1>2, <1>3
<1>6. Held' = Held
  BY <1>1, <1>5 DEF Held
<1>7. Rearranged'
  BY <1>1, <1>6 DEF BInv, Rearranged
<1>8. Bounds'
  BY <1>1 DEF BInv, Bounds
<1>9. ASSUME NEW a \in 0 .. i, NEW b \in 0 .. i, a < b
      PROVE  samples'[a] <= samples'[b]
  <2>1. a \in Slots /\ b \in Slots
    BY <1>3
  <2>2. CASE b = j
    <3>1. /\ a \in Int /\ j \in Int /\ a <= j - 1 /\ a # j
          /\ j - 1 \in 0 .. i /\ j - 1 \in Slots /\ j - 1 # j
      BY <1>2, <1>9, <2>2 DEF Slots
    <3>2. samples[j - 1] \in Int /\ key \in Int
      BY <1>2, <3>1 DEF Words, UNSET
    <3>3. samples[j - 1] <= key
      BY <1>1, <3>1, <3>2
    <3>4. samples[a] <= samples[j - 1]
      <4>1. CASE a = j - 1
        BY <3>2, <4>1
      <4>2. CASE a < j - 1
        BY <1>2, <3>1, <4>2
      <4> QED BY <3>1, <4>1, <4>2
    <3>5. samples[a] \in Int
      BY <1>2, <2>1 DEF Words, UNSET
    <3>6. samples[a] <= key
      BY <3>2, <3>3, <3>4, <3>5
    <3> QED BY <1>5, <2>1, <2>2, <3>1, <3>6
  <2>3. CASE a = j
    <3>1. b # j /\ key < samples[b] /\ samples[b] \in Int /\ key \in Int
      BY <1>2, <1>9, <2>1, <2>3 DEF Words, UNSET
    <3> QED BY <1>5, <2>1, <2>3, <3>1
  <2>4. CASE a # j /\ b # j
    BY <1>2, <1>5, <1>9, <2>1, <2>4
  <2> QED BY <2>2, <2>3, <2>4
<1>10. Prefix'
  <2>1. i' \in 1 .. success_count' /\ i' - 1 = i
    BY <1>1, <1>2
  <2> QED BY <1>9, <2>1 DEF Prefix
<1> QED BY <1>1, <1>4, <1>7, <1>8, <1>10 DEF BInv, Gap, MedianExact

(* The mean of two words, taken by halves, is their mean.                  *)
LEMMA Halves ==
  ASSUME NEW lower \in Words, NEW upper \in Words, lower <= upper
  PROVE  Plus(lower, Minus(upper, lower) \div 2) = (lower + upper) \div 2
BY BenchAssumption DEF Words, Plus, Minus

(* All is in order when the outer loop ends, so the middle is the median.  *)
LEMMA BInvMedian == BInv /\ bench_median_u64 => BInv'
<1> SUFFICES ASSUME BInv, bench_median_u64 PROVE BInv'
  OBVIOUS
<1> USE BenchAssumption
<1>1. /\ at = "sort" /\ at' = "emit" /\ i >= success_count
      /\ median_cycles' = middle
      /\ UNCHANGED <<samples, success_count, min_cycles, max_cycles,
                     failures, i, taken>>
  BY DEF bench_median_u64, results
<1>2. /\ success_count \in 1 .. ITER /\ success_count = Len(taken)
      /\ taken \in Seq(Words) /\ i = success_count
      /\ \A a, b \in 0 .. success_count - 1 :
           a < b => samples[a] <= samples[b]
  BY <1>1 DEF BInv, Counts, Prefix
<1>3. Counts'
  BY <1>1 DEF BInv, Counts
<1>4. Held' = Held
  BY <1>1 DEF Held
<1>5. Rearranged'
  BY <1>1, <1>4 DEF BInv, Rearranged
<1>6. Bounds'
  BY <1>1 DEF BInv, Bounds
<1>7. MedianOf(middle, taken)
  <2>1. PICK p \in Orders(success_count) :
          \A n \in 1 .. success_count : Held[n - 1] = taken[p[n]]
    BY DEF BInv, Rearranged
  <2>2. ASSUME NEW n \in 1 .. success_count
        PROVE  /\ samples[n - 1] = taken[p[n]]
               /\ samples[n - 1] \in Words
    <3>1. n - 1 \in Slots
      BY <1>2 DEF Slots
    <3>2. Held[n - 1] = samples[n - 1]
      BY <1>1, <3>1 DEF Held
    <3>3. p[n] \in 1 .. success_count
      BY <2>1 DEF Orders
    <3> QED BY <1>2, <2>1, <3>2, <3>3
  <2>3. \A a, b \in 1 .. success_count : a < b => taken[p[a]] <= taken[p[b]]
    <3> SUFFICES ASSUME NEW a \in 1 .. success_count,
                        NEW b \in 1 .. success_count, a < b
                 PROVE  taken[p[a]] <= taken[p[b]]
      OBVIOUS
    <3>1. /\ a - 1 \in 0 .. success_count - 1
          /\ b - 1 \in 0 .. success_count - 1 /\ a - 1 < b - 1
      BY <1>2
    <3> QED BY <1>2, <2>2, <3>1
  <2> DEFINE mid == success_count \div 2
             lo  == taken[p[(success_count + 1) \div 2]]
             hi  == taken[p[mid + 1]]
  <2>4. middle = (lo + hi) \div 2
    <3>1. CASE success_count % 2 = 0
      <4>1. /\ (success_count + 1) \div 2 = mid
            /\ mid \in 1 .. success_count /\ mid + 1 \in 1 .. success_count
            /\ (mid + 1) - 1 = mid /\ mid < mid + 1
        BY <1>2, <3>1
      <4>2. /\ samples[mid - 1] = lo /\ samples[mid - 1] \in Words
            /\ samples[mid] = hi /\ samples[mid] \in Words
        BY <2>2, <4>1
      <4>3. lo <= hi
        BY <2>3, <4>1
      <4>4. middle = Plus(lo, Minus(hi, lo) \div 2)
        BY <3>1, <4>2 DEF middle
      <4> QED BY <4>2, <4>3, <4>4, Halves
    <3>2. CASE success_count % 2 # 0
      <4>1. /\ (success_count + 1) \div 2 = mid + 1
            /\ mid + 1 \in 1 .. success_count /\ (mid + 1) - 1 = mid
        BY <1>2, <3>2
      <4>2. samples[mid] = hi /\ samples[mid] \in Words /\ lo = hi
        BY <2>2, <4>1
      <4>3. middle = hi
        BY <3>2, <4>2 DEF middle
      <4>4. hi \in Nat
        BY <4>2 DEF Words
      <4>5. (hi + hi) \div 2 = hi
        BY <4>4
      <4> QED BY <4>2, <4>3, <4>5
    <3> QED BY <3>1, <3>2
  <2> HIDE DEF mid
  <2> QED BY <1>2, <2>1, <2>3, <2>4 DEF MedianOf, mid
<1>8. MedianExact'
  <2>1. taken # <<>>
    BY <1>2
  <2> QED BY <1>1, <1>7, <2>1 DEF MedianExact
<1> QED BY <1>1, <1>3, <1>5, <1>6, <1>8 DEF BInv, Prefix, Gap

(* The second collection starts from no samples.                           *)
LEMMA BInvNextTest == BInv /\ next_test => BInv'
<1> SUFFICES ASSUME BInv, next_test PROVE BInv'
  OBVIOUS
<1> USE BenchAssumption
<1>1. Counts'
  BY DEF BInv, Counts, next_test
<1>2. Rearranged'
  <2>1. [x \in 1 .. 0 |-> x] \in Orders(0)
    BY DEF Orders
  <2> QED BY <2>1 DEF Rearranged, next_test
<1>3. Bounds'
  BY DEF Bounds, Words, next_test
<1> QED BY <1>1, <1>2, <1>3 DEF BInv, Prefix, Gap, MedianExact, next_test

LEMMA BInvStep == BInv /\ [BenchNext]_benchVars => BInv'
<1>1. BInv /\ UNCHANGED benchVars => BInv'
  BY DEF benchVars, results, sortVars, BInv, Counts, Rearranged, Held, Bounds,
         Prefix, Gap, MedianExact
<1> QED BY <1>1, BInvRound, BInvCollected, BInvTakeKey, BInvShift, BInvPutKey,
           BInvMedian, BInvNextTest
        DEF BenchNext, bench_collect_write_samples, bench_collect_ipc_samples

(* The median of every line is the median of what was measured, for any    *)
(* number of iterations, any pattern of failures and any times             *)
(* (bench_sort_u64, bench_median_u64).                                     *)
THEOREM MedianCorrect == BenchSpec => []MedianExact
<1>1. BInv => MedianExact
  BY DEF BInv
<1> QED BY <1>1, BInvInit, BInvStep, PTL DEF BenchSpec

(* So are its extremes, and no call is lost between them and the failures  *)
(* (bench_collect_write_samples, bench_collect_ipc_samples).               *)
THEOREM ExtremesCorrect == BenchSpec => []ExtremesExact
<1>1. BInv => ExtremesExact
  BY DEF BInv, Counts, Bounds, ExtremesExact
<1> QED BY <1>1, BInvInit, BInvStep, PTL DEF BenchSpec

-----------------------------------------------------------------------------
(* The total so far, unless it may have wrapped around.                    *)
Total ==
  /\ total_cycles \in Words
  /\ success_count * max_cycles < WORD =>
       /\ success_count * min_cycles <= total_cycles
       /\ total_cycles <= success_count * max_cycles

(* Products grow with their factors.                                       *)
LEMMA Products ==
  ASSUME NEW n \in Nat, NEW a \in Nat, NEW b \in Nat, a <= b
  PROVE  /\ n * a \in Nat /\ n * b \in Nat /\ n * a <= n * b
         /\ (n + 1) * b = n * b + b
OBVIOUS

(* A sample between the new extremes keeps the total between them.         *)
LEMMA OneMore ==
  ASSUME NEW n \in Nat, NEW w \in Nat, NEW total \in Nat, NEW took \in Nat,
         NEW lo \in Nat, NEW hi \in Nat, NEW lo2 \in Nat, NEW hi2 \in Nat,
         n * hi < w => n * lo <= total /\ total <= n * hi,
         lo2 <= took, took <= hi2, hi <= hi2, n # 0 => lo2 <= lo,
         (n + 1) * hi2 < w
  PROVE  /\ total + took < w
         /\ (n + 1) * lo2 <= total + took /\ total + took <= (n + 1) * hi2
<1>1. /\ n * hi \in Nat /\ n * hi2 \in Nat /\ n * hi <= n * hi2
      /\ (n + 1) * hi2 = n * hi2 + hi2
  BY Products
<1>2. n * hi < w
  BY <1>1
<1>3. n * lo2 \in Nat /\ (n + 1) * lo2 = n * lo2 + lo2
  BY Products
<1>4. n * lo2 <= total
  <2>1. CASE n = 0
    BY <2>1
  <2>2. CASE n # 0
    <3>1. n * lo \in Nat /\ n * lo2 <= n * lo
      BY <2>2, Products
    <3> QED BY <1>2, <1>3, <3>1
  <2> QED BY <2>1, <2>2
<1> QED BY <1>1, <1>2, <1>3, <1>4

(* Every step keeps the total plausible; the second collection restarts it *)
(* together with the number of samples.                                    *)
LEMMA TotalStep ==
  BInv /\ Total /\ [BenchNext]_benchVars => Total'
<1> SUFFICES ASSUME BInv, Total, [BenchNext]_benchVars PROVE Total'
  OBVIOUS
<1> USE BenchAssumption
<1>1. CASE /\ round
           /\ \E start, took \in Words : sample(start, Plus(start, took), took)
  <2>1. PICK start \in Words, took \in Words :
          sample(start, Plus(start, took), took)
    BY <1>1
  <2> DEFINE n == success_count
  <2>2. /\ n' = n + 1
        /\ total_cycles' = Plus(total_cycles, took)
        /\ min_cycles' = IF n + 1 = 1 \/ took < min_cycles
                         THEN took ELSE min_cycles
        /\ max_cycles' = IF took > max_cycles THEN took ELSE max_cycles
    BY <2>1, Elapsed DEF sample
  <2>3. /\ n \in Nat /\ min_cycles \in Words /\ max_cycles \in Words
        /\ total_cycles \in Words
    BY DEF BInv, Counts, Bounds, Total
  <2>4. /\ min_cycles' \in Words /\ max_cycles' \in Words
        /\ max_cycles <= max_cycles'
        /\ min_cycles' <= took /\ took <= max_cycles'
        /\ n # 0 => min_cycles' <= min_cycles
    BY <2>2, <2>3 DEF Words
  <2>5. total_cycles' \in Words
    BY <2>2, <2>3 DEF Words, Plus
  <2>6. ASSUME (n + 1) * max_cycles' < WORD
        PROVE  /\ (n + 1) * min_cycles' <= total_cycles'
               /\ total_cycles' <= (n + 1) * max_cycles'
    <3>1. /\ min_cycles' \in Nat /\ max_cycles' \in Nat /\ n \in Nat
          /\ min_cycles \in Nat /\ max_cycles \in Nat /\ took \in Nat
          /\ total_cycles \in Nat /\ WORD \in Nat
      BY <2>3, <2>4 DEF Words
    <3>2. n * max_cycles < WORD =>
            n * min_cycles <= total_cycles /\ total_cycles <= n * max_cycles
      BY DEF Total
    <3>3. /\ total_cycles + took < WORD
          /\ (n + 1) * min_cycles' <= total_cycles + took
          /\ total_cycles + took <= (n + 1) * max_cycles'
      <4> HIDE DEF n
      <4> QED BY <2>4, <2>6, <3>1, <3>2, OneMore, Zenon
    <3>4. total_cycles' = total_cycles + took
      BY <2>2, <3>1, <3>3 DEF Plus
    <3> QED BY <3>3, <3>4, Zenon
  <2> QED BY <2>2, <2>5, <2>6 DEF Total
<1>2. CASE UNCHANGED <<success_count, min_cycles, max_cycles, total_cycles>>
  BY <1>2 DEF Total
<1>3. CASE next_test
  BY <1>3 DEF next_test, Total, Words
<1> QED
  BY <1>1, <1>2, <1>3
     DEF BenchNext, bench_collect_write_samples, bench_collect_ipc_samples,
         round, collected, take_key, shift, put_key, bench_median_u64,
         benchVars, results

(* A total that cannot have wrapped around lies between as many times the  *)
(* smallest and the largest sample: it is of one test, and counts every    *)
(* sample (bench_collect_write_samples, bench_collect_ipc_samples).        *)
THEOREM TotalCorrect == BenchSpec => []TotalPlausible
<1>1. BenchInit => Total
  BY BenchAssumption DEF BenchInit, Total, Words
<1>2. Total => TotalPlausible
  BY DEF Total, TotalPlausible
<1> QED BY <1>1, <1>2, BInvInit, BInvStep, TotalStep, PTL DEF BenchSpec
=============================================================================
