----------------------------- MODULE RoundRobin -----------------------------
(***************************************************************************)
(* Fairness of the round robin of pick_next_thread, under any client of    *)
(* the thread layer.  A history variable counts, for every task, the       *)
(* choices in a row that passed it over although it could have run.        *)
(***************************************************************************)
EXTENDS Thread

VARIABLE passed  (* choices since each task was last chosen or unable      *)

rrVars == <<threadVars, passed>>

RRInit == ThreadInit /\ passed = [s \in UserSlots |-> 0]

(* A choice passes over the tasks that could run and are not chosen.       *)
Choice ==
  /\ thread_resched_point_pick
  /\ passed' = [s \in UserSlots |->
       IF thread_is_selectable(s) /\ s # next' THEN passed[s] + 1 ELSE 0]

(* What the history variable does in any step of the layer or of a client. *)
Passes == Choice \/ (~thread_resched_point_pick /\ UNCHANGED passed)

RRNext == ThreadNext /\ Passes

RRSpec == RRInit /\ [][RRNext]_rrVars
-----------------------------------------------------------------------------
(* A task that can run is passed over at most once for each other user     *)
(* task, whatever the tasks do, block, wake, die and restart in between.   *)
BoundedBypass == \A s \in UserSlots : passed[s] <= THREAD_COUNT - 2
=============================================================================
