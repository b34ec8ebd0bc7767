------------------------------- MODULE System -------------------------------
(***************************************************************************)
(* The shipped system: the kernel under the three EL0 programs of          *)
(* kernel/el0/user_tasks.c.  Task A prints or runs a benchmark, task B is  *)
(* the UART server that crashes once, task C the supervisor (in LATENCY    *)
(* the echo server of the bench endpoint).                                 *)
(*                                                                         *)
(* A program step is one system call, whose result the next step of the    *)
(* same task finds in x0, or a local decision; pc names the next step.     *)
(* The programs' svcs lie in the code region in front of the stacks, so    *)
(* the ELR behind them is in the sandbox.                                  *)
(* The samples of the benchmarks and their statistics are left out.        *)
(***************************************************************************)
EXTENDS Kernel, Deadline, Sequences

CONSTANTS
  SETTLE,            (* yields of bench_settle                             *)
  BENCH_ITERATIONS,  (* samples of each latency benchmark                  *)
  EMITS              (* writes that print a benchmark's result             *)

ASSUME SystemAssumption ==
  /\ {SETTLE, BENCH_ITERATIONS, EMITS} \subseteq Nat \ {0}
  /\ THREAD_SLOT_TASK_A \notin {THREAD_SLOT_TASK_B, THREAD_SLOT_TASK_C}

A == THREAD_SLOT_TASK_A
B == THREAD_SLOT_TASK_B
C == THREAD_SLOT_TASK_C

TASK_A_MSG    == 2   (* sizeof(g_task_a_msg) - 1                           *)
BENCH_PAYLOAD == 1   (* BENCH_WRITE_ and BENCH_IPC_PAYLOAD_SIZE            *)
NOTICE_MSG    == 1   (* stands for the length of a ready or restarted line *)

(* Lengths holds every length the programs pass, and the messages of task  *)
(* A fit an endpoint.                                                      *)
ASSUME LengthsAssumption ==
  /\ {0, TASK_A_MSG, BENCH_PAYLOAD, NOTICE_MSG, IPC_MSG_SIZE} \subseteq Lengths
  /\ {TASK_A_MSG, BENCH_PAYLOAD} \subseteq 0 .. IPC_MSG_SIZE

VARIABLES
  pc,        (* the next step of each program                              *)
  section,   (* benchmarks: the section of the script task A is in         *)
  count,     (* benchmarks: iterations of the section that are done        *)
  failures,  (* benchmarks: calls that did not return the payload's size   *)
  crashed,   (* g_uart_server_crashed_once; in the EL0 data, which a       *)
             (* restart does not reload                                    *)
  printed    (* history: bytes of A's last message that reached the UART   *)

programVars == <<pc, deadlineVars, section, count, failures, crashed, printed>>
sysVars == <<vars, programVars>>

Off == BENCH_MODE = "OFF"

(* The entry points: __el0_task_a_entry, __el0_task_b_entry and            *)
(* __el0_task_c_entry.                                                     *)
Entry(t) ==
  IF t = A THEN (IF Off THEN "start" ELSE "bench")
  ELSE IF Off THEN "ready"
  ELSE IF t = B \/ BENCH_MODE = "LATENCY" THEN "recv" ELSE "wait"

SysInit ==
  /\ Init
  /\ DeadlineInit /\ ticks = 0
  /\ pc = [t \in {A, B, C} |-> Entry(t)]
  /\ section = 1
  /\ count = 0
  /\ failures = 0
  /\ crashed = FALSE
  /\ printed = 0

(* Task t goes from one step of its program to another.                    *)
Goes(t, from, to) ==
  /\ At("el0") /\ current = t
  /\ pc[t] = from
  /\ pc' = [pc EXCEPT ![t] = to]

(* A write of task A; one that is routed is printed later.                 *)
TaskAWrite(len) ==
  /\ SYS_write(len, TRUE, TRUE)
  /\ printed' = IF RoutesWrite THEN 0 ELSE len

-----------------------------------------------------------------------------
(* Task A in BENCH_MODE OFF                                                *)

task_a_start ==
  /\ Goes(A, "start", "poll")
  /\ SYS_time_ticks
  /\ start
  /\ UNCHANGED <<section, count, failures, crashed, printed>>

task_a_poll ==
  /\ Goes(A, "poll", "check")
  /\ SYS_time_ticks
  /\ UNCHANGED <<deadlineVars, section, count, failures, crashed, printed>>

(* No tick comes between the call and the comparison of its result.        *)
task_a_write ==
  /\ Goes(A, "check", "written")
  /\ tick_reached(ticks, nextWrite)
  /\ TaskAWrite(TASK_A_MSG)
  /\ UNCHANGED <<deadlineVars, section, count, failures, crashed>>

task_a_yield ==
  /\ IF pc[A] = "written" THEN Goes(A, "written", "poll") /\ advance
     ELSE /\ Goes(A, "check", "poll")
          /\ ~tick_reached(ticks, nextWrite)
          /\ UNCHANGED deadlineVars
  /\ SYS_yield(TRUE)
  /\ UNCHANGED <<section, count, failures, crashed, printed>>

-----------------------------------------------------------------------------
(* Task A in the benchmark modes                                           *)

Section(op, times, isMeasured) ==
  [op |-> op, times |-> times, isMeasured |-> isMeasured]

bench_run_latency ==
  << Section("yield", SETTLE, FALSE),
     Section("write", 1, FALSE),
     Section("call", 1, FALSE),
     Section("write", BENCH_ITERATIONS, TRUE),
     Section("write", EMITS, FALSE),
     Section("call", BENCH_ITERATIONS, TRUE),
     Section("write", EMITS, FALSE) >>

bench_run_recovery ==
  << Section("yield", SETTLE, FALSE),
     Section("write", 1, TRUE),
     Section("write", EMITS, FALSE) >>

Script ==
  IF BENCH_MODE = "LATENCY" THEN bench_run_latency
  ELSE IF BENCH_MODE = "RECOVERY" THEN bench_run_recovery ELSE << >>

Finished == section > Len(Script)

(* The call of the current section; yields without end after the last.     *)
bench_call ==
  LET op == IF Finished THEN "yield" ELSE Script[section].op IN
  /\ Goes(A, "bench", "returned")
  /\ IF op = "write" THEN TaskAWrite(BENCH_PAYLOAD)
     ELSE /\ UNCHANGED printed
          /\ IF op = "call"
             THEN SYS_ipc_call(EP_BENCH, BENCH_PAYLOAD, BENCH_PAYLOAD, TRUE,
                               TRUE)
             ELSE SYS_yield(TRUE)
  /\ UNCHANGED <<deadlineVars, section, count, failures, crashed>>

(* The loop around it: count a failure of a measured call, go on.          *)
bench_next ==
  /\ Goes(A, "returned", "bench")
  /\ IF Finished THEN UNCHANGED <<section, count, failures>>
     ELSE LET isLast == count + 1 >= Script[section].times IN
          /\ count' = IF isLast THEN 0 ELSE count + 1
          /\ section' = IF isLast THEN section + 1 ELSE section
          /\ failures' =
               IF Script[section].isMeasured /\ x0[A] # BENCH_PAYLOAD
               THEN failures + 1 ELSE failures
  /\ UNCHANGED <<vars, deadlineVars, crashed, printed>>

-----------------------------------------------------------------------------
(* Task B, the UART server                                                 *)

uart_ready ==
  /\ Goes(B, "ready", "recv")
  /\ SYS_write(NOTICE_MSG, TRUE, TRUE)
  /\ UNCHANGED <<deadlineVars, section, count, failures, crashed, printed>>

uart_recv ==
  /\ Goes(B, "recv", "got")
  /\ SYS_ipc_recv(EP_UART, IPC_MSG_SIZE, TRUE, TRUE)
  /\ UNCHANGED <<deadlineVars, section, count, failures, crashed, printed>>

(* Mutant: the request is acknowledged before it is written.               *)
uart_reply_first ==
  /\ Goes(B, "got", "served")
  /\ SYS_ipc_reply(EP_UART, 0, TRUE)
  /\ UNCHANGED <<deadlineVars, section, count, failures, crashed, printed>>

(* Only task A writes through the endpoint, so the bytes are A's.          *)
uart_write ==
  /\ Goes(B, "got", "written")
  /\ x0[B] # FAIL
  /\ SYS_write(x0[B], TRUE, TRUE)
  /\ printed' = printed + x0[B]
  /\ UNCHANGED <<deadlineVars, section, count, failures, crashed>>

(* Mutant: the loop goes on without a reply.                               *)
uart_reply_forgotten ==
  /\ Goes(B, "written", "recv")
  /\ UNCHANGED <<vars, deadlineVars, section, count, failures, crashed,
                 printed>>

uart_reply ==
  /\ Goes(B, "written", "served")
  /\ SYS_ipc_reply(EP_UART, 0, TRUE)
  /\ UNCHANGED <<deadlineVars, section, count, failures, crashed, printed>>

CrashesNow == BENCH_MODE # "LATENCY" /\ ~crashed

(* Mutant: the flag is not set.                                            *)
uart_crash_again ==
  /\ Goes(B, "served", "crashed")
  /\ CrashesNow
  /\ thread_user_fault(TRUE)
  /\ UNCHANGED <<deadlineVars, section, count, failures, crashed, printed>>

(* brk #0 after the first request that was served.                         *)
uart_crash ==
  /\ Goes(B, "served", "crashed")
  /\ CrashesNow
  /\ crashed' = TRUE
  /\ thread_user_fault(TRUE)
  /\ UNCHANGED <<deadlineVars, section, count, failures, printed>>

uart_again ==
  /\ IF pc[B] = "got" THEN x0[B] = FAIL /\ Goes(B, "got", "recv")
     ELSE ~CrashesNow /\ Goes(B, "served", "recv")
  /\ UNCHANGED <<vars, deadlineVars, section, count, failures, crashed,
                 printed>>

-----------------------------------------------------------------------------
(* Task C, the echo server of LATENCY                                      *)

echo_recv ==
  /\ BENCH_MODE = "LATENCY"
  /\ Goes(C, "recv", "got")
  /\ SYS_ipc_recv(EP_BENCH, IPC_MSG_SIZE, TRUE, TRUE)
  /\ UNCHANGED <<deadlineVars, section, count, failures, crashed, printed>>

echo_reply ==
  /\ BENCH_MODE = "LATENCY"
  /\ Goes(C, "got", "recv")
  /\ IF x0[C] # FAIL THEN SYS_ipc_reply(EP_BENCH, x0[C], TRUE)
     ELSE UNCHANGED vars
  /\ UNCHANGED <<deadlineVars, section, count, failures, crashed, printed>>

(* Task C, the supervisor of the other modes                               *)

sup_ready ==
  /\ Goes(C, "ready", "wait")
  /\ SYS_write(NOTICE_MSG, TRUE, TRUE)
  /\ UNCHANGED <<deadlineVars, section, count, failures, crashed, printed>>

sup_wait ==
  /\ Goes(C, "wait", "noticed")
  /\ SYS_supervise_wait(TRUE)
  /\ UNCHANGED <<deadlineVars, section, count, failures, crashed, printed>>

(* A restart sends B back to its entry point.                              *)
sup_restart ==
  /\ At("el0") /\ current = C /\ pc[C] = "noticed"
  /\ IF x0[C] = B
     THEN /\ SYS_task_restart(B)
          /\ pc' = [pc EXCEPT ![C] = "restarted",
                              ![B] = IF Restartable(B) THEN Entry(B) ELSE @]
     ELSE UNCHANGED vars /\ pc' = [pc EXCEPT ![C] = "wait"]
  /\ UNCHANGED <<deadlineVars, section, count, failures, crashed, printed>>

sup_restarted ==
  /\ Goes(C, "restarted", "wait")
  /\ IF x0[C] = 0 /\ Off THEN SYS_write(NOTICE_MSG, TRUE, TRUE)
     ELSE UNCHANGED vars
  /\ UNCHANGED <<deadlineVars, section, count, failures, crashed, printed>>

-----------------------------------------------------------------------------
TaskA == task_a_start \/ task_a_poll \/ task_a_write \/ task_a_yield
           \/ bench_call \/ bench_next

TaskB == uart_ready \/ uart_recv \/ uart_write \/ uart_reply \/ uart_crash
           \/ uart_again

TaskC == echo_recv \/ echo_reply
           \/ sup_ready \/ sup_wait \/ sup_restart \/ sup_restarted

KernelStep ==
  /\ \/ TaskReturns
     \/ SchedulerStep /\ UNCHANGED <<ipcVars, supervisorVars>>
  /\ UNCHANGED programVars

(* A timer tick is counted too, where a program reads the count.           *)
Tick ==
  /\ thread_tick_irq
  /\ IF Off /\ due > -MAX_LAG THEN count_tick ELSE UNCHANGED deadlineVars
  /\ UNCHANGED <<ipcVars, supervisorVars, pc, section, count, failures,
                 crashed, printed>>

(* What the CPU does when no interrupt comes.                              *)
CpuStep == TaskA \/ TaskB \/ TaskC \/ KernelStep

SysNext == CpuStep \/ Tick

(* The CPU goes on executing, and the timer goes on ticking: a tick that   *)
(* comes while IRQs are masked stays pending until they are opened.        *)
SysSpec == SysInit /\ [][SysNext]_sysVars
             /\ WF_sysVars(CpuStep) /\ SF_sysVars(Tick)
-----------------------------------------------------------------------------
(* Correctness                                                             *)

(* The write in progress as WriteService sees it: A is the blocked caller  *)
(* of the UART endpoint.                                                   *)
Service == INSTANCE WriteService WITH
  asked <- IF caller[EP_UART] = A THEN override[EP_UART] ELSE 0,
  printed <- printed,
  Messages <- {TASK_A_MSG, BENCH_PAYLOAD}

(* SYS_write of task A implements the abstract write service, across the   *)
(* crash and the restart of the server too.                                *)
ImplementsWriteService == Service!Spec

(* Whom a server serves: it has issued its receive, is not waiting for its *)
(* result, and has not replied.                                            *)
Serving(ep) ==
  IF \E t \in {B, C} : /\ t = owner_slot(ep) /\ receiver[ep] # t
                        /\ pc[t] \in {"got", "written"}
  THEN caller[ep] ELSE NONE

Protocol == INSTANCE Rendezvous WITH
  sender  <- [ep \in Eps |-> IF pending[ep] # NONE THEN caller[ep] ELSE NONE],
  serving <- [ep \in Eps |-> Serving(ep)]

(* The shipped servers keep the protocol under which the kernel matches    *)
(* replies to requests: they reply once to each request they receive, and  *)
(* receive only when they have replied, across the crash and the restart.  *)
KeepsProtocol == Protocol!RvSpec

(* When a write of task A has returned, the whole message has been printed *)
(* exactly once and the call has returned its length: the caller cannot    *)
(* tell that the write was routed, nor that the server crashed.            *)
WriteReturnsItsLength ==
  At("el0") /\ current = A =>
    /\ pc[A] = "written" => x0[A] = TASK_A_MSG /\ printed = TASK_A_MSG
    /\ pc[A] = "returned" /\ ~Finished /\ Script[section].op = "write"
         => x0[A] = BENCH_PAYLOAD /\ printed = BENCH_PAYLOAD

(* A dead server is never forgotten: the notice of its death waits in the  *)
(* notice slot, or the supervisor holds it and has not yet acted on it.    *)
DeathNoticeKept ==
  ustate[B] = "DEAD" =>
    \/ pendingDeath = B
    \/ pc[C] = "noticed" /\ x0[C] = B /\ ustate[C] # "BLOCKED"

(* A server that died serves again: it is restarted and comes to wait for  *)
(* requests.                                                               *)
ServerRecovers == ustate[B] = "DEAD" ~> receiver[EP_UART] = B

(* The injected crash is one-shot, although the crashed program starts     *)
(* from its entry point again.                                             *)
ServerStaysUp == <>[](ustate[B] # "DEAD")

(* docs/benchmarking.md:132: the routed write that is measured spans the   *)
(* crash and the supervised restart from the client's perspective.         *)
SpansRecovery ==
  At("el0") /\ current = A /\ pc[A] = "returned" /\ ~Finished =>
    (Script[section].op = "write" /\ Script[section].isMeasured
       => crashed /\ ustate[B] # "DEAD")

(* A benchmark comes to its end, and no measured call failed.              *)
BenchmarkSucceeds == <>(Finished /\ failures = 0)

(* docs/design.md:42: in MONO, tasks B and C remain blocked after their    *)
(* start-up lines.                                                         *)
ServersRest ==
  <>[](/\ ustate[B] = "BLOCKED" /\ receiver[EP_UART] = B
       /\ ustate[C] = "BLOCKED" /\ blockedSupervisor = C)
=============================================================================
