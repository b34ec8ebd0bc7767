# A TLA+ verification project for proto-os

proto-os (`src/proto-os`) is a small AArch64 kernel that is built in two
flavours: MONO, where `SYS_write` goes straight to the UART, and MICRO, where
it is routed by synchronous IPC to a user-space UART server that a supervisor
restarts after a crash.  This directory holds TLA+ modules translated from the
kernel's C and assembly sources, TLC configurations that check them on small
instances, and TLAPS proofs that hold for every value of the constants.

Paths below are relative to `src/proto-os/kernel`.

## 1. The system

| Component | State | Operations | Interacts with |
|---|---|---|---|
| Thread table and scheduler (`core/thread.c`) | thread and task states, return reason, saved context, quantum, `g_current`, `g_current_task`, `g_resched_pending` | choose, switch, enter EL0, trap continuation, wake, restart, tick | everything |
| Synchronous IPC (`core/ipc.c`) | per endpoint: owner, request slot, blocked caller, blocked receiver | call, routed write, receive, reply, clean-up after a death | wakes tasks, redirects traps |
| Supervision (`core/supervisor.c`) | one death notice, one waiting supervisor | note a death, wait, restart | called by the trap continuation and by system calls |
| System calls and trap entry (`core/syscall.c`, `arch/aarch64/arch.c`) | none | dispatch, fault | IPC, supervision, threads |
| EL0 programs (`el0/user_tasks.c`) | program counters, loop counters, `g_uart_server_crashed_once` | task A (client or benchmark), B (UART server), C (supervisor or echo server) | system calls only |
| Boot (`core/init.c`, `boot.S`) | - | brings up the initial state | all |
| EL0 entry and vectors (`el0_resume.S`, `vectors.S`, `user_task_return.S`, `context_switch.S`) | registers, ELR, SPSR, stacks, trap frames | save, restore, switch, `eret` | scheduler |
| Timer and GIC (`timer.c`, `gic.c`) | tick count, interval, compare value, active interrupt | acknowledge, re-arm, tick, end of interrupt | scheduler |
| Memory map and buffer checks (`mm/mmu.c`, `el0_buf_range_ok`, `el0_write_range_ok`) | page tables | check the layout, map, check a range | IPC, system calls |
| Console and formatting (`uart_*.c`, `printk.c`, `panic.c`) | transmit FIFO | print a character, a number; `panic` | all |
| Build and log scripts (`Makefile`, `scripts/`) | - | - | - |

What is hard here.  There is one CPU, but control is scattered: a trap rewrites
its own return address, a continuation runs later on the kernel stack, the
thread that went into `thread_resched_point` comes out of it an unbounded time
later, and a dead task that is restarted comes out of it too.  Timer interrupts
arrive in every window in which IRQs are open.  A result of a blocking call is
written into a saved context by another task's system call.  A server can die
with a request queued, taken or answered.  Blocking calls have no timeout, so a
lost wake-up is for ever.  `PROJECT.json` lists these hazards by source line with
the properties that cover them.

Two facts of the code shape the model:

* EL0 runs with all exceptions masked (`SPSR_EL0T_MASKED`), and so does the
  kernel until `thread_resched_point` enables IRQs.  A tick therefore never cuts an
  EL0 run short; scheduling is cooperative, and ticks fall between the choice of a
  thread, the switch to it, its landing and its return to EL0, or into the idle loop.
* `SYS_yield` and the blocking calls save the user context before the handler's
  return value reaches the trap frame.  A yield so returns with its first argument
  in x0, and a blocking call returns what its wake-up wrote there.

## 2. Modules

```
                 .--- Cpu (refines Thread) --- MCCpu
                 |
Thread ----------+--- Ipc ----------.
   |             |                   Kernel ---+--- MCKernel (with RoundRobin)
   |             `--- Supervisor ---'          |
   |                                           +--- Rendezvous --- MCRendezvous
   `--- RoundRobin                             |
                                               +--- System --- MCSystem
                       Deadline ---------------'    (refines WriteService and
                                                     Rendezvous)

AddressMap --- MCAddressMap      Timer      BenchStats

Proofs:   ThreadProofs -+- CpuProofs
                        `- KernelProofs -+- RendezvousProofs
                                         `- SystemProofs
          AddressMapProofs      TimerProofs      BenchStatsProofs
```

A line from left to right is EXTENDS.  Each `...Proofs` module extends the module it is named
after; `ThreadProofs` also holds the theorem about RoundRobin, `SystemProofs` those about
Deadline.

**Thread** models `core/thread.c`.  `phase` is the CPU's control point; `current`,
`currentTask` and `resched` are the three globals; `tstate`, `ustate`, `reason`,
`quantum` and `x0` are fields of the thread table (`x0` is the saved or live first
register, the only one whose value the kernel computes); `bootstrap` holds the
threads that have not run yet; `next` is the local of `thread_resched_point`.
`thread_resched_point` is split where an interrupt can come: the request is
consumed with IRQs masked (part of `user_task_return_step` and
`thread_resched_point_idle`), then `..._pick`, `thread_switch_to`, and
`user_task_resume` or `thread_enter_el0` are steps of their own; `el0_resume` masks
IRQs again.  A panic is a value of `panic` in an absorbing state, so its absence is
an invariant.  `ThreadSpec` closes the layer with the most general client: any call
result, any trap reason, wake-ups of any blocked tasks, restarts of any dead one.

**Cpu** is the machine under the thread layer: `vectors.S`, `el0_resume.S`,
`context_switch.S`, `user_task_return.S` and the parts of `thread.c` that build
contexts and edit trap frames.  It has PC, PSTATE, ELR, SPSR, both stack pointers, one
token for the general registers and x0 apart, the trap frames on every kernel stack and
both kinds of saved context.  Of its program a task has the points at which it traps: the
sandbox's, the address behind its last word (`LAST`) and one for all others outside (`WILD`).
An interrupt is taken wherever PSTATE.I is clear, and
nowhere is `phase` asked whether it may be: that `Thread`'s `phase` is right
about it is the refinement `ImplementsThread`.

**Ipc** and **Supervisor** model `core/ipc.c` and `core/supervisor.c` over Thread.
**Kernel** is `syscall_dispatch` and the trap entry: whenever a task is at EL0 it may
issue any call with any arguments, or fault, and the ELR of the trap may lie outside the
sandbox: after a fault there, and behind an `svc` in the sandbox's last word, which `mmu.c` makes
executable and writable for EL0.  `TaskReturns` is the continuation with
the whole clean-up after a death in the order of the code, `ipc_handle_task_death`,
`supervisor_note_task_death`.

**Rendezvous** is Kernel with servers that keep the protocol of tasks B and C: receive,
then reply once.  Two history variables say whose request is queued (`sender`) and
whose is being served (`serving`); the code stores neither.

**System** puts the three programs of `el0/user_tasks.c` on the kernel: a program step
is one system call, whose result the task's next step reads from x0, or a local
decision.  `BENCH_MODE` and `KERNEL_FLAVOR` select the build.  The benchmarks are scripts
of sections, each a loop of one call.  `printed` is a history variable: the bytes of
task A's last message that reached the UART.  **WriteService** is the abstract
specification of `SYS_write` for the client: asked, printed once, returned.  System
refines both WriteService and Rendezvous.

**RoundRobin** adds to the thread layer a count of the choices that passed each task
over.  MCKernel runs it beside Kernel.

**AddressMap** follows the kernel from `validate_el0_layout` through `mmu_init` (clear,
device blocks, kernel blocks one by one, enable) to system calls with any buffer: the
range check, then the copy byte by byte.  `Walk` is the hardware's table walk.
`el0_write_range_ok` in `syscall.c` and `el0_buf_range_ok` in `ipc.c` are the same
text, and one operator.

**Timer** is `timer.c`, `gic.c` and the start-up order of `kernel_main` against a
counter that goes on between any two steps; the rest of the kernel is reduced to when it
masks IRQs.  `left` is the distance of the counter to the compare value, `owed` the number of
expiries the tick count has not accounted for yet; absolute counts are not kept.

**Deadline** is task A's clock in the demo build: the tick counter and the deadline as
words that wrap around, and their distance in real time.  System extends it: `Tick` is its
`count_tick`, and the polls and writes of task A are its `start` and `write`, with whatever
the kernel and the crash of the server let happen in between.

**BenchStats** is the latency benchmark's collection, sort and median.

## 3. Runs and what they show

| Run | Checks | Shows |
|---|---|---|
| `kernel` | `TypeOK`, `NoInternalPanic`, `BlockedIffQueued`, `OneWaitPlace`, `NoSleepOnPending`, `DeadServerKeepsRequest`, `ResultBeforeResume`, `IdleOnlyIfStuck`, `BoundedBypass` | arbitrary programs cannot break the kernel's bookkeeping, and nobody starves while selectable |
| `rendezvous` | `RepliesMatch`, `RequestHasCaller`, `CallerIsServed` | replies reach the right caller across deaths and restarts |
| `cpu` | `ContextIntact`, `ResultDelivered`, `KernelStackBounded`, `IrqTransparent`, `ImplementsThread` | an interrupt anywhere leaves every task's registers intact, and the machine does what Thread says |
| `address_map` | `IdentityMap`, `SandboxExact`, `ExecuteApart`, `ProgramsFit`, `CopyStaysInside` | EL0 reaches the sandbox and nothing else, by itself or through the kernel |
| `timer` | `EveryExpiryOnce`, `NeverEarly`, `TicksForever` | the tick is exact and never dies |
| `bench_stats` | `MedianExact`, `ExtremesExact`, `TotalPlausible` | the benchmark's line is right |
| `micro_off` | `WriteReturnsItsLength`, `DeathNoticeKept`, `DeadlineExact`, `ImplementsWriteService`, `KeepsProtocol`, `ServerRecovers`, `ServerStaysUp` | the demo build, with its one crash: the write service and the server protocol as refinements, exact results, recovery, task A's clock |
| `micro_recovery` | `SpansRecovery`, `BenchmarkSucceeds` | the recovery sample measures what the docs say |
| `micro_latency` | `BenchmarkSucceeds` | the latency benchmark ends without failures |
| `mono_off` | `ServersRest` | in MONO nothing is routed: B and C come to rest |
| `kernel_fault`, `kernel_cleanup` | one documented claim each, violated | see section 6 |

The main properties:

* `BlockedIffQueued`, `OneWaitPlace`: a task sleeps exactly when one wait place of the
  kernel names it.  These make every wake-up hit the task it is meant for; the code
  itself checks only that the target is not dead.
* `DeadServerKeepsRequest`, `NoSleepOnPending`: no request and no notice is slept on, or
  lost with a dead server.  That none is handed to another task than the endpoint's owner
  (`WaitersAreOwners`) is proved.
* `RepliesMatch`: `ipc_syscall_reply` wakes whoever is blocked on the endpoint.  That this is
  the caller whose request was received follows from the one caller per endpoint,
  the clean-up after a death, and the servers' protocol; `KeepsProtocol` shows that the
  shipped servers follow it, and `kernel_cleanup` what happens to one that does not.
* `ResultBeforeResume` and `ResultDelivered`: a blocking call never returns the argument that
  was saved in place of its result, and the result survives the way through frame and
  context to x0.
* `ContextIntact`, `IrqTransparent`, `KernelStackBounded`: the IRQ return path
  restores neither ELR nor SPSR, a switch has a window in which `g_current` and the stack
  disagree, and a redirected trap's frame is popped by code that returns elsewhere.
  These say that none of it shows.
* `NoInternalPanic`: programs can reach no panic but the one on an ELR outside the sandbox, by a
  fault there or by a yield, an exit or a blocking call from the sandbox's last word.
* `IdleOnlyIfStuck`: the idle thread runs only when no task can ever run again.
  Idling is for ever, as no interrupt wakes a task.  The shipped task A does not end
  there: its writes return (`ImplementsWriteService`), its benchmarks end (`BenchmarkSucceeds`).
* `SandboxExact`, `ExecuteApart`, `CopyStaysInside`: isolation, by the tables and by the
  check.
* `ImplementsWriteService`, `ServerRecovers`, `DeathNoticeKept`, `ServerStaysUp`: the
  crash of the server is invisible to the client, and is repaired.
* `DeadlineExact`: the signed difference of two wrapping tick counts tells whether task A is
  due, also when the crash, the restart or a slow write made it late.

### Bounds

The kernel and system runs use the four slots of `thread.h`; `cpu` uses two tasks and the idle
thread, as its properties relate a task to at most one other.

| Bound | Code | Model | Why it is enough |
|---|---|---|---|
| `THREAD_QUANTUM_TICKS` | 10 | 1 or 2 | only "the quantum ends" and "it does not" differ; with 1 every tick ends one; the proofs cover all values |
| `IPC_MSG_SIZE`, `Lengths` | 256 | 1 with 0..2 (`kernel`, `rendezvous`), 2 with 0..2 (`System` runs) | empty, truncated, full and oversized transfers occur; the shipped programs send none that is oversized |
| `SETTLE` | 8 | 2 | one round of yields already lets B and C reach their blocking calls |
| `BENCH_ITERATIONS` in System | 1000 | 2 | a first and a later iteration |
| `EMITS` | about 20 to 100 one-call writes | 2 | the same |
| `WORD`, `PERIOD` in System | 2^64, 200 ticks | 8, 3 | the words wrap around every few writes, and A polls before and after its time has come; proved for all values |
| `MAX_LAG` in System | none | 3 | caps how late a poll of A can be, at the latest the signed comparison can bear with this word; A catches up by writing on every poll meanwhile, as in the code.  In the code the limit is 2^63 ticks; in the model ticks beyond it are not counted |
| `POINTS` in Cpu | unbounded | 2 | a task can go on at the point it left or at a wrong one; proved for all values |
| `WORD`, `BLOCK`, `TABLE` and the layout in AddressMap | 2^64, 2 MiB, 512, `config.h` | 72, 4, 4, a kernel of three blocks | two level 1 entries, two devices, kernel blocks beside the sandbox's, unmapped ones beside all, addresses above the reach of the walk, lengths that wrap around; the linker's symbols at and beside each boundary the layout checks compare them with; proved for all values |
| `FREQS`, `MAX_SINCE` in Timer | the platform's | 500, 1000, 3500 Hz; 5 | the fallback, one step and several steps a tick, with a remainder; expiries while masked for longer than an interval; proved for all values |
| `ITER`, `WORD` in BenchStats | 1000, 2^64 | 4, 6 | even and odd counts, failures anywhere, sums that wrap; proved for all values |

### Fairness

`System`: `WF(CpuStep)`: the CPU goes on executing; a timer handler returns.  `SF(Tick)`:
the timer goes on ticking.  A strong condition is justified because a timer interrupt that
arrives while IRQs are masked stays pending, and is taken the next time
`thread_resched_point` opens them; run `timer` shows this as `TicksForever`, from weaker facts.
No fairness between tasks is assumed: which task runs is the scheduler's doing, and modelled.

`Timer`: the counter counts, the CPU goes on, a kernel that has masked IRQs opens them again
(it does at every `thread_resched_point`), and an interrupt that is signalled again and
again while IRQs are open is not passed over for ever.

The other specifications state none; their properties are safety.

## 4. Abstractions

* Messages are lengths; contents are copied unchanged by the code and never looked at.
* In Kernel, whether a buffer lies in the sandbox is a Boolean input of each call (`bufOk`), and so
  is whether the ELR of a call that does not return at once does (`elrOk`).  AddressMap models
  the check of buffers.  In System both are true: the programs pass buffers of their own, and their
  `svc`s lie in the code region in front of the stacks.
* In Kernel `SYS_time_ticks` returns some number.  System keeps the tick counter and task A's
  deadline as words; the call and the comparison of its result are one step, as EL0 runs masked
  and no tick comes between them.
* System calls from EL1 happen only during boot and are left out.
* In Thread, names, stack addresses and registers other than x0 are left out; Cpu has the latter
  two.  In Cpu the general registers but x0 are one value: the code saves and loads them in a
  block, and which of the thirty is stored at which offset is not modelled.  Nested traps from
  EL1 are left out: the handlers issue no system call, and a fault in them is a panic.
* In AddressMap a loader that has left the MMU on is followed (the code returns from `mmu_init`),
  and the properties then say nothing.  Cacheability, barriers and TLB contents are left out.
* In BenchStats a call that fails leaves no sample, whatever it returned; a successful one takes
  any time less than a word's range.
* In `ipc_handle_task_death` a dying task that itself waits as a caller or receiver is
  handled as in the code, although such a task is blocked and cannot die
  (proved in `KernelProofs`).

## 5. What is proved

Every invariant and every action property that a passing run checks is a theorem here, as is every
refinement, that of WriteService for its safety part.  The theorems are for every value of the
constants that satisfies the `ASSUME`s of the modules: every number of slots, any assignment of
distinct server slots, every quantum, message size and set of lengths, every word size, every
counter frequency, every layout of memory that respects the conditions of `config.h`. One theorem,
`SystemSpansRecovery`, is about one build and says so in its hypothesis.

* `ThreadProofs`: `ThreadTypeCorrect`, `SchedulerCorrect`, `ResultCorrect`, `IdleCorrect` for
  `ThreadSpec`.  `SchedulerInv` is inductive relative to the types: it says that only the current
  task is running, that a stopped thread is a dead task, that whoever was chosen and whoever has
  landed is selectable.  `IdleCorrect` needs that the scan over a nonempty set of candidates finds
  one; this rests on the least element of a set of distances (`LeastNumber`).  `RoundRobinBypass`:
  the bound alone is not inductive.  The measure `passed[s] + UserDist(Last, s)`, with `UserDist`
  the user slots the next scan visits before s, never exceeds the number of other tasks: a choice
  that passes s over lands behind s's distance, so the distance falls by at least what the count
  grows.
* `CpuProofs`: `CpuImplementsThread`, `ContextCorrect`, `DeliveryCorrect`, `StackCorrect`,
  `IrqCorrect`.  What a register holds makes sense only together with where the CPU is, so
  `CpuInv` is a disjunction of situations: at the task, in its trap, on the way back, on the way
  to the kernel's continuation, in `el0_resume`, in the kernel with IRQs open, and in an
  interrupt. Each names the one stack with a frame, if any, and what PC, PSTATE, ELR, SPSR,
  SP_EL0, the registers and that frame hold.  The situation of an interrupt is stated in terms of
  the point it came from (`AtIrq(q, v)` beside `AtOpen(q, v)`); since the point is the same when
  the interrupt is over, that ELR and SPSR are not restored shows to be harmless: nothing between
  the frame's push and the `eret` writes them.  `Contexts` adds what is saved for everyone else.
  Under `CpuInv` each instruction is a step of Thread or a stutter, so the theorems of
  `ThreadProofs` hold of the machine, and the invariants follow from the situation at hand.
* `TimerProofs`: `TimerCountsEveryExpiry`, `TimerNeverEarly`.  `TimerInv` ties the handler's
  control point to the line (the handler runs only while it is high) and to the active interrupt,
  and the distance from the last tick to the next expiry to the interval.  An expiry is owed from
  the rise of the line until `timer_handle_irq` counts it.
* `KernelProofs`: the inductive invariant `KernelInv` is the conjunction of the types, the
  scheduler's invariant, the absence of panics, `BlockedIffQueued`, `OneWaitPlace` and
  `WaitersAreOwners`.  Each needs the others: a wake-up is harmless because its target is blocked,
  it is blocked because it is queued, and clearing the one place unqueues it because there is no
  second.  `KernelUsesThreadLayer` shows each kernel step to be a step of `ThreadSpec`; the thread
  layer's theorems then carry over (`KernelNoInternalPanic`, `KernelResults`, `KernelIdle`, and
  `KernelBypass` with the count beside the kernel).  `KernelNoSleepOnPending` and
  `KernelDeadServerKeepsRequest` are proved on top.  `SchedulerCorrect`, `KernelWaitersAreOwners`
  and `KernelUsesThreadLayer` state what no run checks.
* `RendezvousProofs`: `RepliesCorrect`, `RequestsCorrect`, `CallersCorrect`.  The inductive
  invariant `EndpointInv` adds to the three that a queued request and a served one exclude each
  other, and that a waiting receiver serves nobody; `KernelInv` holds throughout because a step of
  Rendezvous is one of Kernel.
* `AddressMapProofs`: `RangeExact` compares the range check with its purpose (each byte of the
  buffer lies in the sandbox) by arithmetic alone; `CopyConfined` follows with an invariant that
  ties `pc = "copy"` to the check.  `IdentityCorrect`, `SandboxCorrect`, `ExecuteCorrect` and
  `ProgramsCorrect` are about the tables, and rest on `MapInv`.  It has the loop invariant of
  `build_kernel` (the entries of the kernel's level 2 table below the counter are made, the others
  are empty), says which level 1 entry leads where, and that the layout checks were passed before
  the tables were begun.  `WalkIs` gives the table walk in closed form from it: the two divisions
  that take an address apart and the sum that puts it together again (`Division` and the lemmas
  after it) are what makes the map the identity.
* `BenchStatsProofs`: the samples are at any time a rearrangement of the times taken, with the key
  standing in for the gap while one is moved; the part before `i` is ordered, and behind the gap
  everything exceeds the key.  The rearrangement is an existential over permutations, so each step
  of the sort gives the new one.  `TotalCorrect` bounds the total by multiples of the extremes.

* `SystemProofs`, about the composed system in every flavour and mode:
  * `SystemIsKernel`: each program step is one of Kernel's calls or leaves the kernel alone. The
    invariant `SysInv` is `KernelInv`, the absence of panics, `ReceivedOK` (the length a server
    passes to its next call is one it was given, or it still waits) and `NoticeInv`.
    `SystemNeverPanics` and `SystemNoticeKept` come from it: only B dies, so one notice slot is
    enough.  The lemmas `...Elsewhere` say what a call may do to a task other than the caller:
    wake it with a result, and nothing else.
  * `SystemWrites` needs the stronger `ServiceInv`.  `WriteInv` follows a write from the request
    slot through the server's hands to the UART, and says at each place what was printed so far;
    `CrashInv` says that the server dies only where it has nothing in its hands.  With these,
    `SystemWritesSafely` maps each step to one of WriteService or a stutter: the safety part of
    `ImplementsWriteService`.
  * `SystemKeepsProtocol`: the system implements Rendezvous.  `ProtocolInv` is `ServiceInv` and
    `EchoInv`, which says of the benchmark endpoint what `WriteInv` says of the UART one: a
    request is in the slot, or in the hands of a server whose place in its program says so. Under
    it the history variables `sender` and `serving` of Rendezvous are functions of the endpoints,
    and each call, receive, reply and crash is a step of Rendezvous; the theorems of
    `RendezvousProofs` then hold of the shipped servers.
  * `DeadlineCorrect` and `DistanceCorrect` are about Deadline by itself: the invariant is
    `DistanceKept` with the range of `due`.  `SystemDeadline`: System's steps are steps of
    Deadline, given that the deadline found reached stays reached until the write has returned.
  * `SystemSpansRecovery`: in the recovery build of the MICRO kernel the measured write returns
    after the crash and with the server restarted.  `RecoveryInv` adds to `ProtocolInv` that a
    measured write is still blocked, or has a server that has just replied and is on the way into
    its crash, or the crash is past; and that from the server's death on the CPU is on its way to,
    or with, a task that is not the client, until the supervisor has restarted the server. The
    latter needs two facts: a supervisor that is alive while a notice is pending is not asleep
    (`SupervisorWaits`, from `NoSleepOnPending`), and the scan that starts behind the dead
    server's slot finds it before it finds the client (`PickedAway`).  The hypothesis
    `RecoveryBuild` names the mode, the flavour and that order of the slots, which is the one of
    `thread.h`; with the slots of A and C exchanged TLC finds the client back before the restart.

  System assumes of its constants that the lengths the programs use are among `Lengths`, and that
  task A's messages fit into `IPC_MSG_SIZE` (`LengthsAssumption`).

Only model-checked is liveness, which is outside what the prover supports: `ServerRecovers`,
`ServerStaysUp`, `BenchmarkSucceeds`, `ServersRest`, `TicksForever`, and that in
`ImplementsWriteService` every write asked for returns.

## 6. Where the documents and the code differ

* `kernel_fault`: `docs/design.md:43` says EL0 faults kill the current task.  A fault whose ELR
  lies outside the sandbox panics the kernel (`thread.c:502`).  So does a yield, an exit or a
  blocking call whose `svc` is the last word of the sandbox: its ELR is the sandbox's end.
* `kernel_cleanup`: `docs/design.md:88` says clean-up on a death clears pending state. The code
  does so only if a caller is blocked on the endpoint (`ipc.c:120`).  A server that replies before
  it receives leaves a request without a caller; if it then dies, calls on the endpoint fail until
  the restarted server has received it.

None of this happens with the shipped programs: `SystemNeverPanics`, `SystemWritesSafely` and
`SystemKeepsProtocol` are proved.  There also is only one notice slot, as `docs/design.md:101`
says, and a second death would overwrite the first (`supervisor.c:31`); the shipped
programs have one death per boot, and `SystemNoticeKept` proves that its notice is kept.

## 7. Not modelled, and what is left to prove

Not modelled:

* The console drivers and formatted output.  `uart_putc` polls one flag and writes one register,
  and `printk_u64` and its copies are loops over local digits; nothing of it feeds back into the
  state of the kernel.  System counts the bytes that a write hands to the UART.
* `uart_init`'s register writes and the Pi 4 mini-UART, which is an empty stub.
* Start-up before `kernel_main` (EL2 to EL1, clearing `.bss`), the boot log with its three system
  calls from EL1, `exception_sync_el1`: straight-line code with nothing beside it; what it leaves
  behind is the initial state of the models.
* The order in which registers sit in frames and contexts.
* Cacheability, barriers, TLBs.
* The check of `mmu.c` that the page tables lie in the kernel's window: they lie in `.bss`, below
  the stack top that the check before it has already found there.
* The Makefile and the log scripts.

Left to prove: a bound in place of the liveness properties where the scheduler gives one, such as
how many choices a dead server of System waits for its restart.
