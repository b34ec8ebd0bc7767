----------------------------- MODULE AddressMap -----------------------------
(***************************************************************************)
(* Memory: the layout checks of thread_system_init, the identity map built *)
(* by mmu_init (mm/mmu.c), and the range checks that guard every copy from *)
(* or to a buffer of an EL0 task (el0_buf_range_ok in core/ipc.c,          *)
(* el0_write_range_ok in core/syscall.c).                                  *)
(*                                                                         *)
(* Addresses are numbers below WORD; a table has TABLE entries, an entry   *)
(* of a level 2 table maps a block of BLOCK bytes, and TABLE * TABLE *     *)
(* BLOCK is the reach of TTBR0 under TCR_T0SZ_39BIT.  The kernel is        *)
(* followed from validate_el0_layout to the MMU's enable bit, and then     *)
(* through the copies it makes for its tasks.                              *)
(***************************************************************************)
EXTENDS Integers

CONSTANTS
  WORD,                     (* number of addresses: 2^64                   *)
  BLOCK,                    (* MMU_L2_BLOCK_SIZE                           *)
  TABLE,                    (* MMU_TABLE_ENTRIES                           *)
  KERNEL_LOAD_ADDR, KERNEL_IDMAP_SIZE,
  EL0_SANDBOX_SIZE, EL0_CODE_SIZE,
  EL0_STACKS,               (* per task [bottom, top], from config.h       *)
  GIC_MAP_BASE, PL011_MAP_BASE

EL0_SANDBOX_BASE == KERNEL_LOAD_ADDR + KERNEL_IDMAP_SIZE - EL0_SANDBOX_SIZE
EL0_SANDBOX_END  == EL0_SANDBOX_BASE + EL0_SANDBOX_SIZE
EL0_CODE_END     == EL0_SANDBOX_BASE + EL0_CODE_SIZE
KERNEL_LIMIT     == KERNEL_LOAD_ADDR + KERNEL_IDMAP_SIZE

Addresses == 0 .. WORD - 1
Sandbox   == EL0_SANDBOX_BASE .. EL0_SANDBOX_END - 1
Tasks     == DOMAIN EL0_STACKS

(* config.h: the sandbox is a part of the kernel's window behind its start,*)
(* page zero is none of it, and no address of it is the last one.          *)
ASSUME SandboxAssumption ==
  /\ WORD \in Nat /\ KERNEL_LOAD_ADDR \in Nat \ {0}
  /\ KERNEL_IDMAP_SIZE \in Nat
  /\ EL0_SANDBOX_SIZE \in 1 .. KERNEL_IDMAP_SIZE - 1
  /\ KERNEL_LIMIT < WORD

(* config.h: the tasks' stacks lie behind the code region, one behind the  *)
(* other.                                                                  *)
ASSUME StackAssumption ==
  /\ EL0_CODE_SIZE \in 0 .. EL0_SANDBOX_SIZE
  /\ EL0_STACKS \in [Tasks -> [bottom : EL0_CODE_END .. EL0_SANDBOX_END,
                               top : EL0_CODE_END .. EL0_SANDBOX_END]]
  /\ \A t \in Tasks : EL0_STACKS[t].bottom < EL0_STACKS[t].top
  /\ \A t, o \in Tasks : t # o =>
       \/ EL0_STACKS[t].top <= EL0_STACKS[o].bottom
       \/ EL0_STACKS[o].top <= EL0_STACKS[t].bottom

(* Windows are made of whole blocks within the reach, the kernel's lies    *)
(* below one level 1 entry, the devices' below another.                    *)
ASSUME MapAssumption ==
  /\ BLOCK \in Nat \ {0} /\ TABLE \in Nat \ {0}
  /\ TABLE * TABLE * BLOCK <= WORD
  /\ KERNEL_LIMIT <= TABLE * TABLE * BLOCK
  /\ {GIC_MAP_BASE, PL011_MAP_BASE} \subseteq 0 .. TABLE * TABLE * BLOCK - 1
  /\ \A a \in {KERNEL_LOAD_ADDR, EL0_SANDBOX_BASE, KERNEL_LIMIT, GIC_MAP_BASE,
               PL011_MAP_BASE} : a % BLOCK = 0
  /\ KERNEL_LOAD_ADDR \div (BLOCK * TABLE) = (KERNEL_LIMIT - 1) \div (BLOCK * TABLE)
  /\ GIC_MAP_BASE \div (BLOCK * TABLE) = PL011_MAP_BASE \div (BLOCK * TABLE)
  /\ GIC_MAP_BASE \div (BLOCK * TABLE) # KERNEL_LOAD_ADDR \div (BLOCK * TABLE)

VARIABLES
  pc,          (* the kernel's control point                               *)
  symbols,     (* what the linker chose                                    *)
  M,           (* SCTLR_EL1.M: the MMU is on                               *)
  own,         (* TTBR0_EL1 holds g_l1_table, not a loader's table         *)
  l1,          (* g_l1_table: "none", or which level 2 table               *)
  l2,          (* g_l2_low_table and g_l2_kernel_table                     *)
  i,           (* the loop counter, or offset, at hand                     *)
  buf, len     (* the arguments of the system call at hand                 *)

mapVars == <<pc, symbols, M, own, l1, l2, i, buf, len>>

-----------------------------------------------------------------------------
(* Descriptors                                                             *)

l1_index(va) == (va \div (BLOCK * TABLE)) % TABLE
l2_index(va) == (va \div BLOCK) % TABLE

Desc(valid, pa, el0, uxn, pxn) ==
  [valid |-> valid, pa |-> pa, el0 |-> el0, uxn |-> uxn, pxn |-> pxn]
(* Mutant: the descriptor of a sandbox block leaves EL1 free to execute.   *)
normal_without_pxn(pa, a) == Desc(TRUE, (pa \div BLOCK) * BLOCK, a, ~a, FALSE)

NO_DESC                  == Desc(FALSE, 0, FALSE, FALSE, FALSE)
block_desc_normal(pa, a) == Desc(TRUE, (pa \div BLOCK) * BLOCK, a, ~a, a)
block_desc_device(pa)    == Desc(TRUE, (pa \div BLOCK) * BLOCK, FALSE, TRUE, TRUE)

(* What the hardware finds for va: bits above the reach fault (T0SZ, EPD1).*)
Walk(va) ==
  IF va >= TABLE * TABLE * BLOCK \/ l1[l1_index(va)] = "none" THEN NO_DESC
  ELSE l2[l1[l1_index(va)]][l2_index(va)]

Mapped(va)      == Walk(va).valid
Physical(va)    == Walk(va).pa + (va % BLOCK)
EL0Access(va)   == Mapped(va) /\ Walk(va).el0
EL0Executes(va) == Mapped(va) /\ ~Walk(va).uxn
EL1Executes(va) == Mapped(va) /\ ~Walk(va).pxn

-----------------------------------------------------------------------------
(* The range check                                                         *)

(* Subtraction of addresses, which wraps around.                           *)
Minus(a, b) == IF a >= b THEN a - b ELSE a - b + WORD
Plus(a, b)  == IF a + b >= WORD THEN a + b - WORD ELSE a + b

(* Mutant: the end of the buffer is compared, and may have wrapped.        *)
range_by_sum(start, n) ==
  /\ start # 0
  /\ EL0_SANDBOX_BASE <= start /\ start < EL0_SANDBOX_END
  /\ n # 0 => Plus(start, n) <= EL0_SANDBOX_END

el0_buf_range_ok(start, n) ==
  /\ start # 0
  /\ EL0_SANDBOX_BASE <= start /\ start < EL0_SANDBOX_END
  /\ n # 0 => n <= Minus(EL0_SANDBOX_END, start)

(* What it is for: the buffer starts in the sandbox, and so does every one *)
(* of its bytes, counted the way the copying loops count them.             *)
InSandbox(start, n) ==
  /\ start \in Sandbox
  /\ \A k \in 0 .. n - 1 : Plus(start, k) \in Sandbox

-----------------------------------------------------------------------------
(* Start-up                                                                *)

(* What the linker chose, its own assertions on the programs left to the   *)
(* kernel's checks; its location counter only grows, so the kernel's stack *)
(* ends below the sandbox.  boot.S clears the tables with the rest of      *)
(* .bss.  A loader may leave the MMU on.                                   *)
MapInit ==
  /\ symbols \in
       [sandboxEnd : {EL0_CODE_END - 1, EL0_CODE_END, EL0_CODE_END + 1},
        entry : [Tasks -> {EL0_SANDBOX_BASE - 1, EL0_SANDBOX_BASE, EL0_CODE_END}],
        stacks : {EL0_STACKS,
                  [t \in Tasks |-> [EL0_STACKS[t] EXCEPT !.bottom = @ - 1]]},
        stackTop : {KERNEL_LOAD_ADDR + 1, EL0_SANDBOX_BASE}]
  /\ M \in BOOLEAN
  /\ own = FALSE
  /\ l1 = [n \in 0 .. TABLE - 1 |-> "none"]
  /\ l2 = [t \in {"low", "kernel"} |-> [n \in 0 .. TABLE - 1 |-> NO_DESC]]
  /\ pc = "validate_el0_layout"
  /\ i = 0 /\ buf = 0 /\ len = 0

Step(from, to) == pc = from /\ pc' = to

(* Mutant: the end of the code is not checked.                             *)
layout_without_end ==
  /\ Step("validate_el0_layout",
          IF /\ \A t \in Tasks :
                  EL0_SANDBOX_BASE <= symbols.entry[t] /\ symbols.entry[t] < EL0_CODE_END
             /\ symbols.stacks = EL0_STACKS
          THEN "mmu_init" ELSE "panic")
  /\ UNCHANGED <<symbols, M, own, l1, l2, i, buf, len>>

validate_el0_layout ==
  /\ Step("validate_el0_layout",
          IF /\ symbols.sandboxEnd <= EL0_CODE_END
             /\ \A t \in Tasks :
                  EL0_SANDBOX_BASE <= symbols.entry[t] /\ symbols.entry[t] < EL0_CODE_END
             /\ symbols.stacks = EL0_STACKS
          THEN "mmu_init" ELSE "panic")
  /\ UNCHANGED <<symbols, M, own, l1, l2, i, buf, len>>

(* mmu_init: nothing to do under a loader's map; otherwise the window must *)
(* hold the kernel's stack.  (The tables lie below it, in .bss.)           *)
mmu_init ==
  /\ Step("mmu_init", IF M THEN "running"
                      ELSE IF symbols.stackTop >= KERNEL_LIMIT THEN "panic"
                      ELSE "clear_tables")
  /\ i' = 0
  /\ UNCHANGED <<symbols, M, own, l1, l2, buf, len>>

clear_tables ==
  /\ Step("clear_tables", IF i = TABLE - 1 THEN "build_tables" ELSE "clear_tables")
  /\ l1' = [l1 EXCEPT ![i] = "none"]
  /\ l2' = [t \in DOMAIN l2 |-> [l2[t] EXCEPT ![i] = NO_DESC]]
  /\ i' = (i + 1) % TABLE
  /\ UNCHANGED <<symbols, M, own, buf, len>>

(* Mutant: the device blocks go to the kernel's table.                     *)
devices_in_kernel_table ==
  /\ Step("build_tables", "build_kernel")
  /\ l1' = [l1 EXCEPT ![l1_index(GIC_MAP_BASE)] = "low",
                      ![l1_index(KERNEL_LOAD_ADDR)] = "kernel"]
  /\ l2' = [l2 EXCEPT !["kernel"] =
       [@ EXCEPT ![l2_index(GIC_MAP_BASE)] = block_desc_device(GIC_MAP_BASE),
                 ![l2_index(PL011_MAP_BASE)] = block_desc_device(PL011_MAP_BASE)]]
  /\ UNCHANGED <<symbols, M, own, i, buf, len>>

(* build_identity_map: both level 1 entries and the devices, then the      *)
(* kernel's window block by block.                                         *)
build_tables ==
  /\ Step("build_tables", "build_kernel")
  /\ l1' = [l1 EXCEPT ![l1_index(GIC_MAP_BASE)] = "low",
                      ![l1_index(KERNEL_LOAD_ADDR)] = "kernel"]
  /\ l2' = [l2 EXCEPT !["low"] =
       [@ EXCEPT ![l2_index(GIC_MAP_BASE)] = block_desc_device(GIC_MAP_BASE),
                 ![l2_index(PL011_MAP_BASE)] = block_desc_device(PL011_MAP_BASE)]]
  /\ UNCHANGED <<symbols, M, own, i, buf, len>>

(* Mutant: the first block of the sandbox is taken for the kernel's.       *)
access_after_base(va) == EL0_SANDBOX_BASE < va /\ va < EL0_SANDBOX_END

el0_access(va) == EL0_SANDBOX_BASE <= va /\ va < EL0_SANDBOX_END

build_kernel ==
  LET va == KERNEL_LOAD_ADDR + i IN
    /\ Step("build_kernel",
            IF i + BLOCK >= KERNEL_IDMAP_SIZE THEN "enable" ELSE "build_kernel")
    /\ l2' = [l2 EXCEPT !["kernel"] =
         [@ EXCEPT ![l2_index(va)] = block_desc_normal(va, el0_access(va))]]
    /\ i' = IF i + BLOCK >= KERNEL_IDMAP_SIZE THEN 0 ELSE i + BLOCK
    /\ UNCHANGED <<symbols, M, own, l1, buf, len>>

(* TTBR0, then M; the translation caches are invalidated before.           *)
enable ==
  /\ Step("enable", "running")
  /\ own' = TRUE /\ M' = TRUE
  /\ UNCHANGED <<symbols, l1, l2, i, buf, len>>

-----------------------------------------------------------------------------
(* A system call of an EL0 task with any buffer, its check, and the        *)
(* copying loop; buf and len are dead outside the call.                    *)

system_call ==
  /\ Step("running", "check")
  /\ buf' \in Addresses /\ len' \in Addresses
  /\ UNCHANGED <<symbols, M, own, l1, l2, i>>

buffer_accepted ==
  /\ Step("check", "copy")
  /\ el0_buf_range_ok(buf, len)
  /\ UNCHANGED <<symbols, M, own, l1, l2, i, buf, len>>

buffer_refused ==
  /\ Step("check", "running")
  /\ ~el0_buf_range_ok(buf, len)
  /\ buf' = 0 /\ len' = 0
  /\ UNCHANGED <<symbols, M, own, l1, l2, i>>

bytes_copy ==
  /\ Step("copy", "copy")
  /\ i < len
  /\ i' = i + 1
  /\ UNCHANGED <<symbols, M, own, l1, l2, buf, len>>

copied ==
  /\ Step("copy", "running")
  /\ i >= len
  /\ i' = 0 /\ buf' = 0 /\ len' = 0
  /\ UNCHANGED <<symbols, M, own, l1, l2>>

Halted == pc = "panic" /\ UNCHANGED mapVars

MapNext ==
  \/ validate_el0_layout \/ mmu_init \/ clear_tables \/ build_tables
  \/ build_kernel \/ enable
  \/ system_call \/ buffer_accepted \/ buffer_refused \/ bytes_copy \/ copied
  \/ Halted

MapSpec == MapInit /\ [][MapNext]_mapVars

-----------------------------------------------------------------------------
(* Correctness                                                             *)

UnderOwnMap == M /\ own

(* Every mapped address is its own physical address, so the kernel goes on *)
(* at the next instruction when the MMU comes on; its image and stack, the *)
(* devices and the programs are mapped.                                    *)
IdentityMap ==
  UnderOwnMap =>
    /\ \A va \in Addresses : Mapped(va) => Physical(va) = va
    /\ \A va \in KERNEL_LOAD_ADDR .. KERNEL_LIMIT - 1 : Mapped(va)
    /\ Mapped(GIC_MAP_BASE) /\ Mapped(PL011_MAP_BASE)

(* EL0 reaches the sandbox and nothing else: not the kernel's image, not   *)
(* its stack, not a device.                                                *)
SandboxExact ==
  UnderOwnMap =>
    /\ \A va \in Addresses : EL0Access(va) <=> va \in Sandbox
    /\ \A va \in KERNEL_LOAD_ADDR .. symbols.stackTop - 1 : ~EL0Access(va)

(* No address can be executed at both levels, the kernel executes nothing  *)
(* a task can write, and nobody executes a device's registers.             *)
ExecuteApart ==
  UnderOwnMap =>
    \A va \in Addresses :
      /\ ~(EL0Executes(va) /\ EL1Executes(va))
      /\ EL0Executes(va) <=> va \in Sandbox
      /\ EL1Executes(va) => va >= KERNEL_LOAD_ADDR /\ ~EL0Access(va)

(* A kernel that gets past its layout checks runs tasks whose entry points *)
(* they can execute, on stacks they can write that overlap neither each    *)
(* other nor the programs.                                                 *)
ProgramsFit ==
  UnderOwnMap =>
    \A t \in Tasks :
      LET s == symbols.stacks[t] IN
        /\ EL0Executes(symbols.entry[t])
        /\ s.bottom < s.top
        /\ \A va \in s.bottom .. s.top - 1 :
             /\ EL0Access(va)
             /\ va >= symbols.sandboxEnd
             /\ \A o \in Tasks \ {t} :
                  va \notin symbols.stacks[o].bottom .. symbols.stacks[o].top - 1

(* The kernel copies byte by byte at an address that may wrap around, and  *)
(* checks the buffer once before: each byte it touches for a task is one   *)
(* in the sandbox, which by SandboxExact the task could have touched       *)
(* itself.                                                                 *)
CopyStaysInside == pc = "copy" /\ i < len => Plus(buf, i) \in Sandbox
=============================================================================
