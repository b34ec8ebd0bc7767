-------------------------- MODULE AddressMapProofs --------------------------
(***************************************************************************)
(* Proofs about memory, for any size of address, of block and of table,    *)
(* and any layout of the kernel's window, the sandbox in it and the        *)
(* stacks.  The range checks accept exactly what lies in the sandbox, and  *)
(* the copying loops never leave it.  The tables mmu_init builds map every *)
(* address to itself, EL0 to the sandbox alone, and the programs that      *)
(* passed the layout checks to places that fit them.                       *)
(***************************************************************************)
EXTENDS AddressMap, TLAPS

(* A buffer is accepted exactly when it starts in the sandbox and all its  *)
(* bytes, addressed with wrap-around, are in it: the subtraction in        *)
(* el0_buf_range_ok (core/ipc.c) and el0_write_range_ok (core/syscall.c)   *)
(* never wraps, and nothing that fits is refused.                          *)
THEOREM RangeExact ==
  ASSUME NEW start \in Addresses, NEW n \in Addresses
  PROVE  el0_buf_range_ok(start, n) <=> InSandbox(start, n)
<1> USE SandboxAssumption DEF Addresses, Sandbox, EL0_SANDBOX_BASE,
        EL0_SANDBOX_END, KERNEL_LIMIT
<1>1. ASSUME el0_buf_range_ok(start, n)
      PROVE  InSandbox(start, n)
  <2>1. start \in Sandbox
    BY <1>1 DEF el0_buf_range_ok
  <2>2. n # 0 => n <= EL0_SANDBOX_END - start
    BY <1>1 DEF el0_buf_range_ok, Minus
  <2>3. \A k \in 0 .. n - 1 : Plus(start, k) \in Sandbox
    BY <2>1, <2>2 DEF Plus
  <2> QED BY <2>1, <2>3 DEF InSandbox
<1>2. ASSUME InSandbox(start, n)
      PROVE  el0_buf_range_ok(start, n)
  <2>1. /\ start # 0
        /\ EL0_SANDBOX_BASE <= start /\ start < EL0_SANDBOX_END
    BY <1>2 DEF InSandbox
  <2>2. ASSUME n > EL0_SANDBOX_END - start
        PROVE  FALSE
    (* The first byte behind the sandbox is one of the buffer's.           *)
    <3>1. EL0_SANDBOX_END - start \in 0 .. n - 1
      BY <2>1, <2>2
    <3>2. Plus(start, EL0_SANDBOX_END - start) = EL0_SANDBOX_END
      BY <2>1 DEF Plus
    <3> QED BY <1>2, <3>1, <3>2 DEF InSandbox
  <2> QED BY <2>1, <2>2 DEF el0_buf_range_ok, Minus
<1> QED BY <1>1, <1>2

-----------------------------------------------------------------------------
(* The copying loop                                                        *)

(* What the control points know of the call's arguments.                   *)
CallInv ==
  /\ buf \in Addresses /\ len \in Addresses /\ i \in Nat
  /\ pc = "copy" => el0_buf_range_ok(buf, len)

(* It is inductive: the arguments change only between calls.               *)
LEMMA CallInvStep == CallInv /\ [MapNext]_mapVars => CallInv'
<1> SUFFICES ASSUME CallInv, [MapNext]_mapVars
             PROVE  CallInv'
  OBVIOUS
<1> USE DEF CallInv, Step
<1>1. 0 \in Addresses
  BY SandboxAssumption DEF Addresses, KERNEL_LIMIT
<1>2. (i + 1) % TABLE \in Nat
  BY MapAssumption
<1>3. CASE validate_el0_layout \/ mmu_init \/ enable \/ Halted
  BY <1>3 DEF validate_el0_layout, mmu_init, enable, Halted, mapVars
<1>4. CASE clear_tables \/ build_tables
  BY <1>2, <1>4 DEF clear_tables, build_tables
<1>5. CASE build_kernel
  <2>1. BLOCK \in Nat
    BY MapAssumption
  <2>2. /\ pc' \in {"enable", "build_kernel"}
        /\ i' = 0 \/ i' = i + BLOCK
        /\ buf' = buf /\ len' = len
    BY <1>5 DEF build_kernel
  <2>3. i' \in Nat
    <3>1. i + BLOCK \in Nat
      BY <2>1
    <3>2. CASE i' = 0
      BY <3>2
    <3>3. CASE i' = i + BLOCK
      BY <3>1, <3>3
    <3> QED BY <2>2, <3>2, <3>3
  <2>4. pc' # "copy"
    BY <2>2
  <2> QED BY <2>2, <2>3, <2>4
<1>6. CASE system_call \/ buffer_refused
  BY <1>1, <1>6 DEF system_call, buffer_refused
<1>7. CASE buffer_accepted \/ bytes_copy \/ copied
  BY <1>1, <1>7 DEF buffer_accepted, bytes_copy, copied, el0_buf_range_ok
<1>8. CASE UNCHANGED mapVars
  BY <1>8 DEF mapVars
<1> QED BY <1>3, <1>4, <1>5, <1>6, <1>7, <1>8 DEF MapNext

(* It holds initially: no call is at hand.                                 *)
LEMMA CallInvInit == MapInit => CallInv
BY SandboxAssumption DEF MapInit, CallInv, Addresses, KERNEL_LIMIT

(* Every byte a copying loop touches for a task lies in the sandbox, for   *)
(* any buffer and length a task may pass (bytes_copy, uart_write_direct).  *)
THEOREM CopyConfined == MapSpec => []CopyStaysInside
<1>1. CallInv => CopyStaysInside
  <2> SUFFICES ASSUME CallInv, pc = "copy", i < len
               PROVE  Plus(buf, i) \in Sandbox
    BY DEF CopyStaysInside
  <2>1. InSandbox(buf, len)
    BY RangeExact DEF CallInv
  <2>2. i \in 0 .. len - 1
    BY SandboxAssumption DEF CallInv, Addresses
  <2> QED BY <2>1, <2>2 DEF InSandbox
<1> QED BY <1>1, CallInvInit, CallInvStep, PTL DEF MapSpec

-----------------------------------------------------------------------------
(* Division                                                                *)

(* What quotient and remainder are.                                        *)
LEMMA Division ==
  ASSUME NEW a \in Nat, NEW b \in Nat \ {0}
  PROVE  /\ a \div b \in Nat /\ a % b \in 0 .. b - 1
         /\ a = (a \div b) * b + (a % b)
OBVIOUS

(* Multiples of b are b apart.                                             *)
LEMMA Apart ==
  ASSUME NEW p \in Nat, NEW q \in Nat, NEW b \in Nat, p < q
  PROVE  p * b + b <= q * b
<1>1. PICK d \in Nat : q = p + 1 + d
  <2>1. q - p - 1 \in Nat /\ q = p + 1 + (q - p - 1)
    OBVIOUS
  <2> QED BY <2>1
<1>2. q * b = p * b + b + d * b
  BY <1>1
<1>3. d * b \in Nat /\ p * b \in Nat /\ q * b \in Nat
  OBVIOUS
<1> QED BY <1>2, <1>3

(* A larger number has no smaller quotient.                                *)
LEMMA Monotone ==
  ASSUME NEW a \in Nat, NEW v \in Nat, NEW b \in Nat \ {0}, a <= v
  PROVE  a \div b <= v \div b
<1>1. PICK p \in Nat, r \in 0 .. b - 1 : p = a \div b /\ a = p * b + r
  BY Division
<1>2. PICK q \in Nat, s \in 0 .. b - 1 : q = v \div b /\ v = q * b + s
  BY Division
<1>3. p * b \in Nat /\ q * b \in Nat
  OBVIOUS
<1>4. ~(q < p)
  BY <1>1, <1>2, <1>3, Apart
<1> QED BY <1>1, <1>2, <1>4

(* Quotient and remainder are the only numbers that fit.                   *)
LEMMA Quotient ==
  ASSUME NEW b \in Nat \ {0}, NEW q \in Nat, NEW r \in 0 .. b - 1, NEW a \in Nat,
         a = q * b + r
  PROVE  a \div b = q /\ a % b = r
<1>1. PICK p \in Nat, s \in 0 .. b - 1 :
        p = a \div b /\ s = a % b /\ a = p * b + s
  BY Division
<1>2. p * b \in Nat /\ q * b \in Nat
  OBVIOUS
<1>3. ~(p < q) /\ ~(q < p)
  BY <1>1, <1>2, Apart
<1>4. p = q
  BY <1>3
<1> QED BY <1>1, <1>2, <1>4

(* Dividing twice is dividing by the product.                              *)
LEMMA Twice ==
  ASSUME NEW a \in Nat, NEW b \in Nat \ {0}, NEW c \in Nat \ {0}
  PROVE  a \div (b * c) = (a \div b) \div c
<1>1. PICK p \in Nat, s \in 0 .. b - 1 : p = a \div b /\ a = p * b + s
  BY Division
<1>2. PICK q \in Nat, r \in 0 .. c - 1 : q = p \div c /\ p = q * c + r
  BY Division
<1>3. r * b + b <= c * b /\ r * b \in Nat
  BY Apart
<1>4. PICK m \in Nat \ {0} : m = b * c /\ m = c * b
  OBVIOUS
<1>5. r * b + s \in 0 .. m - 1
  BY <1>3, <1>4
<1>6. (q * c + r) * b = q * m + r * b
  BY <1>4
<1>7. a = q * m + (r * b + s)
  <2>1. a = (q * c + r) * b + s
    BY <1>1, <1>2
  <2>2. q * m \in Nat /\ r * b \in Nat
    OBVIOUS
  <2> QED BY <1>6, <2>1, <2>2
<1>8. a \div m = q
  BY <1>5, <1>7, Quotient
<1> QED BY <1>1, <1>2, <1>4, <1>8

(* A multiple of b is not above v unless it is above v's multiple.         *)
LEMMA Aligned ==
  ASSUME NEW a \in Nat, NEW v \in Nat, NEW b \in Nat \ {0}, a % b = 0
  PROVE  a <= v <=> a \div b <= v \div b
<1>1. a = (a \div b) * b /\ a \div b \in Nat
  BY Division
<1>2. PICK q \in Nat, s \in 0 .. b - 1 : q = v \div b /\ v = q * b + s
  BY Division
<1>3. PICK p \in Nat : p = a \div b /\ a = p * b
  BY <1>1
<1>4. p * b \in Nat /\ q * b \in Nat
  OBVIOUS
<1>5. p < q => p * b + b <= q * b
  BY Apart
<1>6. q < p => q * b + b <= p * b
  BY Apart
<1> QED BY <1>2, <1>3, <1>4, <1>5, <1>6

-----------------------------------------------------------------------------
(* Blocks and windows                                                      *)

Block(va)  == va \div BLOCK             (* what a level 2 entry maps       *)
Window(va) == va \div (BLOCK * TABLE)   (* what a level 1 entry maps       *)
Reach      == TABLE * TABLE * BLOCK

(* The tables' indices are the place of a block in its window, and that of *)
(* a window within the reach (l1_index, l2_index).                         *)
LEMMA Indices ==
  ASSUME NEW va \in Nat
  PROVE  /\ Block(va) \in Nat /\ Window(va) \in Nat
         /\ Window(va) = Block(va) \div TABLE
         /\ l1_index(va) \in 0 .. TABLE - 1 /\ l2_index(va) \in 0 .. TABLE - 1
         /\ Block(va) = Window(va) * TABLE + l2_index(va)
         /\ Window(va) < TABLE => l1_index(va) = Window(va)
         /\ Reach <= va <=> TABLE <= Window(va)
<1>1. BLOCK \in Nat \ {0} /\ TABLE \in Nat \ {0}
  BY MapAssumption
<1>2. PICK r \in Nat \ {0} : r = BLOCK * TABLE
  BY <1>1
<1>3. Block(va) \in Nat /\ Window(va) \in Nat
  BY <1>1, <1>2, Division DEF Block, Window
<1>4. Window(va) = Block(va) \div TABLE
  BY <1>1, Twice DEF Block, Window
<1>5. /\ l2_index(va) \in 0 .. TABLE - 1
      /\ Block(va) = Window(va) * TABLE + l2_index(va)
  BY <1>1, <1>3, <1>4, Division DEF l2_index, Block
<1>6. /\ l1_index(va) \in 0 .. TABLE - 1
      /\ Window(va) < TABLE => l1_index(va) = Window(va)
  <2>1. l1_index(va) = Window(va) % TABLE
    BY DEF l1_index, Window
  <2>2. ASSUME Window(va) < TABLE
        PROVE  Window(va) % TABLE = Window(va)
    <3>1. Window(va) = 0 * TABLE + Window(va)
      BY <1>1, <1>3
    <3> QED BY <1>1, <1>3, <2>2, <3>1, Quotient
  <2> QED BY <1>1, <1>3, <2>1, <2>2, Division
<1>7. Reach <= va <=> TABLE <= Window(va)
  <2>1. PICK e \in Nat : e = Reach /\ e = TABLE * r + 0
    BY <1>1, <1>2 DEF Reach
  <2>2. TABLE \in Nat /\ 0 \in 0 .. r - 1
    BY <1>1
  <2>3. e \div r = TABLE /\ e % r = 0
    BY <2>1, <2>2, Quotient
  <2>4. e <= va <=> e \div r <= va \div r
    BY <2>3, Aligned
  <2> QED BY <1>2, <2>1, <2>3, <2>4 DEF Window
<1> QED BY <1>3, <1>4, <1>5, <1>6, <1>7

(* Windows and indices tell blocks apart.                                  *)
LEMMA SameBlock ==
  ASSUME NEW va \in Nat, NEW w \in Nat
  PROVE  Block(va) = Block(w)
           <=> Window(va) = Window(w) /\ l2_index(va) = l2_index(w)
<1>1. ASSUME Window(va) = Window(w), l2_index(va) = l2_index(w)
      PROVE  Block(va) = Block(w)
  BY <1>1, Indices
<1>2. ASSUME Block(va) = Block(w)
      PROVE  Window(va) = Window(w) /\ l2_index(va) = l2_index(w)
  BY <1>2, Indices DEF l2_index, Block
<1> QED BY <1>1, <1>2

(* The block that starts at w.                                             *)
LEMMA BlockAt ==
  ASSUME NEW w \in Nat, w % BLOCK = 0
  PROVE  /\ (w + BLOCK) % BLOCK = 0
         /\ \A va \in Nat : w <= va /\ va < w + BLOCK <=> Block(va) = Block(w)
<1>1. BLOCK \in Nat \ {0}
  BY MapAssumption
<1>2. PICK p \in Nat : p = Block(w) /\ w = p * BLOCK
  <2>1. w = (w \div BLOCK) * BLOCK + 0 /\ w \div BLOCK \in Nat
    BY <1>1, Division
  <2>2. (w \div BLOCK) * BLOCK \in Nat
    BY <1>1, <2>1
  <2>3. w = (w \div BLOCK) * BLOCK
    BY <2>1, <2>2
  <2> QED BY <2>1, <2>3 DEF Block
<1>3. PICK e \in Nat : e = w + BLOCK
  BY <1>1
<1>4. e = (p + 1) * BLOCK + 0
  BY <1>1, <1>2, <1>3
<1>5. e \div BLOCK = p + 1 /\ e % BLOCK = 0
  BY <1>1, <1>4, Quotient
<1>6. ASSUME NEW va \in Nat
      PROVE  w <= va /\ va < w + BLOCK <=> Block(va) = Block(w)
  <2>1. w <= va <=> p <= Block(va)
    BY <1>1, <1>2, Aligned DEF Block
  <2>2. e <= va <=> p + 1 <= Block(va)
    BY <1>1, <1>5, Aligned DEF Block
  <2>3. Block(va) \in Nat
    BY Indices
  <2> QED BY <1>1, <1>2, <1>3, <2>1, <2>2, <2>3
<1> QED BY <1>3, <1>5, <1>6

(* The kernel's window of addresses and the devices'.                      *)
LEMMA Layout ==
  /\ KERNEL_LOAD_ADDR \in Nat /\ EL0_SANDBOX_BASE \in Nat /\ KERNEL_LIMIT \in Nat
  /\ GIC_MAP_BASE \in Nat /\ PL011_MAP_BASE \in Nat /\ BLOCK \in Nat \ {0}
  /\ KERNEL_LOAD_ADDR < EL0_SANDBOX_BASE /\ EL0_SANDBOX_BASE < KERNEL_LIMIT
  /\ EL0_SANDBOX_END = KERNEL_LIMIT
  /\ KERNEL_LOAD_ADDR % BLOCK = 0 /\ EL0_SANDBOX_BASE % BLOCK = 0
  /\ KERNEL_LIMIT % BLOCK = 0
  /\ KERNEL_LIMIT <= Reach /\ Window(KERNEL_LOAD_ADDR) < TABLE
  /\ \A va \in Nat : KERNEL_LOAD_ADDR <= va /\ va < KERNEL_LIMIT
                       => Window(va) = Window(KERNEL_LOAD_ADDR)
  /\ Window(GIC_MAP_BASE) < TABLE
  /\ Window(PL011_MAP_BASE) = Window(GIC_MAP_BASE)
  /\ Window(GIC_MAP_BASE) # Window(KERNEL_LOAD_ADDR)
<1>1. /\ KERNEL_LOAD_ADDR \in Nat /\ EL0_SANDBOX_BASE \in Nat /\ KERNEL_LIMIT \in Nat
      /\ KERNEL_LOAD_ADDR < EL0_SANDBOX_BASE /\ EL0_SANDBOX_BASE < KERNEL_LIMIT
      /\ EL0_SANDBOX_END = KERNEL_LIMIT
  BY SandboxAssumption DEF EL0_SANDBOX_BASE, EL0_SANDBOX_END, KERNEL_LIMIT
<1>2. /\ KERNEL_LOAD_ADDR % BLOCK = 0 /\ EL0_SANDBOX_BASE % BLOCK = 0
      /\ KERNEL_LIMIT % BLOCK = 0 /\ BLOCK \in Nat \ {0} /\ TABLE \in Nat \ {0}
  BY MapAssumption
<1>3. /\ KERNEL_LIMIT <= Reach /\ Reach \in Nat
      /\ GIC_MAP_BASE \in 0 .. Reach - 1 /\ PL011_MAP_BASE \in 0 .. Reach - 1
  BY <1>2, MapAssumption DEF Reach
<1>4. GIC_MAP_BASE \in Nat /\ GIC_MAP_BASE < Reach /\ PL011_MAP_BASE \in Nat
  BY <1>3
<1>5. KERNEL_LOAD_ADDR < Reach
  BY <1>1, <1>3
<1>6. /\ Window(KERNEL_LOAD_ADDR) = Window(KERNEL_LIMIT - 1)
      /\ Window(PL011_MAP_BASE) = Window(GIC_MAP_BASE)
      /\ Window(GIC_MAP_BASE) # Window(KERNEL_LOAD_ADDR)
  BY MapAssumption DEF Window
<1>7. Window(KERNEL_LOAD_ADDR) < TABLE /\ Window(GIC_MAP_BASE) < TABLE
  BY <1>1, <1>2, <1>3, <1>4, <1>5, Indices
<1>8. ASSUME NEW va \in Nat, KERNEL_LOAD_ADDR <= va, va < KERNEL_LIMIT
      PROVE  Window(va) = Window(KERNEL_LOAD_ADDR)
  <2>1. PICK r \in Nat \ {0} : r = BLOCK * TABLE
    BY <1>2
  <2>2. KERNEL_LIMIT - 1 \in Nat /\ va <= KERNEL_LIMIT - 1
    BY <1>1, <1>8
  <2>3. /\ Window(KERNEL_LOAD_ADDR) <= Window(va)
        /\ Window(va) <= Window(KERNEL_LIMIT - 1)
    BY <1>1, <1>8, <2>1, <2>2, Monotone DEF Window
  <2>4. Window(KERNEL_LOAD_ADDR) \in Nat /\ Window(va) \in Nat
    BY <1>1, Indices
  <2> QED BY <1>6, <2>3, <2>4
<1> QED BY <1>1, <1>2, <1>3, <1>4, <1>6, <1>7, <1>8

(* A descriptor is the same for all addresses of a block: the sandbox's    *)
(* ends are those of blocks.                                               *)
LEMMA Descriptors ==
  ASSUME NEW va \in Nat, NEW w \in Nat, Block(va) = Block(w)
  PROVE  /\ el0_access(va) = el0_access(w)
         /\ \A a : block_desc_normal(va, a) = block_desc_normal(w, a)
         /\ block_desc_device(va) = block_desc_device(w)
<1>1. \A a \in Nat : a % BLOCK = 0 => (a <= va <=> a <= w)
  BY Layout, Aligned DEF Block
<1>2. EL0_SANDBOX_BASE <= va <=> EL0_SANDBOX_BASE <= w
  BY <1>1, Layout
<1>3. va < EL0_SANDBOX_END <=> w < EL0_SANDBOX_END
  <2>1. KERNEL_LIMIT <= va <=> KERNEL_LIMIT <= w
    BY <1>1, Layout
  <2> QED BY <2>1, Layout
<1>4. el0_access(va) = el0_access(w)
  BY <1>2, <1>3 DEF el0_access
<1> QED BY <1>4 DEF block_desc_normal, block_desc_device, Block

-----------------------------------------------------------------------------
(* Building the tables                                                     *)

Tables == {"low", "kernel"}

Cleared ==
  /\ l1 = [n \in 0 .. TABLE - 1 |-> "none"]
  /\ l2 = [t \in Tables |-> [n \in 0 .. TABLE - 1 |-> NO_DESC]]

(* The level 1 table.                                                      *)
DirectoryBuilt ==
  l1 = [n \in 0 .. TABLE - 1 |->
          IF n = l1_index(KERNEL_LOAD_ADDR) THEN "kernel"
          ELSE IF n = l1_index(GIC_MAP_BASE) THEN "low" ELSE "none"]

IsDevice(va) == Block(va) \in {Block(GIC_MAP_BASE), Block(PL011_MAP_BASE)}

(* The table of the window the devices are in.                             *)
DevicesMapped ==
  \A va \in Nat : Window(va) = Window(GIC_MAP_BASE) =>
    l2["low"][l2_index(va)] =
      IF IsDevice(va) THEN block_desc_device(va) ELSE NO_DESC

(* The table of the window the kernel is in, built up to an address.       *)
KernelMapped(end) ==
  \A va \in Nat : Window(va) = Window(KERNEL_LOAD_ADDR) =>
    l2["kernel"][l2_index(va)] =
      IF KERNEL_LOAD_ADDR <= va /\ va < end
      THEN block_desc_normal(va, el0_access(va)) ELSE NO_DESC

(* validate_el0_layout found everything where it belongs.                  *)
LayoutChecked ==
  /\ symbols.sandboxEnd <= EL0_CODE_END
  /\ \A t \in Tasks :
       EL0_SANDBOX_BASE <= symbols.entry[t] /\ symbols.entry[t] < EL0_CODE_END
  /\ symbols.stacks = EL0_STACKS

SymbolsOK ==
  /\ symbols.sandboxEnd \in Int /\ symbols.stackTop \in Int
  /\ \A t \in Tasks : symbols.entry[t] \in Int
  /\ symbols.stackTop <= EL0_SANDBOX_BASE

BeforeTables == {"validate_el0_layout", "mmu_init", "clear_tables", "build_tables"}
Running      == {"running", "check", "copy"}

MapInv ==
  /\ SymbolsOK
  /\ own => pc \in Running
  /\ pc \notin {"validate_el0_layout", "panic"} => LayoutChecked
  /\ pc \in BeforeTables => Cleared
  /\ pc = "clear_tables" => i \in Nat
  /\ pc = "build_tables" => i = 0
  /\ pc = "build_kernel" =>
       /\ i \in Nat /\ KERNEL_LOAD_ADDR + i < KERNEL_LIMIT
       /\ (KERNEL_LOAD_ADDR + i) % BLOCK = 0
       /\ DirectoryBuilt /\ DevicesMapped /\ KernelMapped(KERNEL_LOAD_ADDR + i)
       /\ l2 = [t \in Tables |-> [n \in 0 .. TABLE - 1 |-> l2[t][n]]]
  /\ pc = "enable" \/ own =>
       DirectoryBuilt /\ DevicesMapped /\ KernelMapped(KERNEL_LIMIT)

(* The linker's choices, and .bss cleared.                                 *)
LEMMA MapInvInit == MapInit => MapInv
<1> SUFFICES ASSUME MapInit PROVE MapInv
  OBVIOUS
<1>1. /\ EL0_SANDBOX_BASE \in Int /\ EL0_CODE_END \in Int
      /\ KERNEL_LOAD_ADDR + 1 <= EL0_SANDBOX_BASE /\ KERNEL_LOAD_ADDR \in Nat
  BY Layout, StackAssumption, SandboxAssumption DEF EL0_CODE_END
<1>2. /\ symbols.sandboxEnd \in {EL0_CODE_END - 1, EL0_CODE_END, EL0_CODE_END + 1}
      /\ symbols.entry \in
           [Tasks -> {EL0_SANDBOX_BASE - 1, EL0_SANDBOX_BASE, EL0_CODE_END}]
      /\ symbols.stackTop \in {KERNEL_LOAD_ADDR + 1, EL0_SANDBOX_BASE}
  BY DEF MapInit
<1>3. \A t \in Tasks :
        symbols.entry[t] \in {EL0_SANDBOX_BASE - 1, EL0_SANDBOX_BASE, EL0_CODE_END}
  BY <1>2
<1>4. SymbolsOK
  BY <1>1, <1>2, <1>3 DEF SymbolsOK
<1>5. Cleared /\ pc = "validate_el0_layout" /\ own = FALSE
  BY DEF MapInit, Cleared, Tables
<1> QED BY <1>4, <1>5 DEF MapInv

(* The parts that speak of the tables and of the layout alone.             *)
LEMMA TablesSame ==
  ASSUME UNCHANGED <<l1, l2>>
  PROVE  /\ Cleared' = Cleared /\ DirectoryBuilt' = DirectoryBuilt
         /\ DevicesMapped' = DevicesMapped
         /\ \A e : KernelMapped(e)' = KernelMapped(e)
BY DEF Cleared, DirectoryBuilt, DevicesMapped, KernelMapped

LEMMA LayoutSame ==
  ASSUME UNCHANGED symbols
  PROVE  SymbolsOK' = SymbolsOK /\ LayoutChecked' = LayoutChecked
BY DEF SymbolsOK, LayoutChecked

(* Before the tables are built (validate_el0_layout, mmu_init).            *)
LEMMA EarlyStep ==
  ASSUME MapInv, validate_el0_layout \/ mmu_init \/ clear_tables
  PROVE  MapInv'
<1>1. CASE validate_el0_layout
  <2>1. /\ pc = "validate_el0_layout" /\ pc' \in {"mmu_init", "panic"}
        /\ pc' = "mmu_init" => LayoutChecked
        /\ UNCHANGED <<symbols, own, l1, l2>>
    BY <1>1 DEF validate_el0_layout, Step, LayoutChecked
  <2> QED BY <2>1, TablesSame, LayoutSame DEF MapInv, BeforeTables, Running
<1>2. CASE mmu_init
  <2>1. /\ pc = "mmu_init" /\ pc' \in {"running", "panic", "clear_tables"}
        /\ i' = 0 /\ UNCHANGED <<symbols, own, l1, l2>>
    BY <1>2 DEF mmu_init, Step
  <2> QED BY <2>1, TablesSame, LayoutSame DEF MapInv, BeforeTables, Running
<1>3. CASE clear_tables
  <2>1. /\ pc = "clear_tables" /\ Cleared /\ i \in Nat /\ LayoutChecked
        /\ SymbolsOK /\ ~own
    BY <1>3 DEF clear_tables, Step, MapInv, BeforeTables, Running
  <2>2. /\ pc' \in {"clear_tables", "build_tables"}
        /\ pc' = "build_tables" => i = TABLE - 1
        /\ i' = (i + 1) % TABLE /\ UNCHANGED <<symbols, own>>
    BY <1>3 DEF clear_tables, Step
  <2>3. Cleared'
    BY <1>3, <2>1 DEF clear_tables, Cleared
  <2>4. i' \in Nat /\ (pc' = "build_tables" => i' = 0)
    <3>1. TABLE \in Nat \ {0}
      BY MapAssumption
    <3>2. TABLE % TABLE = 0
      <4>1. TABLE = 1 * TABLE + 0
        BY <3>1
      <4> QED BY <3>1, <4>1, Quotient
    <3>3. PICK k \in Nat : k = i + 1 /\ (i = TABLE - 1 => k = TABLE)
      BY <2>1, <3>1
    <3>4. k % TABLE \in 0 .. TABLE - 1
      BY <3>1, Division
    <3>5. i' = k % TABLE
      BY <2>2, <3>3
    <3>6. i' \in Nat
      BY <3>1, <3>4, <3>5
    <3>7. pc' = "build_tables" => i' = 0
      BY <2>2, <3>2, <3>3, <3>5
    <3> QED BY <3>6, <3>7
  <2> QED BY <2>1, <2>2, <2>3, <2>4, LayoutSame DEF MapInv, BeforeTables, Running
<1> QED BY <1>1, <1>2, <1>3

(* build_identity_map, before its loop.                                    *)
LEMMA BuildTablesStep ==
  ASSUME MapInv, build_tables
  PROVE  MapInv'
<1>1. /\ pc = "build_tables" /\ pc' = "build_kernel" /\ i' = i
      /\ UNCHANGED <<symbols, own>>
  BY DEF build_tables, Step
<1>2. Cleared /\ LayoutChecked /\ SymbolsOK /\ ~own /\ i = 0
  BY <1>1 DEF MapInv, BeforeTables, Running
<1> DEFINE g == l2_index(GIC_MAP_BASE)
           u == l2_index(PL011_MAP_BASE)
<1>3. /\ l2' = [t \in Tables |-> [n \in 0 .. TABLE - 1 |->
                  IF t = "low" /\ n = u THEN block_desc_device(PL011_MAP_BASE)
                  ELSE IF t = "low" /\ n = g THEN block_desc_device(GIC_MAP_BASE)
                  ELSE NO_DESC]]
  BY <1>2 DEF build_tables, Cleared, Tables
<1>4. DirectoryBuilt'
  <2>1. l1_index(KERNEL_LOAD_ADDR) # l1_index(GIC_MAP_BASE)
    BY Layout, Indices
  <2> QED BY <1>2, <2>1 DEF build_tables, Cleared, DirectoryBuilt
<1>5. DevicesMapped'
  <2> SUFFICES ASSUME NEW va \in Nat, Window(va) = Window(GIC_MAP_BASE)
               PROVE  l2'["low"][l2_index(va)] =
                        IF IsDevice(va) THEN block_desc_device(va) ELSE NO_DESC
    BY DEF DevicesMapped
  <2>1. l2_index(va) \in 0 .. TABLE - 1 /\ "low" \in Tables
    BY Indices DEF Tables
  <2>2. /\ l2_index(va) = g <=> Block(va) = Block(GIC_MAP_BASE)
        /\ l2_index(va) = u <=> Block(va) = Block(PL011_MAP_BASE)
    BY Layout, SameBlock
  <2>3. /\ Block(va) = Block(GIC_MAP_BASE)
             => block_desc_device(va) = block_desc_device(GIC_MAP_BASE)
        /\ Block(va) = Block(PL011_MAP_BASE)
             => block_desc_device(va) = block_desc_device(PL011_MAP_BASE)
    BY Layout, Descriptors
  <2> HIDE DEF g, u
  <2> QED BY <1>3, <2>1, <2>2, <2>3 DEF IsDevice
<1>6. KernelMapped(KERNEL_LOAD_ADDR)'
  <2>1. \A n \in 0 .. TABLE - 1 : l2'["kernel"][n] = NO_DESC
    BY <1>3 DEF Tables
  <2> QED BY <2>1, Indices, Layout DEF KernelMapped
<1>7. l2' = [t \in Tables |-> [n \in 0 .. TABLE - 1 |-> l2'[t][n]]]
  <2> HIDE DEF g, u
  <2> QED BY <1>3
<1>8. /\ KERNEL_LOAD_ADDR + 0 = KERNEL_LOAD_ADDR /\ KERNEL_LOAD_ADDR < KERNEL_LIMIT
      /\ KERNEL_LOAD_ADDR % BLOCK = 0
  BY Layout
<1>9. SymbolsOK' /\ LayoutChecked' /\ ~own'
  BY <1>1, <1>2, LayoutSame
<1> QED BY <1>1, <1>2, <1>4, <1>5, <1>6, <1>7, <1>8, <1>9
        DEF MapInv, BeforeTables, Running

(* One block of the kernel's window.                                       *)
LEMMA BuildKernelStep ==
  ASSUME MapInv, build_kernel
  PROVE  MapInv'
<1>1. /\ pc = "build_kernel" /\ UNCHANGED <<symbols, own, l1>>
      /\ pc' = IF i + BLOCK >= KERNEL_IDMAP_SIZE THEN "enable" ELSE "build_kernel"
      /\ i' = IF i + BLOCK >= KERNEL_IDMAP_SIZE THEN 0 ELSE i + BLOCK
  BY DEF build_kernel, Step
<1>2. /\ LayoutChecked /\ SymbolsOK /\ ~own /\ i \in Nat
      /\ KERNEL_LOAD_ADDR + i < KERNEL_LIMIT /\ (KERNEL_LOAD_ADDR + i) % BLOCK = 0
      /\ DirectoryBuilt /\ DevicesMapped /\ KernelMapped(KERNEL_LOAD_ADDR + i)
      /\ l2 = [t \in Tables |-> [n \in 0 .. TABLE - 1 |-> l2[t][n]]]
  BY <1>1 DEF MapInv, Running
<1>3. PICK w \in Nat : w = KERNEL_LOAD_ADDR + i
  BY <1>2, Layout
<1>4. PICK e \in Nat : e = w + BLOCK
  BY Layout
<1>5. w < KERNEL_LIMIT /\ w % BLOCK = 0 /\ KernelMapped(w)
  BY <1>2, <1>3
(* The block at w is in the window, and so is its end.                     *)
<1>6. /\ e % BLOCK = 0
      /\ \A va \in Nat : w <= va /\ va < e <=> Block(va) = Block(w)
  BY <1>4, <1>5, BlockAt
<1>7. e <= KERNEL_LIMIT
  <2>1. SUFFICES ASSUME KERNEL_LIMIT < e PROVE FALSE
    BY Layout
  <2>2. Block(KERNEL_LIMIT) = Block(w)
    BY <1>5, <1>6, <2>1, Layout
  <2>3. KERNEL_LIMIT <= KERNEL_LIMIT <=> KERNEL_LIMIT <= w
    BY <2>2, Layout, Aligned DEF Block
  <2> QED BY <1>5, <2>3, Layout
<1>8. KERNEL_LOAD_ADDR <= w /\ Window(w) = Window(KERNEL_LOAD_ADDR)
  BY <1>2, <1>3, <1>5, Layout
<1>9. l2' = [t \in Tables |-> [n \in 0 .. TABLE - 1 |->
               IF t = "kernel" /\ n = l2_index(w)
               THEN block_desc_normal(w, el0_access(w)) ELSE l2[t][n]]]
  <2>1. l2' = [l2 EXCEPT !["kernel"] =
          [@ EXCEPT ![l2_index(w)] = block_desc_normal(w, el0_access(w))]]
    BY <1>3 DEF build_kernel
  <2> QED BY <1>2, <2>1 DEF Tables
<1>10. l2' = [t \in Tables |-> [n \in 0 .. TABLE - 1 |-> l2'[t][n]]]
  BY <1>9
<1>11. DirectoryBuilt' /\ DevicesMapped'
  <2>1. \A n \in 0 .. TABLE - 1 : l2'["low"][n] = l2["low"][n]
    BY <1>9 DEF Tables
  <2>2. DevicesMapped'
    BY <1>2, <2>1, Indices, Layout DEF DevicesMapped, IsDevice
  <2> QED BY <1>1, <1>2, <2>2 DEF DirectoryBuilt
<1>12. KernelMapped(e)'
  <2> SUFFICES ASSUME NEW va \in Nat, Window(va) = Window(KERNEL_LOAD_ADDR)
               PROVE  l2'["kernel"][l2_index(va)] =
                        IF KERNEL_LOAD_ADDR <= va /\ va < e
                        THEN block_desc_normal(va, el0_access(va)) ELSE NO_DESC
    BY DEF KernelMapped
  <2>1. l2_index(va) \in 0 .. TABLE - 1 /\ "kernel" \in Tables
    BY Indices DEF Tables
  <2>2. l2_index(va) = l2_index(w) <=> Block(va) = Block(w)
    BY <1>8, SameBlock
  <2>3. CASE Block(va) = Block(w)
    <3>1. w <= va /\ va < e /\ KERNEL_LOAD_ADDR <= va
      BY <1>6, <1>8, <2>3, Layout
    <3>2. l2'["kernel"][l2_index(va)] = block_desc_normal(w, el0_access(w))
      BY <1>9, <2>1, <2>2, <2>3
    <3>3. block_desc_normal(va, el0_access(va)) = block_desc_normal(w, el0_access(w))
      BY <2>3, Descriptors
    <3> QED BY <3>1, <3>2, <3>3
  <2>4. CASE Block(va) # Block(w)
    <3>1. l2'["kernel"][l2_index(va)] = l2["kernel"][l2_index(va)]
      BY <1>9, <2>1, <2>2, <2>4
    <3>2. va < e <=> va < w
      BY <1>4, <1>6, <2>4, Layout
    <3>3. l2["kernel"][l2_index(va)] =
            IF KERNEL_LOAD_ADDR <= va /\ va < w
            THEN block_desc_normal(va, el0_access(va)) ELSE NO_DESC
      BY <1>5 DEF KernelMapped
    <3> QED BY <3>1, <3>2, <3>3
  <2> QED BY <2>3, <2>4
<1>13. SymbolsOK' /\ LayoutChecked' /\ ~own'
  BY <1>1, <1>2, LayoutSame
<1>14. /\ e <= KERNEL_LIMIT /\ (i + BLOCK >= KERNEL_IDMAP_SIZE <=> KERNEL_LIMIT <= e)
       /\ e \in Nat /\ KERNEL_LIMIT \in Nat /\ BLOCK \in Nat
       /\ KERNEL_LOAD_ADDR \in Nat
  <2>1. KERNEL_LIMIT = KERNEL_LOAD_ADDR + KERNEL_IDMAP_SIZE
    BY DEF KERNEL_LIMIT
  <2>2. KERNEL_LOAD_ADDR \in Nat /\ KERNEL_IDMAP_SIZE \in Nat
    BY SandboxAssumption
  <2>3. BLOCK \in Nat /\ KERNEL_LIMIT \in Nat
    BY Layout
  <2>4. i \in Nat /\ e = KERNEL_LOAD_ADDR + i + BLOCK
    BY <1>2, <1>3, <1>4
  <2>5. i + BLOCK >= KERNEL_IDMAP_SIZE <=> KERNEL_LIMIT <= e
    BY <2>1, <2>2, <2>3, <2>4
  <2> QED BY <1>7, <2>2, <2>3, <2>5
<1>15. CASE i + BLOCK >= KERNEL_IDMAP_SIZE
  <2>1. e = KERNEL_LIMIT
    BY <1>14, <1>15
  <2>2. pc' = "enable" /\ KernelMapped(KERNEL_LIMIT)'
    BY <1>1, <1>12, <1>15, <2>1
  <2> QED BY <1>11, <1>13, <2>2 DEF MapInv, BeforeTables, Running
<1>16. CASE ~(i + BLOCK >= KERNEL_IDMAP_SIZE)
  <2>1. i' = i + BLOCK /\ pc' = "build_kernel"
    BY <1>1, <1>16
  <2>2. /\ i' \in Nat /\ KERNEL_LOAD_ADDR + i' = e
    <3>1. e = KERNEL_LOAD_ADDR + i + BLOCK /\ i \in Nat
      BY <1>2, <1>3, <1>4
    <3> QED BY <1>14, <2>1, <3>1
  <2>3. e < KERNEL_LIMIT
    BY <1>14, <1>16
  <2>4. KernelMapped(KERNEL_LOAD_ADDR + i)'
    BY <1>12, <2>2
  <2> QED BY <1>6, <1>10, <1>11, <1>13, <2>1, <2>2, <2>3, <2>4
          DEF MapInv, BeforeTables, Running
<1> QED BY <1>15, <1>16

(* From the enable bit on nothing writes the tables.                       *)
LEMMA LateStep ==
  ASSUME MapInv,
         \/ enable \/ system_call \/ buffer_accepted \/ buffer_refused
         \/ bytes_copy \/ copied \/ Halted \/ UNCHANGED mapVars
  PROVE  MapInv'
<1>1. CASE enable
  <2>1. /\ pc = "enable" /\ pc' = "running" /\ UNCHANGED <<symbols, l1, l2>>
    BY <1>1 DEF enable, Step
  <2> QED BY <2>1, TablesSame, LayoutSame DEF MapInv, BeforeTables, Running
<1>2. CASE system_call \/ buffer_accepted \/ buffer_refused \/ bytes_copy \/ copied
  <2>1. /\ pc \in Running /\ pc' \in Running /\ UNCHANGED <<symbols, own, l1, l2>>
    BY <1>2 DEF system_call, buffer_accepted, buffer_refused, bytes_copy, copied,
                Step, Running
  <2> QED BY <2>1, TablesSame, LayoutSame DEF MapInv, BeforeTables, Running
<1>3. CASE Halted \/ UNCHANGED mapVars
  <2>1. UNCHANGED <<pc, i, symbols, own, l1, l2>>
    BY <1>3 DEF Halted, mapVars
  <2> QED BY <2>1, TablesSame, LayoutSame DEF MapInv
<1> QED BY <1>1, <1>2, <1>3

LEMMA MapInvStep == MapInv /\ [MapNext]_mapVars => MapInv'
BY EarlyStep, BuildTablesStep, BuildKernelStep, LateStep DEF MapNext

LEMMA MapInvHolds == MapSpec => []MapInv
BY MapInvInit, MapInvStep, PTL DEF MapSpec

-----------------------------------------------------------------------------
(* What the hardware finds in the finished tables                          *)

Mapping(va) ==
  IF KERNEL_LOAD_ADDR <= va /\ va < KERNEL_LIMIT
  THEN block_desc_normal(va, el0_access(va))
  ELSE IF IsDevice(va) THEN block_desc_device(va) ELSE NO_DESC

(* Every address is in the kernel's window, in the devices', in a window   *)
(* without a level 2 table, or beyond the reach.                           *)
LEMMA WalkIs ==
  ASSUME MapInv, own, NEW va \in Nat
  PROVE  Walk(va) = Mapping(va)
<1>1. DirectoryBuilt /\ DevicesMapped /\ KernelMapped(KERNEL_LIMIT)
  BY DEF MapInv
<1>2. /\ Window(va) \in Nat /\ (Window(va) < TABLE => l1_index(va) = Window(va))
      /\ l1_index(va) \in 0 .. TABLE - 1
      /\ Reach <= va <=> TABLE <= Window(va)
  BY Indices
<1>3. PICK k \in Nat : k = Window(KERNEL_LOAD_ADDR) /\ k = l1_index(KERNEL_LOAD_ADDR)
  BY Layout, Indices
<1>4. PICK g \in Nat : g = Window(GIC_MAP_BASE) /\ g = l1_index(GIC_MAP_BASE)
  BY Layout, Indices
<1>5. TABLE \in Nat /\ k < TABLE /\ g < TABLE /\ g # k
  BY <1>3, <1>4, Layout, MapAssumption
<1>6. KERNEL_LOAD_ADDR <= va /\ va < KERNEL_LIMIT => Window(va) = k
  BY <1>3, Layout
<1>7. IsDevice(va) => Window(va) = g
  <2> SUFFICES ASSUME NEW d \in {GIC_MAP_BASE, PL011_MAP_BASE}, Block(va) = Block(d)
               PROVE  Window(va) = g
    BY DEF IsDevice
  <2>1. d \in Nat /\ Window(d) = g
    BY <1>4, Layout
  <2> QED BY <2>1, SameBlock
<1>8. l1[l1_index(va)] = IF l1_index(va) = k THEN "kernel"
                         ELSE IF l1_index(va) = g THEN "low" ELSE "none"
  BY <1>1, <1>2, <1>3, <1>4 DEF DirectoryBuilt
<1>9. Walk(va) = IF Reach <= va \/ l1[l1_index(va)] = "none" THEN NO_DESC
                 ELSE l2[l1[l1_index(va)]][l2_index(va)]
  <2>1. Reach \in Nat /\ (va >= Reach <=> Reach <= va)
    BY MapAssumption DEF Reach
  <2> QED BY <2>1 DEF Walk, Reach
<1>10. CASE TABLE <= Window(va)
  <2>1. Walk(va) = NO_DESC
    BY <1>2, <1>9, <1>10
  <2>2. ~IsDevice(va) /\ ~(KERNEL_LOAD_ADDR <= va /\ va < KERNEL_LIMIT)
    BY <1>2, <1>5, <1>6, <1>7, <1>10
  <2> QED BY <2>1, <2>2 DEF Mapping
<1>11. CASE Window(va) < TABLE
  <2>1. l1_index(va) = Window(va) /\ ~(Reach <= va)
    BY <1>2, <1>5, <1>11
  <2>2. CASE Window(va) = k
    <3>1. Walk(va) = l2["kernel"][l2_index(va)]
      BY <1>8, <1>9, <2>1, <2>2
    <3>2. ~IsDevice(va)
      BY <1>5, <1>7, <2>2
    <3> QED BY <1>1, <1>3, <2>2, <3>1, <3>2 DEF KernelMapped, Mapping
  <2>3. CASE Window(va) = g
    <3>1. Walk(va) = l2["low"][l2_index(va)]
      BY <1>5, <1>8, <1>9, <2>1, <2>3
    <3>2. ~(KERNEL_LOAD_ADDR <= va /\ va < KERNEL_LIMIT)
      BY <1>5, <1>6, <2>3
    <3> QED BY <1>1, <1>4, <2>3, <3>1, <3>2 DEF DevicesMapped, Mapping
  <2>4. CASE Window(va) # k /\ Window(va) # g
    <3>1. Walk(va) = NO_DESC
      BY <1>8, <1>9, <2>1, <2>4
    <3> QED BY <1>6, <1>7, <2>4, <3>1 DEF Mapping
  <2> QED BY <2>2, <2>3, <2>4
<1> QED BY <1>2, <1>5, <1>10, <1>11

(* The same, property by property.                                         *)
LEMMA MapIs ==
  ASSUME MapInv, own, NEW va \in Nat
  PROVE  /\ Mapped(va) <=> \/ KERNEL_LOAD_ADDR <= va /\ va < KERNEL_LIMIT
                           \/ IsDevice(va)
         /\ Mapped(va) => Physical(va) = va
         /\ EL0Access(va) <=> va \in Sandbox
         /\ EL0Executes(va) <=> va \in Sandbox
         /\ EL1Executes(va) <=> KERNEL_LOAD_ADDR <= va /\ va < EL0_SANDBOX_BASE
<1> USE DEF Mapped, EL0Access, EL0Executes, EL1Executes, Mapping,
            block_desc_normal, block_desc_device, NO_DESC, Desc
<1>1. Walk(va) = Mapping(va)
  BY WalkIs
<1>2. /\ KERNEL_LOAD_ADDR \in Nat /\ EL0_SANDBOX_BASE \in Nat /\ KERNEL_LIMIT \in Nat
      /\ KERNEL_LOAD_ADDR < EL0_SANDBOX_BASE /\ EL0_SANDBOX_BASE < KERNEL_LIMIT
      /\ va \in Sandbox <=> EL0_SANDBOX_BASE <= va /\ va < KERNEL_LIMIT
      /\ el0_access(va) <=> va \in Sandbox
  BY Layout DEF Sandbox, el0_access
<1> HIDE DEF Mapping
<1>3. Mapped(va) => Physical(va) = va
  <2>1. (va \div BLOCK) * BLOCK + (va % BLOCK) = va
    BY Layout, Division
  <2>2. Mapped(va) => Walk(va).pa = (va \div BLOCK) * BLOCK
    BY <1>1 DEF Mapping
  <2> QED BY <2>1, <2>2 DEF Physical
<1>4. Mapped(va) <=> \/ KERNEL_LOAD_ADDR <= va /\ va < KERNEL_LIMIT
                     \/ IsDevice(va)
  BY <1>1 DEF Mapping
<1>5. EL0Access(va) <=> va \in Sandbox
  BY <1>1, <1>2 DEF Mapping
<1>6. EL0Executes(va) <=> va \in Sandbox
  <2>1. CASE KERNEL_LOAD_ADDR <= va /\ va < KERNEL_LIMIT
    <3>1. Walk(va).valid = TRUE /\ Walk(va).uxn = ~el0_access(va)
      BY <1>1, <2>1 DEF Mapping
    <3>2. EL0Executes(va) <=> el0_access(va)
      BY <3>1
    <3> QED BY <1>2, <3>2
  <2>2. CASE ~(KERNEL_LOAD_ADDR <= va /\ va < KERNEL_LIMIT)
    <3>1. Walk(va).valid = FALSE \/ Walk(va).uxn = TRUE
      BY <1>1, <2>2 DEF Mapping
    <3>2. ~EL0Executes(va)
      BY <3>1
    <3> QED BY <1>2, <2>2, <3>2
  <2> QED BY <2>1, <2>2
<1>7. EL1Executes(va) <=> KERNEL_LOAD_ADDR <= va /\ va < EL0_SANDBOX_BASE
  BY <1>1, <1>2 DEF Mapping
<1> QED BY <1>3, <1>4, <1>5, <1>6, <1>7

-----------------------------------------------------------------------------
(* The theorems                                                            *)

(* Under the kernel's own tables every mapped address is its own physical  *)
(* address, for any block size, table size and layout the assumptions      *)
(* admit; image, stack, devices and programs are mapped                    *)
(* (build_identity_map, mmu_init).                                         *)
THEOREM IdentityCorrect == MapSpec => []IdentityMap
<1>1. MapInv => IdentityMap
  <2> SUFFICES ASSUME MapInv, own PROVE IdentityMap
    BY DEF IdentityMap, UnderOwnMap
  <2>1. \A va \in Addresses : va \in Nat
    BY SandboxAssumption DEF Addresses
  <2>2. \A va \in Addresses : Mapped(va) => Physical(va) = va
    BY <2>1, MapIs
  <2>3. \A va \in KERNEL_LOAD_ADDR .. KERNEL_LIMIT - 1 :
          va \in Nat /\ KERNEL_LOAD_ADDR <= va /\ va < KERNEL_LIMIT
    BY Layout
  <2>4. \A va \in KERNEL_LOAD_ADDR .. KERNEL_LIMIT - 1 : Mapped(va)
    BY <2>3, MapIs
  <2>5. Mapped(GIC_MAP_BASE) /\ Mapped(PL011_MAP_BASE)
    BY MapIs, Layout DEF IsDevice
  <2> QED BY <2>2, <2>4, <2>5 DEF IdentityMap
<1> QED BY <1>1, MapInvHolds, PTL

(* EL0 reaches the sandbox and nothing else (block_desc_normal's access    *)
(* bits, el0_access in build_identity_map).                                *)
THEOREM SandboxCorrect == MapSpec => []SandboxExact
<1>1. MapInv => SandboxExact
  <2> SUFFICES ASSUME MapInv, own PROVE SandboxExact
    BY DEF SandboxExact, UnderOwnMap
  <2>1. \A va \in Addresses : va \in Nat
    BY SandboxAssumption DEF Addresses
  <2>2. \A va \in Addresses : EL0Access(va) <=> va \in Sandbox
    BY <2>1, MapIs
  <2>3. symbols.stackTop \in Int /\ symbols.stackTop <= EL0_SANDBOX_BASE
    BY DEF MapInv, SymbolsOK
  <2>4. \A va \in KERNEL_LOAD_ADDR .. symbols.stackTop - 1 :
          va \in Nat /\ va \notin Sandbox
    BY <2>3, Layout DEF Sandbox
  <2>5. \A va \in KERNEL_LOAD_ADDR .. symbols.stackTop - 1 : ~EL0Access(va)
    BY <2>4, MapIs
  <2> QED BY <2>2, <2>5 DEF SandboxExact
<1> QED BY <1>1, MapInvHolds, PTL

(* No address can be executed at both levels (the UXN and PXN bits of      *)
(* block_desc_normal and block_desc_device).                               *)
THEOREM ExecuteCorrect == MapSpec => []ExecuteApart
<1>1. MapInv => ExecuteApart
  <2> SUFFICES ASSUME MapInv, own, NEW va \in Addresses
               PROVE  /\ ~(EL0Executes(va) /\ EL1Executes(va))
                      /\ EL0Executes(va) <=> va \in Sandbox
                      /\ EL1Executes(va) => va >= KERNEL_LOAD_ADDR /\ ~EL0Access(va)
    BY DEF ExecuteApart, UnderOwnMap
  <2>1. va \in Nat
    BY SandboxAssumption DEF Addresses
  <2>2. va \in Sandbox => EL0_SANDBOX_BASE <= va
    BY Layout DEF Sandbox
  <2> QED BY <2>1, <2>2, MapIs, Layout
<1> QED BY <1>1, MapInvHolds, PTL

(* A kernel past its layout checks runs programs that fit                  *)
(* (validate_el0_layout).                                                  *)
THEOREM ProgramsCorrect == MapSpec => []ProgramsFit
<1>1. MapInv => ProgramsFit
  <2> SUFFICES ASSUME MapInv, own PROVE ProgramsFit
    BY DEF ProgramsFit, UnderOwnMap
  <2>1. LayoutChecked /\ SymbolsOK
    BY DEF MapInv, Running
  <2>2. /\ EL0_CODE_END \in Int /\ EL0_SANDBOX_BASE \in Nat
        /\ EL0_SANDBOX_BASE <= EL0_CODE_END /\ EL0_CODE_END <= EL0_SANDBOX_END
        /\ EL0_SANDBOX_END \in Nat
    BY Layout, StackAssumption, SandboxAssumption DEF EL0_CODE_END, EL0_SANDBOX_END
  <2>3. symbols.stacks = EL0_STACKS /\ symbols.sandboxEnd <= EL0_CODE_END
    BY <2>1 DEF LayoutChecked
  <2> SUFFICES ASSUME NEW t \in Tasks
               PROVE  /\ EL0Executes(symbols.entry[t])
                      /\ EL0_STACKS[t].bottom < EL0_STACKS[t].top
                      /\ \A va \in EL0_STACKS[t].bottom .. EL0_STACKS[t].top - 1 :
                           /\ EL0Access(va)
                           /\ va >= symbols.sandboxEnd
                           /\ \A o \in Tasks \ {t} :
                                va \notin EL0_STACKS[o].bottom .. EL0_STACKS[o].top - 1
    BY <2>3 DEF ProgramsFit
  <2>4. EL0Executes(symbols.entry[t])
    <3>1. /\ symbols.entry[t] \in Int /\ EL0_SANDBOX_BASE <= symbols.entry[t]
          /\ symbols.entry[t] < EL0_CODE_END
      BY <2>1 DEF SymbolsOK, LayoutChecked
    <3>2. symbols.entry[t] \in Nat /\ symbols.entry[t] \in Sandbox
      BY <2>2, <3>1 DEF Sandbox
    <3> QED BY <3>2, MapIs
  <2>5. \A o \in Tasks : /\ EL0_STACKS[o].bottom \in EL0_CODE_END .. EL0_SANDBOX_END
                         /\ EL0_STACKS[o].top \in EL0_CODE_END .. EL0_SANDBOX_END
    BY StackAssumption
  <2>6. EL0_STACKS[t].bottom < EL0_STACKS[t].top
    BY StackAssumption
  <2>7. ASSUME NEW va \in EL0_STACKS[t].bottom .. EL0_STACKS[t].top - 1
        PROVE  /\ EL0Access(va)
               /\ va >= symbols.sandboxEnd
               /\ \A o \in Tasks \ {t} :
                    va \notin EL0_STACKS[o].bottom .. EL0_STACKS[o].top - 1
    <3>1. va \in Nat /\ va \in Sandbox /\ EL0_CODE_END <= va
      BY <2>2, <2>5, <2>7 DEF Sandbox
    <3>2. EL0Access(va)
      BY <3>1, MapIs
    <3>3. va >= symbols.sandboxEnd
      BY <2>1, <2>2, <2>3, <3>1 DEF SymbolsOK
    <3>4. ASSUME NEW o \in Tasks \ {t}
          PROVE  va \notin EL0_STACKS[o].bottom .. EL0_STACKS[o].top - 1
      <4>1. \/ EL0_STACKS[t].top <= EL0_STACKS[o].bottom
            \/ EL0_STACKS[o].top <= EL0_STACKS[t].bottom
        BY StackAssumption
      <4> QED BY <2>2, <2>5, <2>7, <4>1
    <3> QED BY <3>2, <3>3, <3>4
  <2> QED BY <2>4, <2>6, <2>7
<1> QED BY <1>1, MapInvHolds, PTL
=============================================================================
