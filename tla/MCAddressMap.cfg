SPECIFICATION MapSpec
CONSTANTS
  WORD = 72
  BLOCK = 4
  TABLE = 4
  KERNEL_LOAD_ADDR = 16
  KERNEL_IDMAP_SIZE = 12
  EL0_SANDBOX_SIZE = 4
  EL0_CODE_SIZE = 1
  EL0_STACKS <- MCStacks
  GIC_MAP_BASE = 4
  PL011_MAP_BASE = 8
INVARIANTS IdentityMap SandboxExact ExecuteApart ProgramsFit CopyStaysInside
