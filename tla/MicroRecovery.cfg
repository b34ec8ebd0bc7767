SPECIFICATION SysSpec
CONSTANTS
  THREAD_COUNT = 4
  THREAD_SLOT_TASK_A = 0
  THREAD_SLOT_TASK_B = 1
  THREAD_SLOT_TASK_C = 2
  THREAD_SLOT_IDLE = 3
  THREAD_QUANTUM_TICKS = 2
  BENCH_MODE = "RECOVERY"
  KERNEL_FLAVOR = "MICRO"
  IPC_MSG_SIZE = 2
  Lengths <- MCLengths
  RetVals <- MCRetVals
  SETTLE = 2
  BENCH_ITERATIONS = 2
  EMITS = 2
  WORD = 8
  PERIOD = 3
  MAX_LAG = 3
INVARIANT SpansRecovery
PROPERTY BenchmarkSucceeds
