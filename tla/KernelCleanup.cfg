SPECIFICATION MCSpec
CONSTANTS
  THREAD_COUNT = 4
  THREAD_SLOT_TASK_A = 0
  THREAD_SLOT_TASK_B = 1
  THREAD_SLOT_TASK_C = 2
  THREAD_SLOT_IDLE = 3
  THREAD_QUANTUM_TICKS = 1
  BENCH_MODE = "LATENCY"
  KERNEL_FLAVOR = "MICRO"
  IPC_MSG_SIZE = 1
  Lengths <- MCLengths
  RetVals <- MCRetVals
INVARIANT CleanupClearsPending
