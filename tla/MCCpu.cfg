SPECIFICATION CpuSpec
CONSTANTS
  THREAD_COUNT = 3
  THREAD_SLOT_TASK_A = 0
  THREAD_SLOT_TASK_B = 0
  THREAD_SLOT_TASK_C = 1
  THREAD_SLOT_IDLE = 2
  THREAD_QUANTUM_TICKS = 1
  RetVals <- MCRetVals
  POINTS = 2
INVARIANTS ContextIntact ResultDelivered KernelStackBounded IrqTransparent
PROPERTY ImplementsThread
