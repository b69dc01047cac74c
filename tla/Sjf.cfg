\* One core, shortest job first, no context-switch time, three threads on the
\* core, statistics after a warmup that ends within slices.
SPECIFICATION Spec
CONSTANTS
  SCHED_POLICY = "SJF"
  NUM_USERS = 3
  NUM_CORES = 1
  MAX_THREADS = 3
  THREAD_QUEUE_LIMIT = 1
  QUANTUM = 2
  CONTEXT_SWITCH_OVERHEAD = 0
  CLOSED_LOOP = TRUE
  SIMTIME = 8
  WARMUP_TIME = 4
  ServiceTimes = {1, 3, 4}
  Timeouts = {4}
  ThinkTimes = {1}
  StartTimes = {1, 2}
  DoneEps = 0
  CheckEps = 0
INVARIANTS
  UtilizationBound
PROPERTIES
  SJFKeysStable
  ImplementsUserLoop
