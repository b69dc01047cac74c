\* The busy time of a run with a warmup that ends within a slice.
SPECIFICATION Spec
CONSTANTS
  SCHED_POLICY = "RR"
  NUM_USERS = 2
  NUM_CORES = 1
  MAX_THREADS = 2
  THREAD_QUEUE_LIMIT = 1
  QUANTUM = 2
  CONTEXT_SWITCH_OVERHEAD = 0
  CLOSED_LOOP = TRUE
  SIMTIME = 8
  WARMUP_TIME = 4
  ServiceTimes = {1, 3}
  Timeouts = {4}
  ThinkTimes = {1}
  StartTimes = {1}
  DoneEps = 0
  CheckEps = 0
INVARIANTS
  UtilizationIsAFraction
