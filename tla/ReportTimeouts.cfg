\* The timeouts of a loaded run.
SPECIFICATION Spec
CONSTANTS
  SCHED_POLICY = "RR"
  NUM_USERS = 3
  NUM_CORES = 1
  MAX_THREADS = 2
  THREAD_QUEUE_LIMIT = 1
  QUANTUM = 2
  CONTEXT_SWITCH_OVERHEAD = 1
  CLOSED_LOOP = TRUE
  SIMTIME = 8
  WARMUP_TIME = 0
  ServiceTimes = {3}
  Timeouts = {3}
  ThinkTimes = {1}
  StartTimes = {1}
  DoneEps = 0
  CheckEps = 0
INVARIANTS
  EveryTimeoutCounted
