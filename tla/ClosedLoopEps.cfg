\* Ticks of 1e-6: a quantum of 10 and a request whose service is 5e-7 over
\* two quanta, rounded up to one tick.  One tick of remaining service is more
\* than the 1e-7 of handle_slice_end and not more than the 1e-6 of
\* handle_request_timeout.
SPECIFICATION Spec
CONSTANTS
  SCHED_POLICY = "RR"
  NUM_USERS = 2
  NUM_CORES = 1
  MAX_THREADS = 2
  THREAD_QUEUE_LIMIT = 1
  QUANTUM = 10000000
  CONTEXT_SWITCH_OVERHEAD = 200000
  CLOSED_LOOP = TRUE
  SIMTIME = 90000000
  WARMUP_TIME = 0
  ServiceTimes = {20000001, 30000000}
  Timeouts = {35000000}
  ThinkTimes = {10000000}
  StartTimes = {1000000}
  DoneEps = 0
  CheckEps = 1
INVARIANTS
  UsersComeBack
