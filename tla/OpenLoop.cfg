\* One request per user and no think loop: the events run out before simtime.
SPECIFICATION FairSpec
CONSTANTS
  SCHED_POLICY = "RR"
  NUM_USERS = 4
  NUM_CORES = 2
  MAX_THREADS = 2
  THREAD_QUEUE_LIMIT = 2
  QUANTUM = 2
  CONTEXT_SWITCH_OVERHEAD = 1
  CLOSED_LOOP = FALSE
  SIMTIME = 60
  WARMUP_TIME = 0
  ServiceTimes = {1, 3, 5}
  Timeouts = {20}
  ThinkTimes = {1}
  StartTimes = {1, 2}
  DoneEps = 0
  CheckEps = 0
INVARIANTS
  ThreadInOnePlace
  NothingStranded
PROPERTIES
  Terminates
