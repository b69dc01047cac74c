\* Three workers, two successes wanted, two tasks queued, one failed request.
SPECIFICATION FairSpec
CONSTANTS
  NUM_WORKERS = 3
  NUM_REQUESTS = 3
  SUCCESS_CAP = 2
  MAX_QUEUE = 2
  MAX_FAILURES = 1
INVARIANTS
  TypeOK
  EverySuccessRecorded
  ReportsTarget
  StopsAtTarget
  SurplusBounded
  NoSleepingPool
PROPERTIES
  RunReturns
