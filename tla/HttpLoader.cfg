\* Two workers, one success wanted, two addresses, up to two faults.
SPECIFICATION HttpFairSpec
CONSTANTS
  NUM_WORKERS = 2
  NUM_REQUESTS = 1
  SUCCESS_CAP = 1
  MAX_QUEUE = 1
  MAX_FAILURES = 2
  ADDRESSES = 2
  MAX_FAULTS = 2
INVARIANTS
  DescriptorsOwned
  SuccessesAnswered
PROPERTIES
  ReturnsOrKilled
