\* Command lines of up to four words, and mean value analysis of four users.
SPECIFICATION Spec
CONSTANTS
  MAX_WORDS = 4
  WEBSIM_WORDS = {"--users", "--rng_seed", "--service_time_dist", "--service_time_avg",
                  "--timeout_lower", "--sched_policy", "--closed_loop", "--help",
                  "uniform", "constant", "SJF", "7x", "20"}
  LOADER_WORDS = {"--num-requests", "--workers", "--csv", "--cpus", "--help",
                  "0", "7x", "20", "out"}
  USERS_MAX = 4
  SERVICES = {1, 2}
  OVERHEADS = {0, 1}
  QUANTA = {1, 2}
  THINKS = {0, 1, 3}
INVARIANTS
  RunsAsTold
  RunsIfSound
  SamplersAsTold
  UtilizationAtMostOne
  ProductForm
