\* Two rates, in ticks of one second: the sleeps and the timeout of the code,
\* arrivals for 4 s instead of 180.
SPECIFICATION Spec
CONSTANTS
  ROUNDS = 2
  DURATION = 4
  LEAD = 1
  GRACE = 10
  PAUSE = 20
  TIMEOUT = 30
  Gaps = {1, 2}
  MAX_IN_FLIGHT = 4
INVARIANTS
  TypeOK
  RoundsApart
  EveryRequestCounted
  LatencyPerCompletion
  OnlyLateAnswersDisturb
