\* Two experiments, of 1 and 3 users; two think times per experiment, answers
\* at once and after more than a think time.
SPECIFICATION Spec
CONSTANTS
  FIRST_N = 1
  LAST_N = 4
  STEP_N = 2
  DURATION = 5
  THINK_TIME = 2
  BREAK = 1
  TIMEOUT = 3
  Staggers = {0, 1}
  Responses = {0, 3}
INVARIANTS
  ReportConsistent
  RequestsBounded
  OverrunBounded
