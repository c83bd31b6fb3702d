\* Two requests in three seconds of three ticks: a period of four ticks and a half, cut to four.
CONSTANTS
  Subjects = {alice, bob}
  RATE_LIMIT_MAX_REQUESTS = 2
  RATE_LIMIT_WINDOW_SECONDS = 3
  TICKS_PER_SECOND = 3
  MaxUptime = 9
SPECIFICATION Spec
INVARIANTS TypeOK RateBound RefusedOnlyWhenSpent
PROPERTY ImplementsTokenBucket
