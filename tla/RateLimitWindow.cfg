\* The claim that the bucket is the configured budget over any window, with a period that divides the window.
CONSTANTS
  Subjects = {alice}
  RATE_LIMIT_MAX_REQUESTS = 3
  RATE_LIMIT_WINDOW_SECONDS = 3
  TICKS_PER_SECOND = 2
  MaxUptime = 12
SPECIFICATION Spec
INVARIANT BudgetPerWindow
