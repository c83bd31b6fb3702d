CONSTANTS
  PIN_LEN = 2
  Digits = {0, 1, 2}
  MaxTyped = 5
  STEP_SECONDS = 2
  Hotp <- MCHotp
  SECRET = SECRET
  SKEW_STEPS = 1
  UNLOCK_DURATION = 4
  POLL_INTERVAL = 1
  LAG = 1
  BOOT_EPOCH = 1
  TICKS_PER_SECOND = 2
  CancelKey = CancelKey
  EnterKey = EnterKey
  Card = Card
  Unrecognized = Unrecognized
  None = None
  MaxUptime = 16
SPECIFICATION Spec
INVARIANTS TypeOK BufferIsTail SubmitsWhatWasTyped DeadlineArmed OverdueBound BoundedHold
PROPERTY ImplementsKeypadLock
