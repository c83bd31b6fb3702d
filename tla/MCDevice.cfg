\* Scaled values, not the firmware's: what matters is the order of the timers.
CONSTANTS
  CancelKey = CancelKey
  EnterKey = EnterKey
  Card = Card
  Unrecognized = Unrecognized
  None = None
  MAX_BITS = 5
  MESSAGE_GAP = 3
  POLL_INTERVAL = 1
  LAG = 1
  ISR_LATENCY = 0
  BIT_GAP_MIN = 1
  BIT_GAP_MAX = 2
  SILENCE_MIN = 6
  Bursts <- DeviceBursts
  MaxOwed = 2
  PIN_LEN = 2
  Digits <- AllDigits
  MaxTyped = 5
  UNLOCK_DURATION = 30
SPECIFICATION FairDeviceSpec
INVARIANT DeviceTypeOK
PROPERTIES ChecksWhatWasPressed BoltIsThrown
