\* Ticks of a millisecond and the firmware's own constants; the widest gap between a keypad's bits
\* and the shortest silence after a burst that the capture tolerates.
CONSTANTS
  CancelKey = CancelKey
  EnterKey = EnterKey
  Card = Card
  Unrecognized = Unrecognized
  None = None
  MAX_BITS = 34
  MESSAGE_GAP = 25
  POLL_INTERVAL = 5
  LAG = 3
  ISR_LATENCY = 1
  BIT_GAP_MIN = 2
  BIT_GAP_MAX = 23
  SILENCE_MIN = 34
  Bursts <- KeypadBursts
  MaxOwed = 2
SPECIFICATION FairSpec
INVARIANT TypeOK
PROPERTIES FramesAreBursts EveryBurstArrives
