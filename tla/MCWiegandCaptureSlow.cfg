\* Ticks of five milliseconds; bits 20 to 100 ms apart, as the comment on MESSAGE_GAP
\* says keypads send them, and half a second of silence after a key.
CONSTANTS
  CancelKey = CancelKey
  EnterKey = EnterKey
  Card = Card
  Unrecognized = Unrecognized
  None = None
  MAX_BITS = 34
  MESSAGE_GAP = 5
  POLL_INTERVAL = 1
  LAG = 0
  ISR_LATENCY = 0
  BIT_GAP_MIN = 4
  BIT_GAP_MAX = 20
  SILENCE_MIN = 100
  Bursts <- EnterBurst
  MaxOwed = 2
SPECIFICATION FairSpec
PROPERTY FramesAreBursts
