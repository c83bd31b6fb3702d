------------------------------ MODULE DeviceProofs ------------------------------
(* For every buffer size, gap, polling interval and interrupt latency that the    *)
(* keypad's timing leaves room for: the main loop takes whole bursts and nothing  *)
(* else, and at an Enter the lock checks the digits that were pressed, also when  *)
(* power failed on the way.                                                       *)
EXTENDS Device, PinEntryProofs

---------------------------------------------------------------------------------
(* The capture's types *)

Frames == (0 .. 9) \cup {CancelKey, EnterKey, Card, Unrecognized, None}

\* What the types say without what the keypad is known to send, which a power failure cuts.
CaptureTypes == /\ bits \in Seq({0, 1}) /\ Len(bits) <= MAX_BITS
                /\ last_edge \in Nat \cup {None}
                /\ latched \subseteq {0, 1}
                /\ waiting \in 0 .. ISR_LATENCY
                /\ pollAge \in 0 .. POLL_INTERVAL + LAG
                /\ sending \in Seq({0, 1})
                /\ quiet \in 0 .. SILENCE_MIN
                /\ frame \in Frames
                /\ owed \in Seq(Seq({0, 1}))

\* Whatever the bits, decoding yields a key, a card or an unrecognized frame.
LEMMA DecodedIsFrame ==
  ASSUME NEW s
  PROVE  DecodeFrame(s) \in Frames
<1>1. DecodeNibble(s) \in Frames
  <2> DEFINE value == BitsToNat(s)
  <2> HIDE DEF value
  <2>1. (CASE value \in 0 .. 9 -> value
           [] value = 10 -> CancelKey
           [] value = 11 -> EnterKey
           [] OTHER -> Unrecognized) \in Frames
    BY DEF Frames
  <2> QED BY <2>1 DEF DecodeNibble, value
<1> QED BY <1>1 DEF DecodeFrame, Frames

\* push_bit makes room for the bit and never outgrows the buffer.
LEMMA PushBitFacts ==
  ASSUME NEW s \in Seq({0, 1}), Len(s) <= MAX_BITS, NEW bit \in {0, 1}
  PROVE  /\ PushBit(s, bit) \in Seq({0, 1})
         /\ Len(PushBit(s, bit)) = IF Len(s) = MAX_BITS THEN MAX_BITS ELSE Len(s) + 1
         /\ PushBit(s, bit)[Len(PushBit(s, bit))] = bit
         /\ \A i \in 1 .. Len(PushBit(s, bit)) - 1 :
              PushBit(s, bit)[i] = s[Len(s) - Len(PushBit(s, bit)) + 1 + i]
<1>1. MAX_BITS \in Nat \ {0}
  BY CaptureAssumption
<1>2. CASE Len(s) = MAX_BITS
  <2> DEFINE t == Tail(s)
  <2>1. /\ t \in Seq({0, 1}) /\ Len(t) = MAX_BITS - 1
        /\ \A i \in 1 .. Len(t) : t[i] = s[i + 1]
    BY <1>1, <1>2
  <2>2. PushBit(s, bit) = Append(t, bit)
    BY <1>2 DEF PushBit
  <2> HIDE DEF t
  <2> QED BY <1>1, <1>2, <2>1, <2>2
<1>3. CASE Len(s) # MAX_BITS
  <2>1. PushBit(s, bit) = Append(s, bit)
    BY <1>3 DEF PushBit
  <2> QED BY <1>1, <1>3, <2>1
<1> QED BY <1>2, <1>3

\* What a burst is made of.
LEMMA BurstFacts ==
  ASSUME NEW b \in Seq({0, 1}), b # <<>>
  PROVE  /\ Len(b) \in Nat \ {0}
         /\ Head(b) \in {0, 1} /\ Head(b) = b[1]
         /\ Tail(b) \in Seq({0, 1}) /\ Len(Tail(b)) = Len(b) - 1
         /\ \A i \in 1 .. Len(b) - 1 : Tail(b)[i] = b[i + 1]
OBVIOUS

\* What a pulse does to the lines.
LEMMA PulseTypes ==
  ASSUME CaptureTypes, NEW bit \in {0, 1}, Pulse(bit),
         sending' \in Seq({0, 1}), owed' \in Seq(Seq({0, 1}))
  PROVE  CaptureTypes'
<1>1. latched' \subseteq {0, 1}
  BY DEF Pulse, CaptureTypes
<1>2. waiting' \in 0 .. ISR_LATENCY /\ quiet' \in 0 .. SILENCE_MIN
  BY CaptureAssumption DEF Pulse, CaptureTypes
<1> QED BY <1>1, <1>2, Zenon DEF Pulse, CaptureTypes

\* A pulse keeps the types.
LEMMA PulseKeepsTypes ==
  ASSUME CaptureTypes, StartBurst \/ SendBit
  PROVE  CaptureTypes'
<1>1. CASE StartBurst
  <2>1. PICK burst \in Bursts : /\ Pulse(Head(burst))
                                /\ sending' = Tail(burst)
                                /\ owed' = Append(owed, burst)
    BY <1>1 DEF StartBurst
  <2>2. burst \in Seq({0, 1}) /\ burst # <<>>
    BY CaptureAssumption
  <2>3. Head(burst) \in {0, 1} /\ sending' \in Seq({0, 1}) /\ owed' \in Seq(Seq({0, 1}))
    BY <2>1, <2>2, BurstFacts DEF CaptureTypes
  <2> QED BY <2>1, <2>3, PulseTypes
<1>2. CASE SendBit
  <2>1. Head(sending) \in {0, 1} /\ Tail(sending) \in Seq({0, 1})
    BY <1>2, BurstFacts DEF SendBit, CaptureTypes
  <2>2. sending' \in Seq({0, 1}) /\ owed' \in Seq(Seq({0, 1}))
    BY <1>2, <2>1 DEF SendBit, CaptureTypes
  <2> QED BY <1>2, <2>1, <2>2, PulseTypes DEF SendBit
<1> QED BY <1>1, <1>2

\* What the handler appends, one bit or both.
LEMMA InterruptKeepsTypes ==
  ASSUME CaptureTypes, on_gpio_interrupt
  PROVE  CaptureTypes'
<1> DEFINE with0 == IF 0 \in latched THEN PushBit(bits, 0) ELSE bits
<1>1. bits' = IF 1 \in latched THEN PushBit(with0, 1) ELSE with0
  BY DEF on_gpio_interrupt
<1>2. MAX_BITS \in Nat \ {0} /\ bits \in Seq({0, 1}) /\ Len(bits) <= MAX_BITS
  BY CaptureAssumption DEF CaptureTypes
<1>3. with0 \in Seq({0, 1}) /\ Len(with0) <= MAX_BITS
  <2>1. PushBit(bits, 0) \in Seq({0, 1}) /\ Len(PushBit(bits, 0)) <= MAX_BITS
    BY <1>2, PushBitFacts
  <2> QED BY <1>2, <2>1
<1> HIDE DEF with0
<1>4. bits' \in Seq({0, 1}) /\ Len(bits') <= MAX_BITS
  <2>1. PushBit(with0, 1) \in Seq({0, 1}) /\ Len(PushBit(with0, 1)) <= MAX_BITS
    BY <1>2, <1>3, PushBitFacts
  <2> QED BY <1>1, <1>3, <2>1
<1> QED BY <1>4 DEF CaptureTypes, on_gpio_interrupt, EdgeSeen

\* The loop's look and the passing of time keep them.
LEMMA LoopKeepsTypes ==
  ASSUME CaptureTypes, Poll \/ Tick
  PROVE  CaptureTypes'
<1>1. CASE Poll
  <2>1. CASE TakeFrame
    <3>1. frame' \in Frames
      BY <2>1, DecodedIsFrame DEF TakeFrame
    <3>2. owed' \in Seq(Seq({0, 1}))
      BY <2>1 DEF TakeFrame, CaptureTypes
    <3>3. bits' \in Seq({0, 1}) /\ Len(bits') <= MAX_BITS
      BY <2>1, CaptureAssumption DEF TakeFrame
    <3> QED BY <1>1, <2>1, <3>1, <3>2, <3>3, CaptureAssumption DEF Poll, TakeFrame, CaptureTypes
  <2>2. CASE NothingYet
    BY <1>1, <2>2, CaptureAssumption DEF Poll, NothingYet, CaptureTypes
  <2> QED BY <1>1, <2>1, <2>2 DEF Poll
<1>2. CASE Tick
  BY <1>2, CaptureAssumption DEF Tick, CaptureTypes
<1> QED BY <1>1, <1>2

\* Every step of the capture keeps the types.
LEMMA CaptureKeepsTypes ==
  ASSUME CaptureTypes, Next
  PROVE  CaptureTypes'
BY PulseKeepsTypes, InterruptKeepsTypes, LoopKeepsTypes DEF Next

\* The type invariant, with the bursts that the keypad is known to send.
LEMMA TypeOKSplits ==
  TypeOK <=> CaptureTypes /\ owed \in Seq(Bursts) /\ Len(owed) <= MaxOwed
<1>1. owed \in Seq(Bursts) => owed \in Seq(Seq({0, 1}))
  BY CaptureAssumption
<1> QED BY <1>1, Zenon DEF TypeOK, CaptureTypes, Frames

\* Type correctness of the capture, whatever the timing: the buffer holds at most MAX_BITS bits,
\* an edge waits at most ISR_LATENCY for its handler, and each frame is a key, a card or
\* noise.
THEOREM CaptureTypeCorrect == Spec => []TypeOK
<1>1. Init => TypeOK
  BY CaptureAssumption DEF Init, TypeOK
<1>2. TypeOK /\ [Next]_vars => TypeOK'
  <2> SUFFICES ASSUME TypeOK, [Next]_vars PROVE TypeOK'
    OBVIOUS
  <2>1. CaptureTypes /\ owed \in Seq(Bursts) /\ Len(owed) <= MaxOwed
    BY TypeOKSplits
  <2>2. CASE UNCHANGED vars
    BY <2>2, Zenon DEF vars, TypeOK
  <2>3. CASE Next
    <3>1. CaptureTypes'
      BY <2>1, <2>3, CaptureKeepsTypes
    <3>2. owed' \in Seq(Bursts) /\ Len(owed') <= MaxOwed
      <4>1. CASE StartBurst
        <5>1. PICK burst \in Bursts : owed' = Append(owed, burst)
          BY <4>1 DEF StartBurst
        <5> QED BY <2>1, <4>1, <5>1, CaptureAssumption DEF StartBurst
      <4>2. CASE Poll /\ TakeFrame
        BY <2>1, <4>2, CaptureAssumption DEF TakeFrame
      <4>3. CASE UNCHANGED owed
        BY <2>1, <4>3
      <4> QED BY <2>3, <4>1, <4>2, <4>3
        DEF Next, SendBit, on_gpio_interrupt, Poll, NothingYet, Tick
    <3>3. owed' \in Seq(Seq({0, 1}))
      BY <3>1 DEF CaptureTypes
    <3> QED BY <3>1, <3>2, Zenon DEF TypeOK, CaptureTypes, Frames
  <2> QED BY <2>2, <2>3
<1> QED BY <1>1, <1>2, PTL DEF Spec

---------------------------------------------------------------------------------
(* Whole bursts *)

\* Bits of burst b that the keypad has sent, and those of them that the handler has seen.
Sent(b) == Len(b) - Len(sending)
Seen(b) == IF latched = {} THEN Sent(b) ELSE Sent(b) - 1

\* Where the bits of burst b are: the end of it still in the keypad, at most one bit latched, and
\* of those before it the last MAX_BITS in the buffer.
Whereabouts(b) ==
  /\ Len(b) > 0
  /\ Sent(b) >= 0 /\ Seen(b) >= 0
  /\ \A i \in 1 .. Len(sending) : sending[i] = b[Sent(b) + i]
  /\ latched # {} => latched = {b[Sent(b)]}
  /\ Len(bits) = IF Seen(b) < MAX_BITS THEN Seen(b) ELSE MAX_BITS
  /\ \A i \in 1 .. Len(bits) : bits[i] = b[Seen(b) - Len(bits) + i]

\* At most one burst is under way, and every bit anywhere belongs to it.
OneBurst ==
  /\ owed = <<>> => bits = <<>> /\ latched = {} /\ sending = <<>>
  /\ owed # <<>> => Len(owed) = 1 /\ Whereabouts(owed[1])

\* How the clocks stand to one another: the age of the last edge, the time since the last pulse,
\* and how long the loop has not looked at a frame that it could take.
ClocksAgree ==
  /\ last_edge = None <=> bits = <<>>
  /\ sending # <<>> => quiet <= BIT_GAP_MAX
  /\ latched # {} => quiet <= waiting
  /\ last_edge # None =>
       /\ latched # {} => last_edge <= waiting + BIT_GAP_MAX
       /\ latched = {} /\ sending # <<>> => last_edge <= quiet
       /\ latched = {} => quiet <= last_edge + ISR_LATENCY
       /\ last_edge >= MESSAGE_GAP => pollAge > last_edge - MESSAGE_GAP

\* The inductive invariant of the capture.
CaptureInv == CaptureTypes /\ OneBurst /\ ClocksAgree

\* In a state of the invariant, a burst begins only when the one before it has been taken.
LEMMA StartsAlone ==
  ASSUME CaptureInv, TimingTolerated, sending = <<>>, quiet = SILENCE_MIN
  PROVE  owed = <<>> /\ latched = {} /\ bits = <<>> /\ last_edge = None
<1> USE CaptureAssumption
<1>1. latched = {}
  BY DEF CaptureInv, CaptureTypes, ClocksAgree, TimingTolerated
<1>2. ~(last_edge # None)
  <2> SUFFICES ASSUME last_edge # None PROVE FALSE
    OBVIOUS
  <2>1. /\ last_edge \in Nat
        /\ SILENCE_MIN <= last_edge + ISR_LATENCY
        /\ last_edge >= MESSAGE_GAP => pollAge > last_edge - MESSAGE_GAP
        /\ pollAge \in Nat /\ pollAge <= POLL_INTERVAL + LAG
    BY <1>1 DEF CaptureInv, CaptureTypes, ClocksAgree
  <2> QED BY <2>1 DEF TimingTolerated
<1>3. bits = <<>>
  BY <1>2 DEF CaptureInv, ClocksAgree
<1>4. ~(owed # <<>>)
  <2> SUFFICES ASSUME owed # <<>> PROVE FALSE
    OBVIOUS
  <2>1. Whereabouts(owed[1]) /\ owed[1] \in Seq({0, 1})
    BY DEF CaptureInv, OneBurst, CaptureTypes
  <2>2. Seen(owed[1]) = Len(owed[1]) /\ Len(owed[1]) \in Nat
    BY <1>1, <2>1 DEF Seen, Sent
  <2> QED BY <1>3, <2>1, <2>2 DEF Whereabouts
<1> QED BY <1>1, <1>2, <1>3, <1>4

\* The first pulse of a burst.
LEMMA StartBurstKeepsInv ==
  ASSUME CaptureInv, TimingTolerated, StartBurst
  PROVE  CaptureInv'
<1> USE CaptureAssumption
<1>1. owed = <<>> /\ latched = {} /\ bits = <<>> /\ last_edge = None
  BY StartsAlone DEF StartBurst
<1>2. PICK b \in Bursts : Pulse(Head(b)) /\ sending' = Tail(b) /\ owed' = Append(owed, b)
  BY DEF StartBurst
<1>3. /\ Len(b) \in Nat \ {0} /\ Head(b) = b[1]
      /\ Len(sending') = Len(b) - 1
      /\ \A i \in 1 .. Len(b) - 1 : sending'[i] = b[i + 1]
  BY <1>2, BurstFacts
<1>4. owed' = <<b>> /\ Len(owed') = 1 /\ owed'[1] = b /\ owed' # <<>>
  BY <1>1, <1>2
<1>5. /\ latched' = {b[1]} /\ waiting' = 0 /\ quiet' = 0
      /\ bits' = <<>> /\ last_edge' = None /\ pollAge' = pollAge
  BY <1>1, <1>2, <1>3 DEF Pulse
<1>6. Whereabouts(b)'
  <2>1. Sent(b)' = 1
    BY <1>3 DEF Sent
  <2>2. Seen(b)' = 0
    BY <1>5, <2>1 DEF Seen
  <2>3. Len(bits') = 0 /\ \A i \in 1 .. Len(sending') : sending'[i] = b[Sent(b)' + i]
    BY <1>3, <1>5, <2>1
  <2> QED BY <1>3, <1>5, <2>1, <2>2, <2>3 DEF Whereabouts
<1>7. OneBurst'
  BY <1>4, <1>6 DEF OneBurst
<1>8. ClocksAgree'
  BY <1>5 DEF ClocksAgree
<1> QED BY <1>7, <1>8, PulseKeepsTypes DEF CaptureInv

\* Its further pulses: the handler is done with the one before.
LEMMA SendBitKeepsInv ==
  ASSUME CaptureInv, TimingTolerated, SendBit
  PROVE  CaptureInv'
<1> USE CaptureAssumption
<1> DEFINE b == owed[1]
<1>1. latched = {}
  BY DEF CaptureInv, CaptureTypes, ClocksAgree, TimingTolerated, SendBit
<1>2. owed # <<>> /\ Len(owed) = 1 /\ Whereabouts(b) /\ b \in Seq({0, 1})
  BY DEF CaptureInv, CaptureTypes, OneBurst, SendBit
<1>3. sending \in Seq({0, 1}) /\ sending # <<>> /\ owed' = owed /\ quiet <= BIT_GAP_MAX
  BY DEF CaptureInv, CaptureTypes, ClocksAgree, SendBit
<1> HIDE DEF b
<1>4. /\ Len(sending) \in Nat \ {0} /\ Head(sending) = sending[1]
      /\ Len(sending') = Len(sending) - 1
      /\ \A i \in 1 .. Len(sending) - 1 : sending'[i] = sending[i + 1]
  BY <1>3, BurstFacts DEF SendBit
<1>5. /\ latched' = {sending[1]} /\ waiting' = 0 /\ quiet' = 0
      /\ bits' = bits /\ last_edge' = last_edge /\ pollAge' = pollAge
  BY <1>1, <1>4 DEF SendBit, Pulse
<1>6. Len(b) \in Nat /\ Sent(b) \in Nat /\ Seen(b) = Sent(b) /\ Sent(b)' = Sent(b) + 1
  <2>1. Len(b) \in Nat /\ b' = b
    BY <1>2, <1>3 DEF b
  <2>2. Sent(b) \in Nat
    BY <1>2, <1>4, <2>1 DEF Whereabouts, Sent
  <2>3. Sent(b)' = Sent(b) + 1
    BY <1>4, <2>1 DEF Sent
  <2> QED BY <1>1, <2>1, <2>2, <2>3 DEF Seen
<1>7. Seen(b)' = Seen(b)
  BY <1>5, <1>6 DEF Seen
<1>8. Whereabouts(b)'
  <2>1. sending[1] = b[Sent(b) + 1]
    BY <1>2, <1>4 DEF Whereabouts
  <2>2. \A i \in 1 .. Len(sending') : sending'[i] = b[Sent(b)' + i]
    <3> SUFFICES ASSUME NEW i \in 1 .. Len(sending') PROVE sending'[i] = b[Sent(b)' + i]
      OBVIOUS
    <3>1. i + 1 \in 1 .. Len(sending) /\ sending'[i] = sending[i + 1]
      BY <1>4
    <3>2. sending[i + 1] = b[Sent(b) + (i + 1)]
      BY <1>2, <3>1 DEF Whereabouts
    <3>3. Sent(b) + (i + 1) = Sent(b)' + i
      BY <1>4, <1>6
    <3> QED BY <3>1, <3>2, <3>3
  <2>3. b' = b
    BY <1>3 DEF b
  <2> QED BY <1>2, <1>5, <1>6, <1>7, <2>1, <2>2, <2>3 DEF Whereabouts
<1>9. OneBurst'
  BY <1>2, <1>3, <1>8 DEF OneBurst, b
<1>10. ClocksAgree'
  <2>1. last_edge # None => last_edge \in Nat /\ last_edge <= quiet /\ quiet \in Nat
    BY <1>1, <1>3 DEF CaptureInv, CaptureTypes, ClocksAgree
  <2> QED BY <1>3, <1>5, <2>1 DEF CaptureInv, ClocksAgree
<1> QED BY <1>9, <1>10, PulseKeepsTypes DEF CaptureInv

\* The handler moves the one latched bit to the end of the buffer.
LEMMA InterruptKeepsInv ==
  ASSUME CaptureInv, TimingTolerated, on_gpio_interrupt
  PROVE  CaptureInv'
<1> USE CaptureAssumption
<1> DEFINE b == owed[1]
           bit == b[Sent(b)]
<1>1. latched # {} /\ latched' = {} /\ last_edge' = 0
      /\ UNCHANGED <<waiting, pollAge, sending, quiet, frame, owed>>
  BY DEF on_gpio_interrupt, EdgeSeen
<1>2. owed # <<>> /\ Len(owed) = 1 /\ Whereabouts(b) /\ b \in Seq({0, 1}) /\ b' = b
  <2>1. owed # <<>> /\ Len(owed) = 1 /\ Whereabouts(b)
    BY <1>1 DEF CaptureInv, OneBurst
  <2>2. b \in Seq({0, 1})
    BY <2>1 DEF CaptureInv, CaptureTypes
  <2>3. b' = b
    BY <1>1
  <2> QED BY <2>1, <2>2, <2>3
<1>3. latched = {bit} /\ bit \in {0, 1}
  BY <1>1, <1>2 DEF CaptureInv, CaptureTypes, Whereabouts
<1> HIDE DEF b
<1>4. bits' = PushBit(bits, bit)
  <2> HIDE DEF bit
  <2>1. CASE bit = 0
    BY <1>3, <2>1 DEF on_gpio_interrupt
  <2>2. CASE bit = 1
    BY <1>3, <2>2 DEF on_gpio_interrupt
  <2> QED BY <1>3, <2>1, <2>2
<1>5. /\ Len(b) \in Nat /\ Sent(b) \in Nat /\ Seen(b) \in Nat /\ Seen(b) = Sent(b) - 1
      /\ Sent(b)' = Sent(b) /\ Seen(b)' = Seen(b) + 1
  <2>1. Len(b) \in Nat /\ Len(sending) \in Nat
    BY <1>2 DEF CaptureInv, CaptureTypes
  <2>2. Sent(b) \in Nat /\ Seen(b) \in Nat /\ Seen(b) = Sent(b) - 1
    BY <1>1, <1>2, <2>1 DEF Whereabouts, Sent, Seen
  <2>3. Sent(b)' = Sent(b)
    BY <1>1, <1>2 DEF Sent
  <2> QED BY <1>1, <2>2, <2>3 DEF Seen
<1>6. bits \in Seq({0, 1}) /\ Len(bits) <= MAX_BITS /\ Len(bits) \in Nat /\ MAX_BITS \in Nat \ {0}
  BY DEF CaptureInv, CaptureTypes
<1>7. /\ Len(bits) = IF Seen(b) < MAX_BITS THEN Seen(b) ELSE MAX_BITS
      /\ \A i \in 1 .. Len(bits) : bits[i] = b[Seen(b) - Len(bits) + i]
  BY <1>2 DEF Whereabouts
<1>8. /\ Len(bits') = IF Len(bits) = MAX_BITS THEN MAX_BITS ELSE Len(bits) + 1
      /\ bits'[Len(bits')] = bit
      /\ \A i \in 1 .. Len(bits') - 1 : bits'[i] = bits[Len(bits) - Len(bits') + 1 + i]
  BY <1>3, <1>4, <1>6, PushBitFacts
<1>9. Len(bits') = IF Seen(b)' < MAX_BITS THEN Seen(b)' ELSE MAX_BITS
  BY <1>5, <1>6, <1>7, <1>8
<1>10. \A i \in 1 .. Len(bits') : bits'[i] = b[Seen(b)' - Len(bits') + i]
  <2> SUFFICES ASSUME NEW i \in 1 .. Len(bits') PROVE bits'[i] = b[Seen(b)' - Len(bits') + i]
    OBVIOUS
  <2>1. CASE i = Len(bits')
    <3>1. Seen(b)' - Len(bits') + i = Sent(b)
      BY <1>5, <1>6, <1>8, <2>1
    <3> QED BY <1>8, <2>1, <3>1
  <2>2. CASE i # Len(bits')
    <3> DEFINE j == Len(bits) - Len(bits') + 1 + i
    <3>1. i \in 1 .. Len(bits') - 1 /\ j \in 1 .. Len(bits)
      BY <1>6, <1>8, <2>2
    <3>2. bits'[i] = bits[j]
      BY <1>8, <3>1
    <3>3. bits[j] = b[Seen(b) - Len(bits) + j]
      BY <1>7, <3>1
    <3>4. Seen(b) - Len(bits) + j = Seen(b)' - Len(bits') + i
      <4>1. Len(bits') \in Nat /\ i \in Int
        BY <1>6, <1>8
      <4> HIDE DEF bit
      <4> QED BY <1>5, <1>6, <4>1
    <3> HIDE DEF j
    <3> QED BY <3>2, <3>3, <3>4
  <2> QED BY <2>1, <2>2
<1>11. Whereabouts(b)'
  <2>1. \A i \in 1 .. Len(sending') : sending'[i] = b[Sent(b)' + i]
    BY <1>1, <1>2, <1>5 DEF Whereabouts
  <2> QED BY <1>1, <1>2, <1>5, <1>9, <1>10, <2>1 DEF Whereabouts
<1>12. OneBurst'
  BY <1>1, <1>2, <1>11 DEF OneBurst, b
<1>13. ClocksAgree'
  <2>1. bits' # <<>>
    BY <1>6, <1>8
  <2>2. /\ quiet \in Nat /\ waiting \in Nat /\ quiet <= waiting /\ waiting <= ISR_LATENCY
        /\ sending # <<>> => quiet <= BIT_GAP_MAX
    BY <1>1 DEF CaptureInv, CaptureTypes, ClocksAgree
  <2> QED BY <1>1, <2>1, <2>2 DEF ClocksAgree
<1> QED BY <1>12, <1>13, InterruptKeepsTypes DEF CaptureInv

\* When the loop may take a frame, the burst is complete: nothing of it is still to come.
LEMMA CompletedIsWhole ==
  ASSUME CaptureInv, TimingTolerated, Completed
  PROVE  /\ sending = <<>> /\ latched = {}
         /\ owed # <<>> /\ Len(owed) = 1
         /\ Len(owed[1]) <= MAX_BITS => bits = owed[1]
         /\ Len(owed[1]) > MAX_BITS => Len(bits) = MAX_BITS
<1> USE CaptureAssumption
<1>1. latched = {} /\ sending = <<>>
  BY DEF CaptureInv, CaptureTypes, ClocksAgree, TimingTolerated, Completed
<1>2. /\ owed # <<>> /\ Len(owed) = 1 /\ Whereabouts(owed[1])
      /\ owed[1] \in Seq({0, 1}) /\ bits \in Seq({0, 1})
  BY DEF CaptureInv, CaptureTypes, OneBurst, Completed
<1>3. Seen(owed[1]) = Len(owed[1]) /\ Len(owed[1]) \in Nat
  BY <1>1, <1>2 DEF Seen, Sent
<1>4. /\ Len(bits) = IF Len(owed[1]) < MAX_BITS THEN Len(owed[1]) ELSE MAX_BITS
      /\ \A i \in 1 .. Len(bits) : bits[i] = owed[1][Len(owed[1]) - Len(bits) + i]
  BY <1>2, <1>3 DEF Whereabouts
<1>5. ASSUME Len(owed[1]) <= MAX_BITS PROVE bits = owed[1]
  <2>1. Len(bits) = Len(owed[1])
    BY <1>3, <1>4, <1>5
  <2>2. \A i \in 1 .. Len(bits) : bits[i] = owed[1][i]
    <3> SUFFICES ASSUME NEW i \in 1 .. Len(bits) PROVE bits[i] = owed[1][i]
      OBVIOUS
    <3>1. Len(owed[1]) - Len(bits) + i = i
      BY <1>3, <2>1
    <3> QED BY <1>4, <3>1
  <2> QED BY <1>2, <2>1, <2>2
<1> QED BY <1>1, <1>2, <1>3, <1>4, <1>5

\* The loop's look keeps the invariant.
LEMMA PollKeepsInv ==
  ASSUME CaptureInv, TimingTolerated, Poll
  PROVE  CaptureInv'
<1> USE CaptureAssumption
<1>1. CASE TakeFrame
  <2>1. sending = <<>> /\ latched = {} /\ owed # <<>> /\ Len(owed) = 1
    BY <1>1, CompletedIsWhole DEF TakeFrame
  <2>2. owed' = <<>> /\ bits' = <<>> /\ last_edge' = None /\ UNCHANGED <<sending, latched>>
    <3>1. owed \in Seq(Seq({0, 1}))
      BY DEF CaptureInv, CaptureTypes
    <3>2. Tail(owed) \in Seq(Seq({0, 1})) /\ Len(Tail(owed)) = 0
      BY <2>1, <3>1
    <3> QED BY <1>1, <2>1, <3>2 DEF TakeFrame, Poll
  <2>3. OneBurst' /\ ClocksAgree'
    BY <2>1, <2>2 DEF OneBurst, ClocksAgree
  <2> QED BY <2>3, LoopKeepsTypes DEF CaptureInv
<1>2. CASE NothingYet
  <2>1. UNCHANGED <<bits, last_edge, owed, latched, waiting, sending, quiet>> /\ pollAge' = 0
    BY <1>2 DEF Poll, NothingYet
  <2>2. OneBurst'
    BY <2>1 DEF CaptureInv, OneBurst, Whereabouts, Sent, Seen
  <2>3. ~(last_edge # None /\ last_edge >= MESSAGE_GAP)
    BY <1>2 DEF NothingYet, Completed, CaptureInv, ClocksAgree
  <2>4. ClocksAgree'
    BY <2>1, <2>3 DEF CaptureInv, ClocksAgree
  <2> QED BY <2>2, <2>4, LoopKeepsTypes DEF CaptureInv
<1> QED BY <1>1, <1>2 DEF Poll

\* Time keeps it: every clock that must not run ahead of another moves with it.
LEMMA TickKeepsInv ==
  ASSUME CaptureInv, TimingTolerated, Tick
  PROVE  CaptureInv'
<1> USE CaptureAssumption
<1>1. UNCHANGED <<bits, owed, latched, sending>>
  BY DEF Tick
<1>2. OneBurst'
  BY <1>1 DEF CaptureInv, OneBurst, Whereabouts, Sent, Seen
<1>3. /\ waiting \in Nat /\ quiet \in Nat /\ pollAge \in Nat /\ pollAge' = pollAge + 1
      /\ (quiet' = quiet \/ quiet' = quiet + 1)
      /\ latched # {} => waiting' = waiting + 1
      /\ sending # <<>> => quiet < BIT_GAP_MAX /\ quiet' = quiet + 1
      /\ last_edge # None => last_edge \in Nat /\ last_edge' = last_edge + 1 /\ last_edge' # None
      /\ last_edge = None => last_edge' = None
  <2>1. /\ waiting \in Nat /\ quiet \in Nat /\ pollAge \in Nat /\ last_edge \in Nat \cup {None}
        /\ quiet <= SILENCE_MIN
    BY DEF CaptureInv, CaptureTypes
  <2>2. pollAge' = pollAge + 1 /\ (latched # {} => waiting' = waiting + 1)
    BY DEF Tick
  <2>3. quiet' = quiet \/ quiet' = quiet + 1
    BY DEF Tick
  <2>4. sending # <<>> => quiet < BIT_GAP_MAX /\ quiet' = quiet + 1
    BY <2>1 DEF Tick
  <2>5. /\ last_edge # None => last_edge \in Nat /\ last_edge' = last_edge + 1 /\ last_edge' # None
        /\ last_edge = None => last_edge' = None
    BY <2>1 DEF Tick
  <2> QED BY <2>1, <2>2, <2>3, <2>4, <2>5
<1>4. ClocksAgree'
  <2>1. (last_edge = None <=> bits = <<>>)'
    BY <1>1, <1>3 DEF CaptureInv, ClocksAgree
  <2>2. (sending # <<>> => quiet <= BIT_GAP_MAX)' /\ (latched # {} => quiet <= waiting)'
    BY <1>1, <1>3 DEF CaptureInv, ClocksAgree
  <2>3. ASSUME last_edge' # None
        PROVE  /\ latched' # {} => last_edge' <= waiting' + BIT_GAP_MAX
               /\ latched' = {} /\ sending' # <<>> => last_edge' <= quiet'
               /\ latched' = {} => quiet' <= last_edge' + ISR_LATENCY
               /\ last_edge' >= MESSAGE_GAP => pollAge' > last_edge' - MESSAGE_GAP
    <3>1. last_edge # None
      BY <1>3, <2>3
    <3>2. latched' # {} => last_edge' <= waiting' + BIT_GAP_MAX
      BY <1>1, <1>3, <3>1 DEF CaptureInv, ClocksAgree
    <3>3. latched' = {} /\ sending' # <<>> => last_edge' <= quiet'
      BY <1>1, <1>3, <3>1 DEF CaptureInv, ClocksAgree
    <3>4. latched' = {} => quiet' <= last_edge' + ISR_LATENCY
      BY <1>1, <1>3, <3>1 DEF CaptureInv, ClocksAgree
    <3>5. last_edge' >= MESSAGE_GAP => pollAge' > last_edge' - MESSAGE_GAP
      BY <1>1, <1>3, <3>1 DEF CaptureInv, ClocksAgree
    <3> QED BY <3>2, <3>3, <3>4, <3>5
  <2> QED BY <2>1, <2>2, <2>3 DEF ClocksAgree
<1> QED BY <1>2, <1>4, LoopKeepsTypes DEF CaptureInv

\* Every step of the capture keeps it.
LEMMA CaptureKeepsInv ==
  ASSUME CaptureInv, TimingTolerated, Next
  PROVE  CaptureInv'
BY StartBurstKeepsInv, SendBitKeepsInv, InterruptKeepsInv, PollKeepsInv, TickKeepsInv DEF Next

\* A step that empties the buffer is the loop taking a frame.
LEMMA OnlyTheLoopEmpties ==
  ASSUME CaptureInv, TimingTolerated, Next, bits # <<>>, bits' = <<>>
  PROVE  TakeFrame
<1>1. CASE on_gpio_interrupt
  <2> DEFINE with0 == IF 0 \in latched THEN PushBit(bits, 0) ELSE bits
  <2>1. bits' = IF 1 \in latched THEN PushBit(with0, 1) ELSE with0
    BY <1>1 DEF on_gpio_interrupt
  <2>2. \A s, bit : PushBit(s, bit) # <<>>
    BY DEF PushBit
  <2> QED BY <2>1, <2>2
<1>2. CASE StartBurst \/ SendBit \/ Tick
  BY <1>2 DEF StartBurst, SendBit, Pulse, Tick
<1>3. CASE Poll
  BY <1>3 DEF Poll, NothingYet
<1> QED BY <1>1, <1>2, <1>3 DEF Next

\* A frame of a length without a meaning is noise.
LEMMA OtherLengthsAreNoise ==
  ASSUME NEW s, Len(s) # 4, Len(s) # 26
  PROVE  DecodeFrame(s) = Unrecognized
BY DEF DecodeFrame

\* What the loop reads off a complete burst is what the burst says.
LEMMA FrameOfBurst ==
  ASSUME CaptureInv, TimingTolerated, MAX_BITS > 26, TakeFrame
  PROVE  /\ frame' = DecodeFrame(owed[1])
         /\ Len(owed[1]) > MAX_BITS => frame' = Unrecognized
<1>1. /\ frame' = DecodeFrame(bits) /\ owed # <<>> /\ Len(owed) = 1
      /\ Len(owed[1]) <= MAX_BITS => bits = owed[1]
      /\ Len(owed[1]) > MAX_BITS => Len(bits) = MAX_BITS
  BY CompletedIsWhole DEF TakeFrame
<1>2. Len(owed[1]) \in Nat /\ MAX_BITS \in Nat
  BY <1>1, CaptureAssumption DEF CaptureInv, CaptureTypes
<1>3. CASE Len(owed[1]) <= MAX_BITS
  BY <1>1, <1>2, <1>3
<1>4. CASE Len(owed[1]) > MAX_BITS
  <2>1. /\ Len(owed[1]) # 4 /\ Len(owed[1]) # 26
        /\ Len(bits) # 4 /\ Len(bits) # 26
    <3> DEFINE n == Len(owed[1])
               m == Len(bits)
    <3>1. n \in Nat /\ MAX_BITS \in Nat /\ n > MAX_BITS /\ m = MAX_BITS
      BY <1>1, <1>2, <1>4
    <3> HIDE DEF n, m
    <3>2. n # 4 /\ n # 26 /\ m # 4 /\ m # 26
      BY <3>1
    <3> QED BY <3>2 DEF n, m
  <2>2. DecodeFrame(owed[1]) = Unrecognized /\ DecodeFrame(bits) = Unrecognized
    BY <2>1, OtherLengthsAreNoise, Zenon
  <2> QED BY <1>1, <2>2
<1> QED BY <1>2, <1>3, <1>4

\* Power-up.
LEMMA CaptureInvInit == Init => CaptureInv
<1> SUFFICES ASSUME Init PROVE CaptureInv
  OBVIOUS
<1>1. CaptureTypes
  BY CaptureAssumption DEF Init, CaptureTypes, Frames
<1>2. OneBurst /\ ClocksAgree
  BY CaptureAssumption DEF Init, OneBurst, ClocksAgree
<1> QED BY <1>1, <1>2 DEF CaptureInv

\* For every buffer that holds a card's frame and every timing within the tolerance, whatever the
\* keypad sends and however the loop's looks fall between the pulses: each frame is one
\* whole burst, read as it was sent, and one too long for the buffer is noise.
THEOREM CaptureFramesAreBursts ==
  ASSUME TimingTolerated, MAX_BITS > 26
  PROVE  Spec => FramesAreBursts
<1>1. CaptureInv /\ [Next]_vars => CaptureInv'
  <2>1. CaptureInv /\ UNCHANGED vars => CaptureInv'
    BY DEF vars, CaptureInv, CaptureTypes, OneBurst, ClocksAgree, Whereabouts, Sent, Seen
  <2> QED BY <2>1, CaptureKeepsInv
<1> DEFINE Whole == bits # <<>> /\ bits' = <<>> =>
                      /\ Len(owed) = 1
                      /\ sending = <<>> /\ latched = {}
                      /\ frame' = DecodeFrame(Head(owed))
                      /\ Len(Head(owed)) > MAX_BITS => frame' = Unrecognized
<1>2. CaptureInv /\ [Next]_vars => [Whole]_vars
  <2> SUFFICES ASSUME CaptureInv, Next, bits # <<>>, bits' = <<>>
               PROVE  /\ Len(owed) = 1
                      /\ sending = <<>> /\ latched = {}
                      /\ frame' = DecodeFrame(Head(owed))
                      /\ Len(Head(owed)) > MAX_BITS => frame' = Unrecognized
    OBVIOUS
  <2>1. TakeFrame
    BY OnlyTheLoopEmpties
  <2>2. sending = <<>> /\ latched = {} /\ owed # <<>> /\ Len(owed) = 1
    BY <2>1, CompletedIsWhole DEF TakeFrame
  <2>3. Head(owed) = owed[1]
    BY <2>2 DEF CaptureInv, CaptureTypes
  <2> QED BY <2>1, <2>2, <2>3, FrameOfBurst
<1>3. Spec => [][Whole]_vars
  BY <1>1, <1>2, CaptureInvInit, PTL DEF Spec
<1> QED BY <1>3 DEF FramesAreBursts

---------------------------------------------------------------------------------
(* From the keypad to the check *)

Keys == Digits \cup Closing

\* A key that was pressed and whose burst the loop has not taken yet.
OnItsWay == owed # <<>> /\ DecodeFrame(owed[1]) \in Keys

\* How many keys of the attempt at the keypad are behind the digits in the lock.
Heard == IF OnItsWay THEN Len(pressed) - 1 ELSE IF Ended(pressed) THEN 0 ELSE Len(pressed)

\* Unless a power-up cut a burst, the lock's digits are the last of those pressed and heard, and
\* all of them if power held.
DigitsArrive ==
  /\ OnItsWay => pressed # <<>> /\ pressed[Len(pressed)] = DecodeFrame(owed[1])
  /\ Len(typed) <= Heard
  /\ \A i \in 1 .. Len(typed) : typed[i] = pressed[Heard - Len(typed) + i]
  /\ disturbed = "no" => Len(typed) = Heard

\* Only the last key of an attempt closes it.
OneClosing == \A i \in 1 .. Len(pressed) - 1 : pressed[i] \in Digits

\* The inductive invariant of the device.
DeviceInv == /\ CaptureInv
             /\ EntryInv
             /\ DeviceTypeOK
             /\ OneClosing
             /\ disturbed # "cut" => DigitsArrive

\* Keys, cards and noise are different things, and so are a digit and a closing key.
LEMMA KeysApart ==
  /\ Card \notin Keys /\ Unrecognized \notin Keys /\ None \notin Keys
  /\ EnterKey \in Closing /\ CancelKey \in Closing
  /\ \A k \in Closing : k \notin Digits
BY DeviceAssumption DEF Keys, Closing

\* A burst that is not four bits long is no key.
LEMMA OnlyNibblesAreKeys ==
  ASSUME NEW s, Len(s) # 4
  PROVE  DecodeFrame(s) \notin Keys
<1>1. DecodeFrame(s) = Card \/ DecodeFrame(s) = Unrecognized
  BY DEF DecodeFrame
<1> QED BY <1>1, KeysApart, Zenon

\* A key that was sent is the key that the loop reads, and it reads no other.
LEMMA KeyIsReadAsSent ==
  ASSUME CaptureInv, TimingTolerated, MAX_BITS > 4, TakeFrame
  PROVE  /\ owed # <<>> /\ owed' = <<>>
         /\ frame' \in Frames
         /\ frame' \in Keys => frame' = DecodeFrame(owed[1])
         /\ DecodeFrame(owed[1]) \in Keys => frame' = DecodeFrame(owed[1])
<1>1. /\ frame' = DecodeFrame(bits) /\ owed # <<>> /\ Len(owed) = 1
      /\ Len(owed[1]) <= MAX_BITS => bits = owed[1]
      /\ Len(owed[1]) > MAX_BITS => Len(bits) = MAX_BITS
  BY CompletedIsWhole DEF TakeFrame
<1>2. Len(owed[1]) \in Nat /\ MAX_BITS \in Nat /\ owed \in Seq(Seq({0, 1}))
  BY <1>1, CaptureAssumption DEF CaptureInv, CaptureTypes
<1>3. owed' = <<>>
  <2>1. Tail(owed) \in Seq(Seq({0, 1})) /\ Len(Tail(owed)) = 0
    BY <1>1, <1>2
  <2> QED BY <1>1, <2>1 DEF TakeFrame
<1>4. CASE Len(owed[1]) <= MAX_BITS
  BY <1>1, <1>3, <1>4, DecodedIsFrame
<1>5. CASE Len(owed[1]) > MAX_BITS
  <2>1. Len(owed[1]) # 4 /\ Len(bits) # 4
    <3> DEFINE n == Len(owed[1])
               m == Len(bits)
    <3>1. n \in Nat /\ MAX_BITS \in Nat /\ n > MAX_BITS /\ m = MAX_BITS
      BY <1>1, <1>2, <1>5
    <3> HIDE DEF n, m
    <3>2. n # 4 /\ m # 4
      BY <3>1
    <3> QED BY <3>2 DEF n, m
  <2>2. DecodeFrame(owed[1]) \notin Keys /\ DecodeFrame(bits) \notin Keys
    BY <2>1, OnlyNibblesAreKeys, Zenon
  <2> QED BY <1>1, <1>3, <2>2, DecodedIsFrame
<1> QED BY <1>2, <1>4, <1>5

\* Power-up in the middle of whatever the keypad sends: the capture begins again with what is
\* left of the burst.
LEMMA PowerCycleKeepsCapture ==
  ASSUME CaptureInv, PowerCycle
  PROVE  CaptureInv'
<1> USE CaptureAssumption
<1>1. PICK n \in 0 .. Len(sending) :
        /\ sending' = SubSeq(sending, n + 1, Len(sending))
        /\ quiet' \in (IF n = 0 THEN quiet ELSE 0)
                      .. (IF sending' = <<>> THEN SILENCE_MIN ELSE BIT_GAP_MAX)
        /\ owed' = IF sending' = <<>> THEN <<>> ELSE <<sending'>>
  BY DEF PowerCycle
<1>2. /\ bits' = <<>> /\ last_edge' = None /\ latched' = {} /\ waiting' = 0
      /\ pollAge' = POLL_INTERVAL /\ frame' = None
  BY DEF PowerCycle
<1>3. sending \in Seq({0, 1}) /\ Len(sending) \in Nat /\ n \in Nat /\ quiet \in 0 .. SILENCE_MIN
  BY DEF CaptureInv, CaptureTypes
<1>4. /\ sending' \in Seq({0, 1})
      /\ Len(sending') = Len(sending) - n
  BY <1>1, <1>3
<1>5. sending' # <<>> <=> n < Len(sending)
  BY <1>3, <1>4
<1>6. quiet' \in 0 .. SILENCE_MIN /\ (sending' # <<>> => quiet' <= BIT_GAP_MAX)
  <2>1. BIT_GAP_MAX \in Nat /\ SILENCE_MIN \in Nat /\ BIT_GAP_MAX <= SILENCE_MIN
    OBVIOUS
  <2> QED BY <1>1, <1>3, <2>1
<1>7. owed' \in Seq(Seq({0, 1}))
  <2>1. \A S : \A x \in S : <<x>> \in Seq(S)
    OBVIOUS
  <2>2. \A S : <<>> \in Seq(S)
    OBVIOUS
  <2> QED BY <1>1, <1>4, <2>1, <2>2, Zenon
<1>8. CaptureTypes'
  BY <1>2, <1>4, <1>6, <1>7 DEF CaptureTypes, Frames
<1>9. OneBurst'
  <2>1. CASE sending' = <<>>
    BY <1>1, <1>2, <2>1 DEF OneBurst
  <2>2. CASE sending' # <<>>
    <3>1. owed' = <<sending'>> /\ Len(owed') = 1 /\ owed'[1] = sending' /\ owed' # <<>>
      BY <1>1, <2>2
    <3>2. Len(sending') \in Nat \ {0}
      BY <1>4, <2>2
    <3>3. Sent(owed[1])' = 0 /\ Seen(owed[1])' = 0
      BY <1>2, <3>1, <3>2 DEF Sent, Seen
    <3>4. Whereabouts(owed[1])'
      BY <1>2, <3>1, <3>2, <3>3 DEF Whereabouts
    <3> QED BY <3>1, <3>4 DEF OneBurst
  <2> QED BY <2>1, <2>2
<1>10. ClocksAgree'
  BY <1>2, <1>6 DEF ClocksAgree
<1> QED BY <1>8, <1>9, <1>10 DEF CaptureInv

\* Every step of the device keeps the capture whole.
LEMMA DeviceKeepsCapture ==
  ASSUME CaptureInv, TimingTolerated, DeviceNext
  PROVE  CaptureInv'
BY CaptureKeepsInv, PowerCycleKeepsCapture
   DEF DeviceNext, Press, NextPulse, Interrupt, Turn, TimePasses, Next

\* The relock timer runs exactly while the bolt is released, also when it is looked at.
LEMMA DeadlineKeepsBolt ==
  ASSUME DeviceTypeOK, CheckDeadline
  PROVE  /\ relay' \in BOOLEAN
         /\ relock_in' \in (0 .. UNLOCK_DURATION) \cup {None}
         /\ relay' <=> relock_in' # None
BY DEF DeviceTypeOK, CheckDeadline, RelockDue

\* What the loop does with a frame keeps the buffer and the bolt in order.
LEMMA OnFrameKeepsTypes ==
  ASSUME EntryInv, DeviceTypeOK, OnFrame
  PROVE  /\ EntryInv'
         /\ relay' \in BOOLEAN
         /\ relock_in' \in (0 .. UNLOCK_DURATION) \cup {None}
         /\ relay' <=> relock_in' # None
         /\ disturbed' \in {"no", "lost", "cut"}
<1>1. CASE /\ frame' \in {Card, Unrecognized} /\ CheckDeadline /\ UNCHANGED entryVars
           /\ disturbed' \in {disturbed, AfterReset}
  <2>1. EntryInv'
    BY <1>1 DEF entryVars, EntryInv, EntryTypeOK, BufferIsTail
  <2> QED BY <1>1, <2>1, DeadlineKeepsBolt DEF DeviceTypeOK, AfterReset
<1>2. CASE frame' \in Digits /\ PushDigit(frame') /\ CheckDeadline /\ UNCHANGED disturbed
  <2>1. PICK d \in Digits : d = frame'
    BY <1>2
  <2>2. EntryInv'
    BY <1>2, <2>1, PushDigitKeepsEntryInv
  <2> QED BY <1>2, <2>2, DeadlineKeepsBolt DEF DeviceTypeOK
<1>3. CASE /\ frame' \in Closing /\ Reset
           /\ disturbed' = AfterReset
           /\ \/ CheckDeadline
              \/ relay' = TRUE /\ relock_in' = UNLOCK_DURATION
  <2>1. EntryInv'
    BY <1>3, ResetKeepsEntryInv
  <2>2. UNLOCK_DURATION \in 0 .. UNLOCK_DURATION /\ UNLOCK_DURATION # None
    BY DeviceAssumption, CaptureAssumption
  <2> QED BY <1>3, <2>1, <2>2, DeadlineKeepsBolt DEF AfterReset
<1> QED BY <1>1, <1>2, <1>3 DEF OnFrame

\* The keys of an attempt: digits, and at its end at most one that closes it.
LEMMA PressKeepsKeys ==
  ASSUME DeviceTypeOK, OneClosing, Press
  PROVE  /\ pressed' \in Seq(Keys) /\ OneClosing'
         /\ LET key == DecodeFrame(owed'[Len(owed')])
            IN  /\ key \notin Keys => pressed' = pressed
                /\ key \in Keys =>
                     /\ pressed' # <<>> /\ Len(pressed') \in Nat \ {0}
                     /\ pressed'[Len(pressed')] = key
                     /\ Len(pressed') - 1 = IF Ended(pressed) THEN 0 ELSE Len(pressed)
                     /\ \A i \in 1 .. Len(pressed') - 1 : pressed'[i] = pressed[i]
<1> DEFINE key == DecodeFrame(owed'[Len(owed')])
<1>1. pressed' = IF key \notin Keys THEN pressed
                 ELSE IF Ended(pressed) THEN <<key>>
                 ELSE Append(pressed, key)
  BY DEF Press, Keys
<1> HIDE DEF key
<1>2. pressed \in Seq(Keys)
  BY DEF DeviceTypeOK, Keys
<1>3. CASE key \notin Keys
  <2>1. OneClosing'
    BY <1>1, <1>3 DEF OneClosing
  <2> QED BY <1>1, <1>2, <1>3, <2>1 DEF key
<1>4. CASE key \in Keys /\ Ended(pressed)
  <2>1. pressed' = <<key>>
    BY <1>1, <1>4
  <2>2. pressed' \in Seq(Keys) /\ Len(pressed') = 1 /\ pressed'[1] = key /\ pressed' # <<>>
    BY <1>4, <2>1
  <2>3. OneClosing'
    BY <2>2 DEF OneClosing
  <2> QED BY <1>4, <2>2, <2>3 DEF key
<1>5. CASE key \in Keys /\ ~Ended(pressed)
  <2>1. /\ pressed' \in Seq(Keys) /\ Len(pressed') = Len(pressed) + 1 /\ Len(pressed) \in Nat
        /\ pressed'[Len(pressed) + 1] = key
        /\ \A i \in 1 .. Len(pressed) : pressed'[i] = pressed[i]
    BY <1>1, <1>2, <1>5
  <2>2. \A i \in 1 .. Len(pressed) : pressed[i] \in Digits
    <3> SUFFICES ASSUME NEW i \in 1 .. Len(pressed) PROVE pressed[i] \in Digits
      OBVIOUS
    <3>1. CASE i = Len(pressed)
      <4>1. pressed # <<>> /\ pressed[i] \in Keys
        BY <1>2, <3>1
      <4> QED BY <1>5, <3>1, <4>1 DEF Ended, Keys
    <3>2. CASE i # Len(pressed)
      BY <2>1, <3>2 DEF OneClosing
    <3> QED BY <3>1, <3>2
  <2>3. OneClosing'
    BY <2>1, <2>2 DEF OneClosing
  <2>4. pressed' # <<>>
    BY <2>1
  <2> QED BY <1>5, <2>1, <2>3, <2>4 DEF key
<1> QED BY <1>3, <1>4, <1>5

\* Every step of the device keeps its types, its buffer and the shape of an attempt.
LEMMA DeviceKeepsTypes ==
  ASSUME EntryInv, DeviceTypeOK, OneClosing, [DeviceNext]_deviceVars
  PROVE  EntryInv' /\ DeviceTypeOK' /\ OneClosing'
<1>1. ASSUME UNCHANGED entryVars PROVE EntryInv'
  BY <1>1 DEF entryVars, EntryInv, EntryTypeOK, BufferIsTail
<1>2. EntryInv' => EntryTypeOK'
  BY DEF EntryInv
<1>3. CASE Press
  <2>1. pressed' \in Seq(Keys) /\ OneClosing'
    BY <1>3, PressKeepsKeys
  <2>2. UNCHANGED <<entryVars, relay, relock_in, disturbed>>
    BY <1>3 DEF Press, boltVars
  <2>3. EntryInv'
    BY <1>1, <2>2
  <2>4. pressed' \in Seq(Digits \cup Closing)
    BY <2>1 DEF Keys
  <2> QED BY <1>2, <2>1, <2>2, <2>3, <2>4 DEF DeviceTypeOK
<1>4. CASE NextPulse \/ Interrupt \/ UNCHANGED deviceVars
  <2>1. UNCHANGED <<entryVars, relay, relock_in, pressed, disturbed>>
    BY <1>4 DEF NextPulse, Interrupt, deviceVars, boltVars
  <2>2. EntryInv' /\ OneClosing'
    BY <1>1, <2>1 DEF OneClosing
  <2> QED BY <1>2, <2>1, <2>2 DEF DeviceTypeOK
<1>5. CASE Turn
  <2>1. pressed' = pressed /\ OneClosing'
    BY <1>5 DEF Turn, OneClosing
  <2>2. CASE OnFrame
    BY <1>2, <2>1, <2>2, OnFrameKeepsTypes DEF DeviceTypeOK
  <2>3. CASE CheckDeadline /\ UNCHANGED <<entryVars, disturbed>>
    <3>1. EntryInv'
      BY <1>1, <2>3
    <3> QED BY <1>2, <2>1, <2>3, <3>1, DeadlineKeepsBolt DEF DeviceTypeOK
  <2> QED BY <1>5, <2>2, <2>3 DEF Turn
<1>6. CASE TimePasses
  <2>1. UNCHANGED <<entryVars, relay, pressed, disturbed>>
    BY <1>6 DEF TimePasses
  <2>2. relock_in' \in (0 .. UNLOCK_DURATION) \cup {None} /\ (relock_in' = None <=> relock_in = None)
    BY <1>6, DeviceAssumption, CaptureAssumption DEF TimePasses, DeviceTypeOK
  <2>3. EntryInv' /\ OneClosing'
    BY <1>1, <2>1 DEF OneClosing
  <2> QED BY <1>2, <2>1, <2>2, <2>3 DEF DeviceTypeOK
<1>7. CASE PowerCycle
  <2>1. EntryInv'
    BY <1>7, ResetKeepsEntryInv DEF PowerCycle, ClearedEntry
  <2>2. pressed' = pressed /\ relay' = FALSE /\ relock_in' = None /\ disturbed' \in {"no", "lost", "cut"}
    BY <1>7 DEF PowerCycle, AfterReset
  <2>3. OneClosing'
    BY <2>2 DEF OneClosing
  <2> QED BY <1>2, <2>1, <2>2, <2>3 DEF DeviceTypeOK
<1> QED BY <1>3, <1>4, <1>5, <1>6, <1>7 DEF DeviceNext

\* Power-up with nothing typed.
LEMMA DeviceTypesInit ==
  ASSUME DeviceInit
  PROVE  EntryInv /\ DeviceTypeOK /\ OneClosing
<1>1. EntryInv
  BY BlankEntry DEF DeviceInit, EntryInit
<1>2. pressed = <<>> /\ relay = FALSE /\ relock_in = None /\ disturbed = "no"
  BY DEF DeviceInit
<1>3. OneClosing /\ pressed \in Seq(Digits \cup Closing)
  BY <1>2 DEF OneClosing
<1> QED BY <1>1, <1>2, <1>3 DEF DeviceTypeOK, EntryInv

\* Type correctness of the device, whatever the timing and the power failures: the buffer is in
\* order, and the relock timer runs exactly while the bolt is released.
THEOREM DeviceTypeCorrect == DeviceSpec => []DeviceTypeOK
<1> DEFINE Types == EntryInv /\ DeviceTypeOK /\ OneClosing
<1>1. DeviceInit => Types
  BY DeviceTypesInit
<1>2. Types /\ [DeviceNext]_deviceVars => Types'
  BY DeviceKeepsTypes
<1>3. Types => DeviceTypeOK
  OBVIOUS
<1> HIDE DEF Types
<1> QED BY <1>1, <1>2, <1>3, PTL DEF DeviceSpec

\* A key press adds its key behind those already on record.
LEMMA PressKeepsDigits ==
  ASSUME DeviceInv, TimingTolerated, DigitsArrive, Press
  PROVE  DigitsArrive'
<1> DEFINE key == DecodeFrame(owed'[Len(owed')])
<1>1. owed = <<>>
  BY StartsAlone DEF DeviceInv, Press, StartBurst
<1>2. owed' # <<>> /\ Len(owed') = 1 /\ key = DecodeFrame(owed'[1])
  <2>1. PICK burst \in Bursts : owed' = Append(owed, burst)
    BY DEF Press, StartBurst
  <2>2. owed' = <<burst>>
    BY <1>1, <2>1
  <2> QED BY <2>2
<1>3. UNCHANGED <<typed, disturbed>>
  BY DEF Press, entryVars
<1>4. /\ Heard = IF Ended(pressed) THEN 0 ELSE Len(pressed)
      /\ Len(typed) <= Heard
      /\ \A i \in 1 .. Len(typed) : typed[i] = pressed[Heard - Len(typed) + i]
      /\ disturbed = "no" => Len(typed) = Heard
  BY <1>1 DEF DigitsArrive, Heard, OnItsWay
<1>5. Len(typed) \in Nat /\ Len(pressed) \in Nat /\ Heard \in Nat
  BY <1>4 DEF DeviceInv, DeviceTypeOK, EntryTypeOK
<1>6. OnItsWay' <=> key \in Keys
  BY <1>2 DEF OnItsWay, Keys
<1>7. /\ key \notin Keys => pressed' = pressed
      /\ key \in Keys =>
           /\ pressed' # <<>> /\ Len(pressed') \in Nat \ {0}
           /\ pressed'[Len(pressed')] = key
           /\ Len(pressed') - 1 = IF Ended(pressed) THEN 0 ELSE Len(pressed)
           /\ \A i \in 1 .. Len(pressed') - 1 : pressed'[i] = pressed[i]
  BY PressKeepsKeys DEF DeviceInv
<1> HIDE DEF key
<1>8. CASE key \notin Keys
  <2>1. Heard' = Heard /\ pressed' = pressed
    BY <1>4, <1>6, <1>7, <1>8 DEF Heard, Ended
  <2> QED BY <1>3, <1>4, <1>6, <1>8, <2>1 DEF DigitsArrive
<1>9. CASE key \in Keys
  <2>1. Heard' = Heard
    BY <1>4, <1>6, <1>7, <1>9 DEF Heard
  <2>2. \A i \in 1 .. Len(typed) : typed[i] = pressed'[Heard - Len(typed) + i]
    <3> SUFFICES ASSUME NEW i \in 1 .. Len(typed)
                 PROVE  typed[i] = pressed'[Heard - Len(typed) + i]
      OBVIOUS
    <3>1. Heard - Len(typed) + i \in 1 .. Len(pressed') - 1
      BY <1>4, <1>5, <1>7, <1>9
    <3> QED BY <1>4, <1>7, <1>9, <3>1
  <2> QED BY <1>2, <1>3, <1>4, <1>7, <1>9, <2>1, <2>2 DEF DigitsArrive
<1> QED BY <1>8, <1>9

\* A turn of the loop takes the key over from its burst.
LEMMA TurnKeepsDigits ==
  ASSUME DeviceInv, TimingTolerated, MAX_BITS > 4, Turn, disturbed' # "cut"
  PROVE  DigitsArrive'
<1>1. CASE ~Completed
  <2>1. UNCHANGED <<owed, pressed, typed, disturbed>>
    BY <1>1 DEF Turn, Poll, TakeFrame, NothingYet, entryVars
  <2>2. DigitsArrive
    BY <2>1 DEF DeviceInv
  <2> QED BY <2>1, <2>2 DEF DigitsArrive, OnItsWay, Heard, Ended
<1>2. CASE Completed
  <2>1. TakeFrame /\ OnFrame /\ pressed' = pressed
    BY <1>2 DEF Turn, Poll, NothingYet
  <2>2. /\ owed # <<>> /\ owed' = <<>>
        /\ frame' \in Keys => frame' = DecodeFrame(owed[1])
        /\ DecodeFrame(owed[1]) \in Keys => frame' = DecodeFrame(owed[1])
    BY <2>1, KeyIsReadAsSent DEF DeviceInv
  <2>3. ~OnItsWay' /\ Heard' = IF Ended(pressed) THEN 0 ELSE Len(pressed)
    BY <2>1, <2>2 DEF OnItsWay, Heard, Ended
  <2>4. Len(pressed) \in Nat /\ Len(typed) \in Nat /\ typed \in Seq(Digits)
    BY DEF DeviceInv, DeviceTypeOK, EntryTypeOK
  <2>5. ASSUME AfterReset = disturbed', typed' = <<>>
        PROVE  DigitsArrive'
    <3>1. Len(typed') = 0
      BY <2>5
    <3>2. Heard' \in Nat /\ (disturbed' = "no" => Heard' = 0)
      BY <2>3, <2>4, <2>5 DEF AfterReset
    <3> QED BY <2>3, <3>1, <3>2 DEF DigitsArrive
  <2>6. CASE frame' \in {Card, Unrecognized} /\ UNCHANGED <<entryVars, disturbed>>
    <3>1. ~OnItsWay
      BY <2>2, <2>6, KeysApart DEF OnItsWay
    <3>2. Heard' = Heard /\ UNCHANGED <<typed, pressed, disturbed>>
      BY <2>1, <2>3, <2>6, <3>1 DEF Heard, entryVars
    <3>3. DigitsArrive
      BY <3>2 DEF DeviceInv
    <3> QED BY <2>3, <3>2, <3>3 DEF DigitsArrive
  <2>7. CASE frame' \in Digits /\ PushDigit(frame') /\ UNCHANGED disturbed
    <3> DEFINE d == frame'
    <3>1. OnItsWay /\ d = DecodeFrame(owed[1])
      BY <2>2, <2>7 DEF OnItsWay, Keys
    <3>2. DigitsArrive
      BY <2>7 DEF DeviceInv
    <3>3. /\ pressed # <<>> /\ pressed[Len(pressed)] = d /\ Len(pressed) > 0
          /\ Len(typed) <= Len(pressed) - 1
          /\ \A i \in 1 .. Len(typed) : typed[i] = pressed[Len(pressed) - 1 - Len(typed) + i]
          /\ disturbed = "no" => Len(typed) = Len(pressed) - 1
      BY <2>4, <3>1, <3>2 DEF DigitsArrive, Heard
    <3>4. ~Ended(pressed)
      BY <2>7, <3>3, KeysApart DEF Ended
    <3>5. Heard' = Len(pressed)
      BY <2>3, <3>4
    <3>6. /\ Len(typed') = Len(typed) + 1
          /\ typed'[Len(typed) + 1] = d
          /\ \A i \in 1 .. Len(typed) : typed'[i] = typed[i]
      BY <2>4, <2>7 DEF PushDigit
    <3> HIDE DEF d
    <3>7. \A i \in 1 .. Len(typed') : typed'[i] = pressed[Len(pressed) - Len(typed') + i]
      <4> SUFFICES ASSUME NEW i \in 1 .. Len(typed')
                   PROVE  typed'[i] = pressed[Len(pressed) - Len(typed') + i]
        OBVIOUS
      <4>1. CASE i = Len(typed) + 1
        <5>1. Len(pressed) - Len(typed') + i = Len(pressed)
          BY <2>4, <3>6, <4>1
        <5> QED BY <3>3, <3>6, <4>1, <5>1
      <4>2. CASE i # Len(typed) + 1
        <5>1. /\ i \in 1 .. Len(typed)
              /\ Len(pressed) - Len(typed') + i = Len(pressed) - 1 - Len(typed) + i
          BY <2>4, <3>6, <4>2
        <5> QED BY <3>3, <3>6, <5>1
      <4> QED BY <4>1, <4>2
    <3>8. Len(typed') <= Heard' /\ (disturbed' = "no" => Len(typed') = Heard')
      BY <2>4, <2>7, <3>3, <3>5, <3>6
    <3> QED BY <2>1, <2>3, <3>5, <3>7, <3>8 DEF DigitsArrive
  <2>8. CASE frame' \in Closing /\ Reset /\ disturbed' = AfterReset
    BY <2>5, <2>8 DEF Reset
  <2>9. CASE /\ frame' \in {Card, Unrecognized} /\ UNCHANGED entryVars
             /\ typed = <<>> /\ disturbed' = AfterReset
    BY <2>5, <2>9 DEF entryVars
  <2> QED BY <2>1, <2>6, <2>7, <2>8, <2>9 DEF OnFrame
<1> QED BY <1>1, <1>2

\* A power failure that cuts no burst leaves an empty buffer, and so the end of any attempt.
LEMMA PowerCycleKeepsDigits ==
  ASSUME DeviceInv, PowerCycle, disturbed' # "cut"
  PROVE  DigitsArrive'
<1>1. owed' = <<>> /\ disturbed' = AfterReset /\ pressed' = pressed /\ typed' = <<>>
  BY DEF PowerCycle, ClearedEntry, Reset
<1>2. Len(pressed) \in Nat
  BY DEF DeviceInv, DeviceTypeOK
<1>3. /\ ~OnItsWay' /\ Len(typed') = 0
      /\ Heard' = IF Ended(pressed) THEN 0 ELSE Len(pressed)
  BY <1>1, <1>2 DEF OnItsWay, Heard, Ended
<1>4. Heard' \in Nat /\ (disturbed' = "no" => Heard' = 0)
  BY <1>1, <1>2, <1>3 DEF AfterReset
<1> QED BY <1>1, <1>3, <1>4 DEF DigitsArrive

\* Every step keeps the device's invariant.
LEMMA DeviceInvStep ==
  ASSUME DeviceInv, TimingTolerated, MAX_BITS > 4, [DeviceNext]_deviceVars
  PROVE  DeviceInv'
<1>1. EntryInv' /\ DeviceTypeOK' /\ OneClosing'
  BY DeviceKeepsTypes DEF DeviceInv
<1>2. CaptureInv'
  <2>1. CASE UNCHANGED deviceVars
    BY <2>1 DEF deviceVars, vars, DeviceInv, CaptureInv, CaptureTypes, OneBurst, ClocksAgree,
                Whereabouts, Sent, Seen
  <2> QED BY <2>1, DeviceKeepsCapture DEF DeviceInv
<1>3. ASSUME disturbed' # "cut" PROVE DigitsArrive'
  <2>1. CASE Press
    <3>1. DigitsArrive
      BY <1>3, <2>1 DEF Press, DeviceInv
    <3> QED BY <2>1, <3>1, PressKeepsDigits
  <2>2. CASE Turn
    BY <1>3, <2>2, TurnKeepsDigits
  <2>3. CASE PowerCycle
    BY <1>3, <2>3, PowerCycleKeepsDigits
  <2>4. CASE NextPulse \/ Interrupt \/ TimePasses \/ UNCHANGED deviceVars
    <3>1. UNCHANGED <<owed, pressed, typed, disturbed>>
      BY <2>4 DEF NextPulse, SendBit, Interrupt, on_gpio_interrupt, TimePasses, Tick,
                  deviceVars, vars, entryVars
    <3>2. DigitsArrive
      BY <1>3, <3>1 DEF DeviceInv
    <3> QED BY <3>1, <3>2 DEF DigitsArrive, OnItsWay, Heard, Ended
  <2> QED BY <2>1, <2>2, <2>3, <2>4 DEF DeviceNext
<1> QED BY <1>1, <1>2, <1>3 DEF DeviceInv

\* In a state of the invariant, an Enter that the loop is about to act on.
LEMMA EnterChecksThePressed ==
  ASSUME DeviceInv, TimingTolerated, MAX_BITS > 4, TakeFrame, frame' = EnterKey, disturbed # "cut"
  PROVE  LET digits == DigitsOf(pressed)
         IN  /\ EnterResult # Pending =>
                  /\ Ended(pressed)
                  /\ Len(digits) >= PIN_LEN
                  /\ EnterResult = LastAttempt(digits)
             /\ disturbed = "no" => (EnterResult # Pending <=> WholeAttempt(digits))
<1> DEFINE digits == DigitsOf(pressed)
<1>1. OnItsWay /\ DecodeFrame(owed[1]) = EnterKey
  BY KeyIsReadAsSent, KeysApart DEF DeviceInv, OnItsWay, Keys
<1>2. /\ DigitsArrive /\ pressed # <<>> /\ pressed[Len(pressed)] = EnterKey
      /\ pressed \in Seq(Digits \cup Closing) /\ typed \in Seq(Digits)
  BY <1>1 DEF DeviceInv, DigitsArrive, DeviceTypeOK, EntryTypeOK
<1>3. Ended(pressed)
  BY <1>2, KeysApart DEF Ended
<1>4. /\ Len(pressed) \in Nat \ {0}
      /\ digits = SubSeq(pressed, 1, Len(pressed) - 1)
  BY <1>2, <1>3 DEF DigitsOf
<1>5. /\ digits \in Seq(Digits \cup Closing) /\ Len(digits) = Len(pressed) - 1
      /\ \A i \in 1 .. Len(pressed) - 1 : digits[i] = pressed[i]
  <2> DEFINE m == Len(pressed) - 1
  <2>1. m \in 0 .. Len(pressed) /\ digits = SubSeq(pressed, 1, m)
    BY <1>4
  <2>2. \A S : \A s \in Seq(S) : \A n \in 0 .. Len(s) :
          /\ SubSeq(s, 1, n) \in Seq(S) /\ Len(SubSeq(s, 1, n)) = n
          /\ \A i \in 1 .. n : SubSeq(s, 1, n)[i] = s[i]
    OBVIOUS
  <2> HIDE DEF m, digits
  <2>3. digits \in Seq(Digits \cup Closing) /\ Len(digits) = m /\ \A i \in 1 .. m : digits[i] = pressed[i]
    BY <1>2, <2>1, <2>2
  <2> QED BY <2>3 DEF m
<1>6. Len(typed) \in Nat /\ PIN_LEN \in Nat \ {0} /\ Heard = Len(digits)
  BY <1>1, <1>2, <1>5, PinAssumption DEF Heard
<1> HIDE DEF digits
<1>7. /\ Len(typed) <= Len(digits)
      /\ \A i \in 1 .. Len(typed) : typed[i] = digits[Len(digits) - Len(typed) + i]
      /\ disturbed = "no" => Len(typed) = Len(digits)
  <2>1. /\ Len(typed) <= Len(digits)
        /\ \A i \in 1 .. Len(typed) : typed[i] = pressed[Len(digits) - Len(typed) + i]
        /\ disturbed = "no" => Len(typed) = Len(digits)
    BY <1>2, <1>6 DEF DigitsArrive
  <2>2. \A i \in 1 .. Len(typed) : typed[i] = digits[Len(digits) - Len(typed) + i]
    <3> SUFFICES ASSUME NEW i \in 1 .. Len(typed)
                 PROVE  typed[i] = digits[Len(digits) - Len(typed) + i]
      OBVIOUS
    <3>1. Len(digits) - Len(typed) + i \in 1 .. Len(pressed) - 1
      BY <1>4, <1>5, <1>6, <2>1
    <3> QED BY <1>5, <2>1, <3>1
  <2> QED BY <2>1, <2>2
<1>8. /\ EnterResult = IF WholeAttempt(typed) THEN LastAttempt(typed) ELSE Pending
      /\ EnterResult = Pending <=> ~WholeAttempt(typed)
  BY SubmissionFromEntryInv DEF DeviceInv, SubmitsWhatWasTyped
<1>9. ASSUME EnterResult # Pending
      PROVE  Len(digits) >= PIN_LEN /\ EnterResult = LastAttempt(digits)
  <2>1. WholeAttempt(typed) /\ EnterResult = LastAttempt(typed)
    BY <1>8, <1>9
  <2>2. Len(typed) >= PIN_LEN
    <3>1. Len(typed) # 0 /\ Len(typed) % PIN_LEN = 0
      BY <1>2, <2>1 DEF WholeAttempt
    <3> QED BY <1>6, <3>1, AttemptLenStep
  <2>3. Len(digits) \in Nat
    BY <1>4, <1>5
  <2>4. \A i \in 1 .. PIN_LEN :
          typed[Len(typed) - PIN_LEN + i] = digits[Len(digits) - PIN_LEN + i]
    <3> SUFFICES ASSUME NEW i \in 1 .. PIN_LEN
                 PROVE  typed[Len(typed) - PIN_LEN + i] = digits[Len(digits) - PIN_LEN + i]
      OBVIOUS
    <3> DEFINE j == Len(typed) - PIN_LEN + i
    <3>1. j \in 1 .. Len(typed) /\ Len(digits) - Len(typed) + j = Len(digits) - PIN_LEN + i
      BY <1>6, <2>2, <2>3
    <3> HIDE DEF j
    <3>2. typed[j] = digits[Len(digits) - PIN_LEN + i]
      BY <1>7, <3>1
    <3> QED BY <3>2 DEF j
  <2>5. LastAttempt(typed) = LastAttempt(digits)
    BY <2>4 DEF LastAttempt
  <2> QED BY <1>6, <1>7, <2>1, <2>2, <2>3, <2>5
<1>10. ASSUME disturbed = "no" PROVE EnterResult # Pending <=> WholeAttempt(digits)
  <2>1. Len(digits) = Len(typed)
    BY <1>7, <1>10
  <2>2. (digits = <<>> <=> Len(digits) = 0) /\ (typed = <<>> <=> Len(typed) = 0)
    BY <1>2, <1>5
  <2> QED BY <1>8, <2>1, <2>2 DEF WholeAttempt
<1> QED BY <1>3, <1>9, <1>10 DEF digits

\* Power-up of the device.
LEMMA DeviceInvInit == DeviceInit => DeviceInv
<1> SUFFICES ASSUME DeviceInit PROVE DeviceInv
  OBVIOUS
<1>1. CaptureInv /\ EntryInv /\ DeviceTypeOK /\ OneClosing
  BY CaptureInvInit, DeviceTypesInit DEF DeviceInit
<1>2. owed = <<>> /\ pressed = <<>> /\ typed = <<>>
  BY DEF DeviceInit, Init, EntryInit
<1>3. ~OnItsWay /\ Heard = 0 /\ Len(typed) = 0
  BY <1>2 DEF OnItsWay, Heard, Ended
<1>4. DigitsArrive
  BY <1>3 DEF DigitsArrive
<1> QED BY <1>1, <1>4 DEF DeviceInv

\* For every PIN length and buffer, every timing within the tolerance and power failures at any
\* moment: the code that the lock checks at an Enter consists of the last digits that were
\* pressed at the keypad before it, and if power held it checks one exactly when a whole
\* attempt was pressed.
THEOREM DeviceChecksWhatWasPressed ==
  ASSUME TimingTolerated, MAX_BITS > 4
  PROVE  DeviceSpec => ChecksWhatWasPressed
<1>1. DeviceInv /\ [DeviceNext]_deviceVars => DeviceInv'
  BY DeviceInvStep
<1> DEFINE Checked ==
      Completed /\ bits' = <<>> /\ frame' = EnterKey /\ ~UNCHANGED bits =>
        LET digits == DigitsOf(pressed)
        IN  /\ EnterResult # Pending /\ disturbed # "cut" =>
                 /\ Ended(pressed)
                 /\ Len(digits) >= PIN_LEN
                 /\ EnterResult = LastAttempt(digits)
            /\ disturbed = "no" => (EnterResult # Pending <=> WholeAttempt(digits))
<1>2. DeviceInv /\ [DeviceNext]_deviceVars => [Checked]_deviceVars
  <2> SUFFICES ASSUME DeviceInv, DeviceNext,
                      Completed, bits' = <<>>, frame' = EnterKey, ~UNCHANGED bits
               PROVE  LET digits == DigitsOf(pressed)
                      IN  /\ EnterResult # Pending /\ disturbed # "cut" =>
                               /\ Ended(pressed)
                               /\ Len(digits) >= PIN_LEN
                               /\ EnterResult = LastAttempt(digits)
                          /\ disturbed = "no" => (EnterResult # Pending <=> WholeAttempt(digits))
    OBVIOUS
  <2>1. ~PowerCycle
    BY KeysApart DEF PowerCycle, Keys
  <2>2. Next
    BY <2>1 DEF DeviceNext, Press, NextPulse, Interrupt, Turn, TimePasses, Next
  <2>3. TakeFrame
    BY <2>2, OnlyTheLoopEmpties DEF DeviceInv
  <2>4. CASE disturbed = "cut"
    BY <2>4
  <2>5. CASE disturbed # "cut"
    BY <2>3, <2>5, EnterChecksThePressed
  <2> QED BY <2>4, <2>5
<1>3. DeviceSpec => [][Checked]_deviceVars
  BY <1>1, <1>2, DeviceInvInit, PTL DEF DeviceSpec
<1> QED BY <1>3 DEF ChecksWhatWasPressed
=================================================================================
