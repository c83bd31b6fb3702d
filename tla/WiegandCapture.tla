----------------------------- MODULE WiegandCapture -----------------------------
(* From pulses on D0/D1 to decoded frames: the GPIO interrupt handler that          *)
(* collects bits and the main loop's polling for a frame that has gone silent       *)
(* (lock-client/firmware/src/wiegand_capture.rs, main.rs).                          *)
(*                                                                                  *)
(* Time is counted in ticks, each clock reading kept as its age, so that behaviours *)
(* may go on for ever.  The handler and take_completed_frame exclude each other     *)
(* (critical_section), so each is one action.  The keypad is outside the program:   *)
(* it sends bursts of bits, with a bounded gap between the bits of a burst and a    *)
(* minimal silence after it.                                                        *)
EXTENDS Wiegand

CONSTANTS
  MAX_BITS,                   \* wiegand_capture.rs:23
  MESSAGE_GAP,                \* wiegand_capture.rs:30
  POLL_INTERVAL, LAG,         \* the main loop: delay and how much a turn may add to it
  ISR_LATENCY,                \* longest an edge waits for its handler
  BIT_GAP_MIN, BIT_GAP_MAX,   \* keypad: between two bits of a burst
  SILENCE_MIN,                \* keypad: after a burst
  Bursts,                     \* keypad: what it may send
  MaxOwed,                    \* bound: bursts under way at once
  None

ASSUME CaptureAssumption ==
  /\ MAX_BITS \in Nat \ {0}
  /\ MESSAGE_GAP \in Nat \ {0}
  /\ POLL_INTERVAL \in Nat \ {0}
  /\ LAG \in Nat
  /\ ISR_LATENCY \in Nat
  /\ BIT_GAP_MIN \in Nat /\ BIT_GAP_MAX \in Nat /\ BIT_GAP_MIN <= BIT_GAP_MAX
  /\ SILENCE_MIN \in Nat /\ BIT_GAP_MAX <= SILENCE_MIN
  /\ Bursts \subseteq Seq({0, 1}) \ {<<>>}
  /\ MaxOwed \in Nat
  /\ None \notin Nat

VARIABLES
  bits,       \* CaptureState.bits
  last_edge,  \* age of CaptureState.last_edge, or None
  latched,    \* the lines whose interrupt status is set: 0 for D0, 1 for D1
  waiting,    \* how long the first of them has been
  pollAge,    \* time since the main loop last looked
  sending,    \* keypad: bits of the burst still to come
  quiet,      \* keypad: time since its last pulse, up to SILENCE_MIN
  frame,      \* the last frame the main loop decoded
  owed        \* history: bursts begun and not yet decoded, oldest first

vars == <<bits, last_edge, latched, waiting, pollAge, sending, quiet, frame, owed>>

Init == /\ bits = <<>>
        /\ last_edge = None
        /\ latched = {}
        /\ waiting = 0
        /\ pollAge = POLL_INTERVAL
        /\ sending = <<>>
        /\ quiet = SILENCE_MIN
        /\ frame = None
        /\ owed = <<>>

---------------------------------------------------------------------------------
(* The keypad *)

Pulse(bit) == /\ latched' = latched \cup {bit}
              /\ waiting' = IF latched = {} THEN 0 ELSE waiting
              /\ quiet' = 0
              /\ UNCHANGED <<bits, last_edge, pollAge, frame>>

StartBurst == /\ sending = <<>>
              /\ quiet = SILENCE_MIN
              /\ Len(owed) < MaxOwed
              /\ \E burst \in Bursts : /\ Pulse(Head(burst))
                                       /\ sending' = Tail(burst)
                                       /\ owed' = Append(owed, burst)

SendBit == /\ sending # <<>>
           /\ quiet >= BIT_GAP_MIN
           /\ Pulse(Head(sending))
           /\ sending' = Tail(sending)
           /\ UNCHANGED owed

---------------------------------------------------------------------------------
(* The interrupt handler *)

\* Mutant of PushBit: no room is made.
PushBitAlways(seq, bit) == Append(seq, bit)

PushBit(seq, bit) == Append(IF Len(seq) = MAX_BITS THEN Tail(seq) ELSE seq, bit)

\* Mutant of EdgeSeen: the time of the edge is not recorded.
EdgeForgotten == UNCHANGED last_edge

EdgeSeen == last_edge' = 0

\* D0 is looked at before D1, whichever pulsed first.
on_gpio_interrupt ==
  LET with0 == IF 0 \in latched THEN PushBit(bits, 0) ELSE bits
  IN  /\ latched # {}
      /\ bits' = IF 1 \in latched THEN PushBit(with0, 1) ELSE with0
      /\ EdgeSeen
      /\ latched' = {}
      /\ UNCHANGED <<waiting, pollAge, sending, quiet, frame, owed>>

---------------------------------------------------------------------------------
(* The main loop *)

\* Mutant of Completed: a frame needs a tick more than the gap.
CompletedLate == last_edge # None /\ bits # <<>> /\ last_edge > MESSAGE_GAP

Completed == last_edge # None /\ bits # <<>> /\ last_edge >= MESSAGE_GAP

TakeFrame == /\ Completed
             /\ frame' = DecodeFrame(bits)
             /\ bits' = <<>>
             /\ last_edge' = None
             /\ owed' = IF owed = <<>> THEN <<>> ELSE Tail(owed)

NothingYet == ~Completed /\ UNCHANGED <<frame, bits, last_edge, owed>>

Poll == /\ pollAge >= POLL_INTERVAL
        /\ pollAge' = 0
        /\ TakeFrame \/ NothingYet
        /\ UNCHANGED <<latched, waiting, sending, quiet>>

---------------------------------------------------------------------------------
\* A tick passes only if nothing that must happen within it is still to happen.
Tick == /\ latched # {} => waiting < ISR_LATENCY
        /\ pollAge < POLL_INTERVAL + LAG
        /\ sending # <<>> => quiet < BIT_GAP_MAX
        /\ last_edge' = IF last_edge = None THEN None ELSE last_edge + 1
        /\ waiting' = IF latched = {} THEN 0 ELSE waiting + 1
        /\ pollAge' = pollAge + 1
        /\ quiet' = IF quiet < SILENCE_MIN THEN quiet + 1 ELSE quiet
        /\ UNCHANGED <<bits, latched, sending, frame, owed>>

Next == StartBurst \/ SendBit \/ on_gpio_interrupt \/ Poll \/ Tick

Spec == Init /\ [][Next]_vars

\* Time passes, the handler runs, the loop turns and a burst, once begun, is sent to its
\* end; the keypad may stay silent for ever.
Fairness == /\ WF_vars(Tick)
            /\ WF_vars(on_gpio_interrupt)
            /\ WF_vars(Poll)
            /\ WF_vars(SendBit)

FairSpec == Spec /\ Fairness

---------------------------------------------------------------------------------
(* Properties *)

\* Type invariant.
TypeOK == /\ bits \in Seq({0, 1}) /\ Len(bits) <= MAX_BITS
          /\ last_edge \in Nat \cup {None}
          /\ latched \subseteq {0, 1}
          /\ waiting \in 0 .. ISR_LATENCY
          /\ pollAge \in 0 .. POLL_INTERVAL + LAG
          /\ sending \in Seq({0, 1})
          /\ quiet \in 0 .. SILENCE_MIN
          /\ frame \in (0 .. 9) \cup {CancelKey, EnterKey, Card, Unrecognized, None}
          /\ owed \in Seq(Bursts) /\ Len(owed) <= MaxOwed

\* The keypads and the loop that the capture is made for: the handler is done with an edge
\* before the next bit comes, two edges of a burst are less than the message gap apart,
\* and the loop has looked after the gap and before the next burst.
TimingTolerated == /\ ISR_LATENCY < BIT_GAP_MIN
                   /\ BIT_GAP_MAX + ISR_LATENCY < MESSAGE_GAP
                   /\ MESSAGE_GAP + POLL_INTERVAL + LAG + ISR_LATENCY <= SILENCE_MIN

\* Every frame the main loop acts on is one whole burst, read as what was sent: bursts
\* are neither split nor merged nor reordered, however the loop's polling falls between
\* the pulses, and a burst too long for the buffer is noise and never a key or a card
\* (wiegand_capture.rs:19-30, 80-108).
FramesAreBursts ==
  [][bits # <<>> /\ bits' = <<>> =>
       /\ Len(owed) = 1
       /\ sending = <<>> /\ latched = {}
       /\ frame' = DecodeFrame(Head(owed))
       /\ Len(Head(owed)) > MAX_BITS => frame' = Unrecognized]_vars

\* Every burst is handed to the main loop in the end.
EveryBurstArrives == owed # <<>> ~> owed = <<>>
=================================================================================
