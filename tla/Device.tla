--------------------------------- MODULE Device ---------------------------------
(* The lock from its wires to its bolt: the keypad's pulses, the interrupt handler   *)
(* and the capture buffer (WiegandCapture), decoding (Wiegand), the digit buffer     *)
(* (PinEntry) and the relock timer, in one loop (lock-client/firmware/src/main.rs).  *)
(* Power may fail at any moment, also between two pulses of a key.  Whether a code   *)
(* is good is left open here: Lock and EndToEnd decide it by the clock.              *)
EXTENDS WiegandCapture, PinEntry

CONSTANT UNLOCK_DURATION      \* main.rs:48, in ticks

\* wiegand.rs tells the keys, a card and noise apart.
ASSUME DeviceAssumption ==
  /\ UNLOCK_DURATION \in Nat \ {0}
  /\ Digits = 0 .. 9
  /\ {CancelKey, EnterKey, Card, Unrecognized, None} \cap Digits = {}
  /\ {CancelKey, EnterKey} \cap {Card, Unrecognized, None} = {}

VARIABLES
  relay,      \* the bolt's GPIO is high
  relock_in,  \* time left until main's relock_at, or None
  pressed,    \* history: the keys of the attempt at the keypad, up to its Enter or Cancel
  disturbed   \* history: what a power failure did to that attempt ("no", "lost", "cut")

deviceVars == <<vars, entryVars, relay, relock_in, pressed, disturbed>>

boltVars == <<relay, relock_in>>

DeviceInit == /\ Init
              /\ EntryInit
              /\ relay = FALSE
              /\ relock_in = None
              /\ pressed = <<>>
              /\ disturbed = "no"

---------------------------------------------------------------------------------
(* The person at the keypad *)

Closing == {EnterKey, CancelKey}

Ended(keys) == keys # <<>> /\ keys[Len(keys)] \in Closing

\* The digits of an attempt: all of its keys up to the one that closes it.
DigitsOf(keys) == IF Ended(keys) THEN SubSeq(keys, 1, Len(keys) - 1) ELSE keys

\* What the lock's empty buffer means for the attempt at the keypad: nothing, when there is
\* none or its last key was pressed, or that its digits so far are lost.
AfterReset == IF pressed = <<>> \/ Ended(pressed) THEN "no" ELSE "lost"

\* A key or something else is presented to the keypad.  The bound on digits leaves the lock
\* room for one that nobody pressed.
Press ==
  /\ StartBurst
  /\ LET key == DecodeFrame(owed'[Len(owed')])
     IN  /\ key \in Digits /\ ~Ended(pressed) => Len(pressed) < MaxTyped - 1
         /\ pressed' = IF key \notin Digits \cup Closing THEN pressed
                       ELSE IF Ended(pressed) THEN <<key>>
                       ELSE Append(pressed, key)
  /\ UNCHANGED <<entryVars, boltVars, disturbed>>

NextPulse == SendBit /\ UNCHANGED <<entryVars, boltVars, pressed, disturbed>>

Interrupt == on_gpio_interrupt /\ UNCHANGED <<entryVars, boltVars, pressed, disturbed>>

---------------------------------------------------------------------------------
(* A turn of the loop *)

\* Mutant of RelockDue: the deadline is looked at only when a frame came in.
RelockDueOnFrame == relock_in = 0 /\ Completed

RelockDue == relock_in = 0

CheckDeadline == /\ relay' = (relay /\ ~RelockDue)
                 /\ relock_in' = IF RelockDue THEN None ELSE relock_in

\* A frame that is no key does nothing, a digit goes to the buffer, Cancel and Enter empty
\* it, and Enter may release the bolt when it hands over a code.  The rest of a burst that
\* was cut is forgotten once it turned out to be no key.
OnFrame ==
  \/ /\ frame' \in {Card, Unrecognized}
     /\ CheckDeadline
     /\ disturbed' = IF disturbed = "cut" /\ typed = <<>> THEN AfterReset ELSE disturbed
     /\ UNCHANGED entryVars
  \/ /\ frame' \in Digits
     /\ PushDigit(frame')
     /\ CheckDeadline
     /\ UNCHANGED disturbed
  \/ /\ frame' \in Closing
     /\ Reset
     /\ disturbed' = AfterReset
     /\ \/ CheckDeadline
        \/ /\ frame' = EnterKey
           /\ EnterResult # Pending
           /\ relay' = TRUE
           /\ relock_in' = UNLOCK_DURATION

Turn == /\ Poll
        /\ \/ Completed /\ OnFrame
           \/ ~Completed /\ CheckDeadline /\ UNCHANGED <<entryVars, disturbed>>
        /\ UNCHANGED pressed

---------------------------------------------------------------------------------
(* Time and power *)

TimePasses ==
  /\ Tick
  /\ relock_in' = IF relock_in \in {None, 0} THEN relock_in ELSE relock_in - 1
  /\ UNCHANGED <<entryVars, relay, pressed, disturbed>>

\* Mutant of ClearedEntry: the attempt is kept across a power failure.
KeptEntry == UNCHANGED entryVars

ClearedEntry == Reset

\* Power fails and comes back, with the keypad sending on in the dark: the lock starts over,
\* and of a burst under way it will only see the rest.
PowerCycle ==
  /\ \E n \in 0 .. Len(sending) :
       /\ sending' = SubSeq(sending, n + 1, Len(sending))
       /\ quiet' \in (IF n = 0 THEN quiet ELSE 0)
                     .. (IF sending' = <<>> THEN SILENCE_MIN ELSE BIT_GAP_MAX)
       /\ owed' = IF sending' = <<>> THEN <<>> ELSE <<sending'>>
       /\ disturbed' = IF sending' = <<>> THEN AfterReset ELSE "cut"
  /\ bits' = <<>>
  /\ last_edge' = None
  /\ latched' = {}
  /\ waiting' = 0
  /\ pollAge' = POLL_INTERVAL
  /\ frame' = None
  /\ ClearedEntry
  /\ relay' = FALSE
  /\ relock_in' = None
  /\ UNCHANGED pressed

DeviceNext == Press \/ NextPulse \/ Interrupt \/ Turn \/ TimePasses \/ PowerCycle

DeviceSpec == DeviceInit /\ [][DeviceNext]_deviceVars

\* The loop turns, interrupts are served and time passes; nobody need press anything.
DeviceFairness == /\ WF_deviceVars(TimePasses)
                  /\ WF_deviceVars(Interrupt)
                  /\ WF_deviceVars(Turn)
                  /\ WF_deviceVars(NextPulse)

FairDeviceSpec == DeviceSpec /\ DeviceFairness

---------------------------------------------------------------------------------
(* Properties *)

\* Type invariant of what the composition adds.
DeviceTypeOK == /\ EntryTypeOK
                /\ relay \in BOOLEAN
                /\ relock_in \in (0 .. UNLOCK_DURATION) \cup {None}
                /\ relay <=> relock_in # None
                /\ pressed \in Seq(Digits \cup Closing)
                /\ disturbed \in {"no", "lost", "cut"}

\* From the keypad to the check: when the loop acts on an Enter, the code it checks consists
\* of the last digits pressed at the keypad before that Enter, in their order; if power
\* held since the attempt began, also right after a power-up, a code is checked exactly
\* when a whole attempt was pressed.  Only a power-up in the middle of a burst, the rest of
\* which reads as a digit, may slip in a key that was never pressed (main.rs:105-117,
\* wiegand_capture.rs:58-108, wiegand.rs:44-66, pin_entry.rs:43-72).
ChecksWhatWasPressed ==
  [][Completed /\ bits' = <<>> /\ frame' = EnterKey /\ ~UNCHANGED bits =>
       LET digits == DigitsOf(pressed)
       IN  /\ EnterResult # Pending /\ disturbed # "cut" =>
                /\ Ended(pressed)
                /\ Len(digits) >= PIN_LEN
                /\ EnterResult = LastAttempt(digits)
           /\ disturbed = "no" => (EnterResult # Pending <=> WholeAttempt(digits))]_deviceVars

\* The bolt does not stay released: it is thrown in the end, unless another good code starts
\* its time anew, whether or not anybody touches the keypad again (main.rs:119-125).
BoltIsThrown ==
  relay /\ relock_in < UNLOCK_DURATION ~> ~relay \/ relock_in = UNLOCK_DURATION
=================================================================================
