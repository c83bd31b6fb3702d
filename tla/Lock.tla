---------------------------------- MODULE Lock ----------------------------------
(* The lock above the Wiegand lines: LockController                                *)
(* (lock-client/core/src/lock.rs), its clock and bolt, and the firmware's main     *)
(* loop (lock-client/firmware/src/main.rs).  A turn of the loop is three steps, as *)
(* the clock is read in each: Poll handles at most one decoded frame, Relock       *)
(* compares the relock deadline with the clock, Sleep is the loop's delay.  A step *)
(* may take up to LAG ticks on top of what the code asks for (serial output,       *)
(* interrupts).                                                                    *)
EXTENDS PinEntry, Totp

CONSTANTS
  SECRET, SKEW_STEPS,                       \* main.rs:35-45
  UNLOCK_DURATION,                          \* main.rs:48, in ticks
  POLL_INTERVAL,                            \* main.rs:56, in ticks
  LAG,                                      \* ticks a step may take
  BOOT_EPOCH, TICKS_PER_SECOND,             \* clock.rs
  CancelKey, EnterKey, Card, Unrecognized,  \* the frames that are not digits
  None,                                     \* relock_at is None
  MaxUptime                                 \* bound: ticks between power cycles

ASSUME TimeAssumption == /\ SKEW_STEPS \in Nat
                         /\ UNLOCK_DURATION \in Nat \ {0}
                         /\ POLL_INTERVAL \in Nat
                         /\ LAG \in Nat
                         /\ BOOT_EPOCH \in Nat
                         /\ TICKS_PER_SECOND \in Nat \ {0}
                         /\ MaxUptime \in Nat
                         /\ None \notin Nat

ASSUME FrameAssumption == /\ \A k \in {CancelKey, EnterKey, Card, Unrecognized} : k \notin Digits
                          /\ CancelKey # EnterKey
                          /\ CancelKey \notin {Card, Unrecognized}
                          /\ EnterKey \notin {Card, Unrecognized}

Outcomes == {"Waiting", "Unlocked", "Rejected"}

Frames == Digits \cup {CancelKey, EnterKey, Card, Unrecognized}

VARIABLES
  pc,          \* which step of the loop is next
  now,         \* Instant::now(), ticks since power-up
  relay,       \* the bolt's GPIO is high: the bolt is released
  relock_at,   \* main's deadline, or None
  frame,       \* history: the last frame handled
  outcome,     \* history: what on_frame made of it
  grantedAt    \* history: when the clock was read for the last accepted code

vars == <<buffer, len, typed, pc, now, relay, relock_at, frame, outcome, grantedAt>>

---------------------------------------------------------------------------------
\* main() up to its loop: relay low, empty entry, no deadline.
Init == /\ EntryInit
        /\ pc = "poll"
        /\ now = 0
        /\ relay = FALSE
        /\ relock_at = None
        /\ frame = Unrecognized
        /\ outcome = "Waiting"
        /\ grantedAt = 0

\* SystemClock::unix_seconds.
UnixSeconds == BOOT_EPOCH + now \div TICKS_PER_SECOND

\* BoltActuator: the bolt is released while its pin is high.
ActuatorUnlock == relay' = TRUE
ActuatorLock == relay' = FALSE

Elapse(ticks) == /\ \E lag \in 0 .. LAG : now' = now + ticks + lag
                 /\ now' <= MaxUptime

(* The branches of LockController::on_frame, each with what main does with the     *)
(* outcome it returns.                                                             *)

IgnoreFrame == /\ frame' \in {Card, Unrecognized}
               /\ outcome' = "Waiting"
               /\ UNCHANGED <<entryVars, relay, relock_at, grantedAt>>

TypeDigit == /\ frame' \in Digits
             /\ PushDigit(frame')
             /\ outcome' = "Waiting"
             /\ UNCHANGED <<relay, relock_at, grantedAt>>

CancelEntry == /\ frame' = CancelKey
               /\ Reset
               /\ outcome' = "Waiting"
               /\ UNCHANGED <<relay, relock_at, grantedAt>>

EnterShort == /\ frame' = EnterKey
              /\ EnterResult = Pending
              /\ Reset
              /\ outcome' = "Waiting"
              /\ UNCHANGED <<relay, relock_at, grantedAt>>

\* Mutant of NewDeadline: a deadline already armed is left as it is.
FirstDeadline == IF relock_at = None THEN now' + UNLOCK_DURATION ELSE relock_at

\* Taken from a second reading of the clock, after the bolt moved.
NewDeadline == now' + UNLOCK_DURATION

UnlockBolt == /\ frame' = EnterKey
              /\ EnterResult # Pending
              /\ Matches(SECRET, EnterResult, UnixSeconds, SKEW_STEPS)
              /\ Reset
              /\ ActuatorUnlock
              /\ outcome' = "Unlocked"
              /\ relock_at' = NewDeadline
              /\ grantedAt' = now

RejectCode == /\ frame' = EnterKey
              /\ EnterResult # Pending
              /\ ~Matches(SECRET, EnterResult, UnixSeconds, SKEW_STEPS)
              /\ Reset
              /\ outcome' = "Rejected"
              /\ UNCHANGED <<relay, relock_at, grantedAt>>

\* take_completed_frame returned None.
NoKey == UNCHANGED <<entryVars, relay, relock_at, frame, outcome, grantedAt>>

Poll == /\ pc = "poll"
        /\ pc' = "relock"
        /\ Elapse(0)
        /\ \/ IgnoreFrame \/ TypeDigit \/ CancelEntry \/ EnterShort
           \/ UnlockBolt \/ RejectCode \/ NoKey

\* Mutant of RelockDue: the tick of the deadline itself is missed.
RelockOverdue == relock_at # None /\ now > relock_at

RelockDue == relock_at # None /\ now >= relock_at

Relock == /\ pc = "relock"
          /\ pc' = "sleep"
          /\ \/ /\ RelockDue
                /\ ActuatorLock
                /\ relock_at' = None
             \/ /\ ~RelockDue
                /\ UNCHANGED <<relay, relock_at>>
          /\ UNCHANGED <<entryVars, now, frame, outcome, grantedAt>>

Sleep == /\ pc = "sleep"
         /\ pc' = "poll"
         /\ Elapse(POLL_INTERVAL)
         /\ UNCHANGED <<entryVars, relay, relock_at, frame, outcome, grantedAt>>

\* Power is lost and comes back: nothing is persisted and the clock starts over.
PowerCycle == /\ Reset
              /\ pc' = "poll"
              /\ now' = 0
              /\ relay' = FALSE
              /\ relock_at' = None
              /\ frame' = Unrecognized
              /\ outcome' = "Waiting"
              /\ grantedAt' = 0

Next == Poll \/ Relock \/ Sleep \/ PowerCycle

Spec == Init /\ [][Next]_vars

---------------------------------------------------------------------------------
(* Properties *)

\* Type invariant.
TypeOK == /\ EntryTypeOK
          /\ pc \in {"poll", "relock", "sleep"}
          /\ now \in 0 .. MaxUptime
          /\ relay \in BOOLEAN
          /\ relock_at \in Nat \cup {None}
          /\ frame \in Frames
          /\ outcome \in Outcomes
          /\ grantedAt \in Nat

\* The bolt is released exactly while a deadline is armed, and the deadline belongs to
\* the LAST accepted code, also when a second code is accepted while the bolt is still
\* released by the first (main.rs:109-113 sets the pair, 119-125 clears it).
DeadlineArmed ==
  /\ relay <=> relock_at # None
  /\ relay => /\ grantedAt + UNLOCK_DURATION <= relock_at
              /\ relock_at <= grantedAt + LAG + UNLOCK_DURATION

\* How far past the deadline the loop may find the clock, step by step: behind a check
\* that did not fire lies at most one delay and two overruns.
OverdueBound ==
  relay => /\ pc = "sleep" => now < relock_at
           /\ pc = "poll" => now < relock_at + POLL_INTERVAL + LAG
           /\ pc = "relock" => now < relock_at + POLL_INTERVAL + 2 * LAG

HoldSlack == POLL_INTERVAL + 3 * LAG

\* The bolt is never released for longer than UNLOCK_DURATION after the last accepted
\* code, but for the slack of one turn of the loop: the poll interval is the only
\* thing that delays re-locking (main.rs:47-56).
BoundedHold == relay => now < grantedAt + UNLOCK_DURATION + HoldSlack

\* A good code: that of a window within SKEW_STEPS of the lock's clock.
CodeOfNearbyWindow(code, t) == AcceptedIn(SECRET, code, t, SKEW_STEPS)

Abstract == INSTANCE KeypadLock WITH released <- relay,
                                     HOLD_SLACK <- HoldSlack,
                                     GoodAt <- CodeOfNearbyWindow

\* The firmware does what KeypadLock promises: which codes release the bolt, what each
\* frame does to the attempt in progress, how long the bolt stays released, and that
\* a power cycle always ends with it thrown.
ImplementsKeypadLock == Abstract!Spec
=================================================================================
