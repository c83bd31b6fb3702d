------------------------------- MODULE KeypadLock -------------------------------
(* What the lock promises, with no buffer, no polling loop and no relock timer:    *)
(* digits are collected until Enter or Cancel; Enter releases the bolt exactly     *)
(* when a whole attempt was typed and its last PIN_LEN digits are a code that is   *)
(* good at the lock's own time; a released bolt stays released for UNLOCK_DURATION *)
(* after the last accepted code and is thrown again within HOLD_SLACK of that; a   *)
(* power cycle leaves it thrown.                                                   *)
EXTENDS Integers, Sequences

CONSTANTS
  PIN_LEN, Digits,
  GoodAt(_, _),      \* whether a code is good at a time in Unix seconds
  CancelKey, EnterKey, Card, Unrecognized,
  BOOT_EPOCH,        \* Unix seconds the lock's clock starts from
  TICKS_PER_SECOND,  \* resolution of `now'
  UNLOCK_DURATION,   \* ticks
  HOLD_SLACK         \* ticks within which an expired release must have been ended

VARIABLES
  typed,      \* digits since the last Enter, Cancel or power-up
  frame,      \* the last frame that arrived
  outcome,    \* and what the lock made of it
  released,   \* the bolt is released
  grantedAt,  \* when the last accepted code was entered
  now         \* ticks since power-up

vars == <<typed, frame, outcome, released, grantedAt, now>>

Init == /\ typed = <<>>
        /\ frame = Unrecognized
        /\ outcome = "Waiting"
        /\ released = FALSE
        /\ grantedAt = 0
        /\ now = 0

UnixSeconds == BOOT_EPOCH + now \div TICKS_PER_SECOND

WholeAttempt == typed # <<>> /\ Len(typed) % PIN_LEN = 0

GoodCode == GoodAt([i \in 1 .. PIN_LEN |-> typed[Len(typed) - PIN_LEN + i]], UnixSeconds)

\* Time passes with every step, but never past the point where an expired release
\* must have ended.
Elapse == /\ now' \in Nat
          /\ now' >= now
          /\ released' => now' < grantedAt' + UNLOCK_DURATION + HOLD_SLACK

Hold == UNCHANGED <<released, grantedAt>>

Press == /\ frame' \in Digits
         /\ typed' = Append(typed, frame')
         /\ outcome' = "Waiting"
         /\ Hold

Cancel == /\ frame' = CancelKey
          /\ typed' = <<>>
          /\ outcome' = "Waiting"
          /\ Hold

\* Enter uses the attempt up, whatever comes of it.
Accept == /\ frame' = EnterKey
          /\ WholeAttempt /\ GoodCode
          /\ typed' = <<>>
          /\ outcome' = "Unlocked"
          /\ released' = TRUE
          /\ grantedAt' = now

Reject == /\ frame' = EnterKey
          /\ WholeAttempt /\ ~GoodCode
          /\ typed' = <<>>
          /\ outcome' = "Rejected"
          /\ Hold

TooShort == /\ frame' = EnterKey
            /\ ~WholeAttempt
            /\ typed' = <<>>
            /\ outcome' = "Waiting"
            /\ Hold

Ignore == /\ frame' \in {Card, Unrecognized}
          /\ outcome' = "Waiting"
          /\ UNCHANGED typed
          /\ Hold

Wait == UNCHANGED <<typed, frame, outcome>> /\ Hold

Throw == /\ released
         /\ now >= grantedAt + UNLOCK_DURATION
         /\ released' = FALSE
         /\ UNCHANGED <<typed, frame, outcome, grantedAt>>

PowerCycle == /\ typed' = <<>>
              /\ frame' = Unrecognized
              /\ outcome' = "Waiting"
              /\ released' = FALSE
              /\ grantedAt' = 0
              /\ now' = 0

Next == \/ /\ Elapse
           /\ Press \/ Cancel \/ Accept \/ Reject \/ TooShort \/ Ignore \/ Wait \/ Throw
        \/ PowerCycle

Spec == Init /\ [][Next]_vars
=================================================================================
