------------------------------- MODULE LockProofs -------------------------------
(* For every PIN length, alphabet of digits, code function, window length, skew,   *)
(* poll interval and lag: the bolt's release is bounded by its last accepted code, *)
(* and the firmware's loop implements KeypadLock.                                  *)
EXTENDS Lock, PinEntryProofs, TotpProofs

\* Sums of naturals are natural.
LEMMA NatSum ==
  ASSUME NEW a \in Nat, NEW b \in Nat
  PROVE  a + b \in Nat
OBVIOUS

\* The inductive invariant: types, the digit buffer, and the bolt's deadline.
LockInv == TypeOK /\ BufferIsTail /\ DeadlineArmed /\ OverdueBound

\* A step that leaves the digit buffer alone keeps its invariant.
LEMMA EntryUnchanged ==
  ASSUME EntryInv, UNCHANGED entryVars
  PROVE  EntryInv'
BY DEF EntryInv, EntryTypeOK, BufferIsTail, entryVars

\* The deadline that a code accepted at time t arms, when the clock is read again at u.
LEMMA FreshDeadline ==
  ASSUME NEW t \in Nat, NEW u \in Nat, t <= u, u <= t + LAG
  PROVE  /\ u + UNLOCK_DURATION \in Nat
         /\ u + UNLOCK_DURATION # None
         /\ t + UNLOCK_DURATION <= u + UNLOCK_DURATION
         /\ u + UNLOCK_DURATION <= t + LAG + UNLOCK_DURATION
         /\ u < u + UNLOCK_DURATION + POLL_INTERVAL + 2 * LAG
<1>1. u + UNLOCK_DURATION \in Nat
  BY TimeAssumption
<1>2. u + UNLOCK_DURATION # None
  BY <1>1, TimeAssumption
<1>3. u + UNLOCK_DURATION <= t + LAG + UNLOCK_DURATION
  BY TimeAssumption
<1> QED BY <1>1, <1>2, <1>3, TimeAssumption

\* Power-up establishes the invariant.
LEMMA LockInvInit == Init => LockInv
<1> SUFFICES ASSUME Init PROVE LockInv
  OBVIOUS
<1>1. EntryInv
  BY BlankEntry DEF Init, EntryInit
<1>2. TypeOK /\ BufferIsTail
  <2>1. now \in 0 .. MaxUptime /\ grantedAt \in Nat
    BY TimeAssumption DEF Init
  <2> QED BY <1>1, <2>1 DEF EntryInv, Init, TypeOK, Frames, Outcomes
<1>3. DeadlineArmed /\ OverdueBound
  BY DEF Init, DeadlineArmed, OverdueBound
<1> QED BY <1>2, <1>3 DEF LockInv

\* What a turn's first step does to the digit buffer keeps the buffer's invariant.
LEMMA PollKeepsEntryInv ==
  ASSUME EntryInv, Poll
  PROVE  EntryInv'
<1>1. CASE IgnoreFrame
  BY <1>1, EntryUnchanged DEF IgnoreFrame
<1>2. CASE TypeDigit
  <2>1. frame' \in Digits /\ PushDigit(frame')
    BY <1>2 DEF TypeDigit
  <2>2. PICK d \in Digits : PushDigit(d)
    BY <2>1
  <2> QED BY <2>2, PushDigitKeepsEntryInv
<1>3. CASE CancelEntry
  BY <1>3, ResetKeepsEntryInv DEF CancelEntry
<1>4. CASE EnterShort
  BY <1>4, ResetKeepsEntryInv DEF EnterShort
<1>5. CASE UnlockBolt
  BY <1>5, ResetKeepsEntryInv DEF UnlockBolt, ActuatorUnlock
<1>6. CASE RejectCode
  BY <1>6, ResetKeepsEntryInv DEF RejectCode
<1>7. CASE NoKey
  BY <1>7, EntryUnchanged DEF NoKey
<1> QED BY <1>1, <1>2, <1>3, <1>4, <1>5, <1>6, <1>7 DEF Poll

\* The loop's steps and a power cycle keep the buffer's invariant.
LEMMA NextKeepsEntryInv ==
  ASSUME EntryInv, [Next]_vars
  PROVE  EntryInv'
<1>1. CASE Poll
  BY <1>1, PollKeepsEntryInv
<1>2. CASE Relock
  BY <1>2, EntryUnchanged DEF Relock
<1>3. CASE Sleep
  BY <1>3, EntryUnchanged DEF Sleep
<1>4. CASE PowerCycle
  BY <1>4, ResetKeepsEntryInv DEF PowerCycle
<1>5. CASE UNCHANGED vars
  BY <1>5, EntryUnchanged DEF vars, entryVars
<1> QED BY <1>1, <1>2, <1>3, <1>4, <1>5 DEF Next

\* Types of the loop's own variables after a step.
LEMMA NextKeepsTypes ==
  ASSUME TypeOK, EntryTypeOK', [Next]_vars
  PROVE  TypeOK'
<1> USE TimeAssumption
<1>1. CASE Poll
  <2>1. pc' = "relock" /\ now' \in 0 .. MaxUptime
    BY <1>1 DEF Poll, Elapse, TypeOK
  <2>2. /\ relay' \in BOOLEAN
        /\ relock_at' \in Nat \cup {None}
        /\ frame' \in Frames
        /\ outcome' \in Outcomes
        /\ grantedAt' \in Nat
    <3>1. CASE UnlockBolt
      <4>1. now \in Nat /\ now' \in Nat /\ now <= now' /\ now' <= now + LAG
        BY <1>1 DEF Poll, Elapse, TypeOK
      <4>2. relock_at' \in Nat
        BY <3>1, <4>1, FreshDeadline, Zenon DEF UnlockBolt, NewDeadline, ActuatorUnlock
      <4> QED BY <3>1, <4>1, <4>2, Zenon DEF UnlockBolt, NewDeadline, ActuatorUnlock, Frames, Outcomes
    <3>2. CASE IgnoreFrame \/ TypeDigit \/ CancelEntry \/ EnterShort \/ RejectCode \/ NoKey
      BY <3>2 DEF IgnoreFrame, TypeDigit, CancelEntry, EnterShort, RejectCode, NoKey,
                  TypeOK, Frames, Outcomes
    <3> QED BY <1>1, <3>1, <3>2 DEF Poll
  <2> QED BY <2>1, <2>2 DEF TypeOK
<1>2. CASE Relock
  BY <1>2 DEF Relock, ActuatorLock, TypeOK
<1>3. CASE Sleep
  BY <1>3 DEF Sleep, Elapse, TypeOK
<1>4. CASE PowerCycle
  <2>1. now' \in 0 .. MaxUptime /\ grantedAt' \in Nat
    BY <1>4 DEF PowerCycle
  <2> QED BY <1>4, <2>1, Zenon DEF PowerCycle, TypeOK, Frames, Outcomes
<1>5. CASE UNCHANGED vars
  BY <1>5 DEF vars, TypeOK
<1> QED BY <1>1, <1>2, <1>3, <1>4, <1>5 DEF Next

\* The bolt and its deadline after a step: the part of the invariant about time.
LEMMA NextKeepsDeadline ==
  ASSUME TypeOK, DeadlineArmed, OverdueBound, [Next]_vars
  PROVE  DeadlineArmed' /\ OverdueBound'
<1> USE TimeAssumption
<1>1. CASE Poll
  <2>1. pc = "poll" /\ pc' = "relock" /\ now' \in Nat /\ now <= now' /\ now' <= now + LAG
    BY <1>1 DEF Poll, Elapse, TypeOK
  <2>2. CASE UnlockBolt
    <3>1. now \in Nat
      BY DEF TypeOK
    <3>2. /\ relay' = TRUE
          /\ relock_at' # None
          /\ grantedAt' + UNLOCK_DURATION <= relock_at'
          /\ relock_at' <= grantedAt' + LAG + UNLOCK_DURATION
          /\ now' < relock_at' + POLL_INTERVAL + 2 * LAG
      BY <2>1, <2>2, <3>1, FreshDeadline, Zenon DEF UnlockBolt, NewDeadline, ActuatorUnlock
    <3> QED BY <2>1, <3>2, Zenon DEF DeadlineArmed, OverdueBound
  <2>3. CASE UNCHANGED <<relay, relock_at, grantedAt>>
    BY <2>1, <2>3 DEF TypeOK, DeadlineArmed, OverdueBound
  <2> QED BY <1>1, <2>2, <2>3 DEF Poll, IgnoreFrame, TypeDigit, CancelEntry, EnterShort,
                                  RejectCode, NoKey
<1>2. CASE Relock
  BY <1>2 DEF Relock, ActuatorLock, RelockDue, TypeOK, DeadlineArmed, OverdueBound
<1>3. CASE Sleep
  BY <1>3 DEF Sleep, Elapse, TypeOK, DeadlineArmed, OverdueBound
<1>4. CASE PowerCycle
  BY <1>4 DEF PowerCycle, TypeOK, DeadlineArmed, OverdueBound
<1>5. CASE UNCHANGED vars
  BY <1>5 DEF vars, TypeOK, DeadlineArmed, OverdueBound
<1> QED BY <1>1, <1>2, <1>3, <1>4, <1>5 DEF Next

\* Every step keeps the invariant.
LEMMA LockInvStep == LockInv /\ [Next]_vars => LockInv'
<1> SUFFICES ASSUME LockInv, [Next]_vars PROVE LockInv'
  OBVIOUS
<1>1. TypeOK /\ BufferIsTail /\ DeadlineArmed /\ OverdueBound /\ EntryInv
  BY DEF LockInv, TypeOK, EntryInv
<1>2. EntryInv'
  BY <1>1, NextKeepsEntryInv
<1>3. TypeOK' /\ BufferIsTail'
  BY <1>1, <1>2, NextKeepsTypes DEF EntryInv
<1>4. DeadlineArmed' /\ OverdueBound'
  BY <1>1, NextKeepsDeadline
<1> QED BY <1>3, <1>4 DEF LockInv

\* The invariant holds in every reachable state, for every value of the constants.
THEOREM LockInvariant == Spec => []LockInv
BY LockInvInit, LockInvStep, PTL DEF Spec

\* Type correctness of the controller, its digit buffer and the loop.
THEOREM LockTypeCorrect == Spec => []TypeOK
<1>1. LockInv => TypeOK
  BY DEF LockInv
<1> QED BY <1>1, LockInvariant, PTL

\* For every PIN length and sequence of frames, the buffer holds the tail of what was typed
\* since the last Enter, Cancel or power-up (pin_entry.rs:39-58).
THEOREM LockBufferIsTail == Spec => []BufferIsTail
<1>1. LockInv => BufferIsTail
  BY DEF LockInv
<1> QED BY <1>1, LockInvariant, PTL

\* The theorem the controller relies on: for every PIN length and sequence of frames, Enter
\* hands over a code exactly when a whole attempt was typed, and the code is that attempt
\* (pin_entry.rs:43-72).
THEOREM LockSubmitsWhatWasTyped == Spec => []SubmitsWhatWasTyped
<1>1. LockInv => SubmitsWhatWasTyped
  BY SubmissionFromEntryInv DEF LockInv, EntryInv, TypeOK
<1> QED BY <1>1, LockInvariant, PTL

\* The bolt is released exactly while the deadline of the last accepted code is armed,
\* also when codes are accepted while it is still released.
THEOREM LockDeadlineArmed == Spec => []DeadlineArmed
<1>1. LockInv => DeadlineArmed
  BY DEF LockInv
<1> QED BY <1>1, LockInvariant, PTL

\* Wherever the loop is, the clock has passed the deadline by no more than the delay and the
\* overruns behind the last check.
THEOREM LockOverdueBound == Spec => []OverdueBound
<1>1. LockInv => OverdueBound
  BY DEF LockInv
<1> QED BY <1>1, LockInvariant, PTL

\* The bound on a release follows from the invariant.
LEMMA HoldFromLockInv == LockInv => BoundedHold
<1> SUFFICES ASSUME LockInv, relay
             PROVE  now < grantedAt + UNLOCK_DURATION + HoldSlack
  BY DEF BoundedHold
<1>1. /\ now \in Nat /\ grantedAt \in Nat /\ relock_at \in Nat
      /\ relock_at <= grantedAt + LAG + UNLOCK_DURATION
      /\ now < relock_at + POLL_INTERVAL + 2 * LAG
  BY TimeAssumption DEF LockInv, TypeOK, DeadlineArmed, OverdueBound
<1> QED BY <1>1, TimeAssumption DEF HoldSlack

\* Whatever the poll interval and the lag of a step, the bolt is thrown again within
\* UNLOCK_DURATION of the last accepted code and the slack of one turn of the loop.
THEOREM LockBoundedHold == Spec => []BoundedHold
BY HoldFromLockInv, LockInvariant, PTL

---------------------------------------------------------------------------------
(* Refinement of KeypadLock *)

\* UnixSeconds is a natural number.
LEMMA ClockIsNat ==
  ASSUME TypeOK
  PROVE  UnixSeconds \in Nat
<1>1. now \in Nat /\ TICKS_PER_SECOND \in Nat \ {0} /\ BOOT_EPOCH \in Nat
  BY TimeAssumption DEF TypeOK
<1>2. now \div TICKS_PER_SECOND \in Nat
  BY <1>1, QuotientBounds
<1>3. BOOT_EPOCH + (now \div TICKS_PER_SECOND) \in Nat
  BY <1>1, <1>2, NatSum, Zenon
<1> QED BY <1>3, Zenon DEF UnixSeconds

\* The controller's decision on Enter is the abstract lock's.
LEMMA EnterDecision ==
  ASSUME LockInv
  PROVE  /\ EnterResult = Pending <=> ~Abstract!WholeAttempt
         /\ EnterResult # Pending =>
              (Matches(SECRET, EnterResult, UnixSeconds, SKEW_STEPS) <=> Abstract!GoodCode)
<1>1. EntryInv /\ TypeOK
  BY DEF LockInv, EntryInv, TypeOK
<1>2. /\ SubmitsWhatWasTyped
      /\ EnterResult = Pending <=> ~WholeAttempt(typed)
  BY <1>1, SubmissionFromEntryInv
<1>3. Abstract!WholeAttempt <=> WholeAttempt(typed)
  BY DEF Abstract!WholeAttempt, WholeAttempt
<1>4. ASSUME EnterResult # Pending
      PROVE  Matches(SECRET, EnterResult, UnixSeconds, SKEW_STEPS) <=> Abstract!GoodCode
  <2>1. EnterResult = LastAttempt(typed)
    BY <1>2, <1>4 DEF SubmitsWhatWasTyped
  <2>2. Matches(SECRET, EnterResult, UnixSeconds, SKEW_STEPS)
          <=> AcceptedIn(SECRET, EnterResult, UnixSeconds, SKEW_STEPS)
    BY <1>1, ClockIsNat, TimeAssumption, MatchesIsAcceptedIn, Zenon
  <2>3. AcceptedIn(SECRET, LastAttempt(typed), UnixSeconds, SKEW_STEPS) <=> Abstract!GoodCode
    <3>1. Abstract!UnixSeconds = UnixSeconds
      BY DEF Abstract!UnixSeconds, UnixSeconds
    <3> QED BY <3>1, Zenon DEF Abstract!GoodCode, LastAttempt, CodeOfNearbyWindow
  <2> QED BY <2>1, <2>2, <2>3
<1> QED BY <1>2, <1>3, <1>4

\* Time passes as the abstract lock allows in every step that does not lose power.
LEMMA StepElapses ==
  ASSUME LockInv, LockInv', Poll \/ Relock \/ Sleep
  PROVE  Abstract!Elapse
<1>1. /\ now' \in Nat
      /\ now' >= now
  BY TimeAssumption DEF LockInv, TypeOK, Poll, Relock, Sleep, Elapse
<1>2. BoundedHold'
  BY HoldFromLockInv, PTL
<1>3. relay' => now' < grantedAt' + UNLOCK_DURATION + HoldSlack
  BY <1>2, Zenon DEF BoundedHold, HoldSlack
<1> QED BY <1>1, <1>3, Zenon DEF Abstract!Elapse

\* A deadline that is due belongs to a release whose time is up.
LEMMA DueIsExpired ==
  ASSUME LockInv, RelockDue
  PROVE  relay /\ now >= grantedAt + UNLOCK_DURATION
<1>1. /\ relay
      /\ grantedAt + UNLOCK_DURATION <= relock_at
      /\ now \in Nat /\ grantedAt \in Nat /\ relock_at \in Nat
      /\ now >= relock_at
  BY TimeAssumption DEF LockInv, TypeOK, DeadlineArmed, RelockDue
<1> QED BY <1>1, TimeAssumption

\* Every step of the firmware is a step of the abstract lock or leaves it as it is.
LEMMA StepImplementsKeypadLock ==
  ASSUME LockInv, LockInv', [Next]_vars
  PROVE  [Abstract!Next]_(Abstract!vars)
<1> USE DEF Abstract!Hold
<1>1. CASE Poll
  <2>1. Abstract!Elapse
    BY <1>1, StepElapses
  <2>2. CASE IgnoreFrame
    BY <2>1, <2>2, Zenon DEF IgnoreFrame, entryVars, Abstract!Next, Abstract!Ignore
  <2>3. CASE TypeDigit
    BY <2>1, <2>3, Zenon DEF TypeDigit, PushDigit, Abstract!Next, Abstract!Press
  <2>4. CASE CancelEntry
    BY <2>1, <2>4, Zenon DEF CancelEntry, Reset, Abstract!Next, Abstract!Cancel
  <2>5. CASE EnterShort
    BY <2>1, <2>5, EnterDecision, Zenon
       DEF EnterShort, Reset, Abstract!Next, Abstract!TooShort
  <2>6. CASE UnlockBolt
    BY <2>1, <2>6, EnterDecision, Zenon
       DEF UnlockBolt, ActuatorUnlock, Reset, Abstract!Next, Abstract!Accept
  <2>7. CASE RejectCode
    BY <2>1, <2>7, EnterDecision, Zenon
       DEF RejectCode, Reset, Abstract!Next, Abstract!Reject
  <2>8. CASE NoKey
    BY <2>1, <2>8, Zenon DEF NoKey, entryVars, Abstract!Next, Abstract!Wait
  <2> QED BY <1>1, <2>2, <2>3, <2>4, <2>5, <2>6, <2>7, <2>8 DEF Poll
<1>2. CASE Relock
  <2>1. Abstract!Elapse
    BY <1>2, StepElapses
  <2>2. CASE RelockDue
    <3>1. relay /\ now >= grantedAt + UNLOCK_DURATION
      BY <2>2, DueIsExpired
    <3> QED BY <1>2, <2>1, <2>2, <3>1, Zenon
            DEF Relock, ActuatorLock, entryVars, Abstract!Next, Abstract!Throw
  <2>3. CASE ~RelockDue
    BY <1>2, <2>1, <2>3, Zenon DEF Relock, entryVars, Abstract!Next, Abstract!Wait
  <2> QED BY <2>2, <2>3
<1>3. CASE Sleep
  <2>1. Abstract!Elapse
    BY <1>3, StepElapses
  <2> QED BY <1>3, <2>1, Zenon DEF Sleep, entryVars, Abstract!Next, Abstract!Wait
<1>4. CASE PowerCycle
  BY <1>4, Zenon DEF PowerCycle, Reset, Abstract!Next, Abstract!PowerCycle
<1>5. CASE UNCHANGED vars
  BY <1>5, Zenon DEF vars, Abstract!vars
<1> QED BY <1>1, <1>2, <1>3, <1>4, <1>5 DEF Next

\* The firmware implements the abstract lock, for every value of the constants: exactly
\* the codes of nearby windows release the bolt, each release lasts as promised, and
\* no power cycle leaves the bolt released.
THEOREM LockImplementsKeypadLock == Spec => ImplementsKeypadLock
<1>1. Init => Abstract!Init
  BY DEF Init, EntryInit, Abstract!Init
<1>2. LockInv /\ LockInv' /\ [Next]_vars => [Abstract!Next]_(Abstract!vars)
  BY StepImplementsKeypadLock
<1> QED BY <1>1, <1>2, LockInvariant, PTL DEF Spec, ImplementsKeypadLock, Abstract!Spec
=================================================================================
