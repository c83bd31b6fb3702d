----------------------------- MODULE EndToEndProofs -----------------------------
(* For every window length, skew and number of digits: a PIN is honoured for as     *)
(* long as the person who holds it has reason to believe it valid, and a lock opens *)
(* only to the code of its own secret for a window around its own time.             *)
EXTENDS EndToEnd, TotpProofs

\* Within the seconds that generate_at announces, the window of the PIN lasts.
LEMMA ValidityEndsWithWindow ==
  ASSUME NEW t \in Nat, NEW h \in Nat, h < ValidFor(t)
  PROVE  Window(t + h) = Window(t)
<1> DEFINE w == Window(t)
           r == t % STEP_SECONDS
<1>1. /\ STEP_SECONDS \in Nat \ {0}
      /\ w \in Nat
      /\ r \in 0 .. STEP_SECONDS - 1
      /\ t = STEP_SECONDS * w + r
  BY StepAssumption DEF Window
<1>2. h < STEP_SECONDS - r
  BY DEF ValidFor
<1> HIDE DEF w, r
<1>3. STEP_SECONDS * (w + 1) = STEP_SECONDS * w + STEP_SECONDS
  BY <1>1
<1>4. STEP_SECONDS * w <= t + h /\ t + h < STEP_SECONDS * (w + 1)
  BY <1>1, <1>2, <1>3
<1>5. t + h \in Nat
  BY <1>1
<1> QED BY <1>1, <1>4, <1>5, WindowUnique DEF w

\* Two clocks that differ by at most k windows' worth of seconds are at most k windows apart.
LEMMA NearbyWindows ==
  ASSUME NEW u \in Nat, NEW c \in Nat, NEW k \in Nat,
         -(k * STEP_SECONDS) <= c - u, c - u <= k * STEP_SECONDS
  PROVE  Window(u) \in WithinSkew(c, k)
<1> DEFINE W == Window(u)
           V == Window(c)
           D == k * STEP_SECONDS
<1>1. /\ STEP_SECONDS \in Nat \ {0}
      /\ W \in Nat /\ STEP_SECONDS * W <= u /\ u < STEP_SECONDS * (W + 1)
      /\ V \in Nat /\ STEP_SECONDS * V <= c /\ c < STEP_SECONDS * (V + 1)
  BY StepAssumption, WindowBounds
<1> HIDE DEF W, V
<1>2. /\ D \in Nat
      /\ STEP_SECONDS * (W + 1 + k) = STEP_SECONDS * (W + 1) + D
      /\ STEP_SECONDS * (V + 1 + k) = STEP_SECONDS * (V + 1) + D
  BY <1>1
<1>3. -D <= c - u /\ c - u <= D
  OBVIOUS
<1> HIDE DEF D
<1>4. STEP_SECONDS * (W + 1) \in Nat /\ STEP_SECONDS * (V + 1) \in Nat
  BY <1>1
<1>5. ~(W + 1 + k <= V)
  <2>1. W + 1 + k <= V => STEP_SECONDS * (W + 1 + k) <= STEP_SECONDS * V
    BY <1>1, TimesMonotone
  <2>2. c < STEP_SECONDS * (W + 1 + k)
    BY <1>1, <1>2, <1>3, <1>4
  <2> QED BY <1>1, <2>1, <2>2
<1>6. ~(V + 1 + k <= W)
  <2>1. V + 1 + k <= W => STEP_SECONDS * (V + 1 + k) <= STEP_SECONDS * W
    BY <1>1, TimesMonotone
  <2>2. u < STEP_SECONDS * (V + 1 + k)
    BY <1>1, <1>2, <1>3, <1>4
  <2> QED BY <1>1, <2>1, <2>2
<1>7. W \in (V - k .. V + k) \cap Nat
  BY <1>1, <1>5, <1>6
<1> QED BY <1>7 DEF WithinSkew, W, V

\* The window of a moment within the bound is within the bound.
LEMMA WindowInBound ==
  ASSUME NEW t \in 0 .. MaxTime
  PROVE  Window(t) \in 0 .. MaxTime
<1>1. /\ STEP_SECONDS \in Nat \ {0} /\ MaxTime \in Nat /\ t \in Nat
      /\ Window(t) \in Nat /\ STEP_SECONDS * Window(t) <= t
  BY StepAssumption, EndToEndAssumption, WindowBounds
<1>2. 1 * Window(t) <= STEP_SECONDS * Window(t)
  BY <1>1
<1> QED BY <1>1, <1>2

\* What the lock decides about a PIN of its own secret that is still valid for its holder.
LEMMA ValidPinMatches ==
  ASSUME NEW s \in Secrets, NEW t \in 0 .. MaxTime, NEW received \in Nat, NEW n \in Nat,
         NEW c \in Nat, t <= received, received <= n,
         n - received < ValidFor(t),
         -SkewSeconds <= (c - n) + (received - t), (c - n) + (received - t) <= SkewSeconds
  PROVE  Matches(s, ToText(ServerCode(s, t)), c, SKEW_STEPS)
<1> DEFINE h == n - received
<1>1. /\ t \in Nat /\ h \in Nat /\ h < ValidFor(t) /\ SKEW_STEPS \in Nat
      /\ t + h \in Nat /\ c - (t + h) = (c - n) + (received - t)
  BY EndToEndAssumption
<1> HIDE DEF h
<1>2. Window(t + h) = Window(t)
  BY <1>1, ValidityEndsWithWindow
<1>3. /\ -(SKEW_STEPS * STEP_SECONDS) <= c - (t + h)
      /\ c - (t + h) <= SKEW_STEPS * STEP_SECONDS
  BY <1>1 DEF SkewSeconds
<1>4. Window(t) \in WithinSkew(c, SKEW_STEPS)
  BY <1>1, <1>2, <1>3, NearbyWindows
<1>5. ServerCode(s, t) = Hotp(s, Window(t))
  BY DEF ServerCode, Window
<1>6. DigitsToValue(ToText(Hotp(s, Window(t)))) = Hotp(s, Window(t))
  BY WindowInBound, TextAssumption
<1>7. AcceptedIn(s, ToText(ServerCode(s, t)), c, SKEW_STEPS)
  BY <1>4, <1>5, <1>6 DEF AcceptedIn
<1> QED BY <1>1, <1>7, MatchesIsAcceptedIn

\* The converse of NearbyWindows: a window within k of the present one belongs to a moment less
\* than k + 1 windows' worth of seconds away.
LEMMA NearbyMoments ==
  ASSUME NEW u \in Nat, NEW c \in Nat, NEW k \in Nat, Window(u) \in WithinSkew(c, k)
  PROVE  /\ c - u < k * STEP_SECONDS + STEP_SECONDS
         /\ u - c < k * STEP_SECONDS + STEP_SECONDS
<1> DEFINE W == Window(u)
           V == Window(c)
           D == k * STEP_SECONDS
<1>1. /\ STEP_SECONDS \in Nat \ {0}
      /\ W \in Nat /\ STEP_SECONDS * W <= u /\ u < STEP_SECONDS * (W + 1)
      /\ V \in Nat /\ STEP_SECONDS * V <= c /\ c < STEP_SECONDS * (V + 1)
  BY StepAssumption, WindowBounds
<1>2. W <= V + k /\ V <= W + k
  BY <1>1 DEF WithinSkew
<1> HIDE DEF W, V
<1>3. /\ D \in Nat
      /\ STEP_SECONDS * (V + k) = STEP_SECONDS * V + D
      /\ STEP_SECONDS * (W + k) = STEP_SECONDS * W + D
      /\ STEP_SECONDS * (V + 1) = STEP_SECONDS * V + STEP_SECONDS
      /\ STEP_SECONDS * (W + 1) = STEP_SECONDS * W + STEP_SECONDS
      /\ STEP_SECONDS * V \in Nat /\ STEP_SECONDS * W \in Nat
  BY <1>1
<1>4. /\ STEP_SECONDS * W <= STEP_SECONDS * (V + k)
      /\ STEP_SECONDS * V <= STEP_SECONDS * (W + k)
  BY <1>1, <1>2, TimesMonotone
<1>5. c - u < D + STEP_SECONDS /\ u - c < D + STEP_SECONDS
  <2> HIDE DEF D
  <2> QED BY <1>1, <1>3, <1>4
<1> QED BY <1>5

\* A PIN has as many digits as the lock asks for.
LEMMA TextLength ==
  ASSUME NEW code
  PROVE  Len(ToText(code)) = DIGITS
BY EndToEndAssumption DEF ToText

\* Nobody holds a PIN from the future.
NotFromTheFuture ==
  /\ response # None => response.issuedAt <= now
  /\ slip # None => slip.generated.issuedAt <= slip.receivedAt /\ slip.receivedAt <= now

\* Whatever the codes are, and however many of them coincide: a lock that opens has found the
\* PIN's code to be its own secret's for a window within the skew of its own clock
\* (totp.rs:23-32).  That window need not be the one the PIN was made for.
OpensToOwnCode ==
  outcome = "Unlocked" =>
    /\ slip # None
    /\ \E w \in WithinSkew(clock, SKEW_STEPS) :
         Hotp(image.secret, w) = ServerCode(slip.generated.secret, slip.generated.issuedAt)

\* The inductive invariant.
PinInv == TypeOK /\ NotFromTheFuture /\ HonouredWhileValid /\ OpensToOwnCode

\* Without an attempt there is nothing to honour.
LEMMA NoAttempt ==
  ASSUME outcome = None
  PROVE  HonouredWhileValid /\ OpensToOwnCode
BY EndToEndAssumption, Zenon DEF HonouredWhileValid, OpensToOwnCode, Outcomes

\* Power-up on an empty desk.
LEMMA PinInvInit == Init => PinInv
<1> SUFFICES ASSUME Init PROVE PinInv
  OBVIOUS
<1>1. 0 \in 0 .. MaxTime
  BY EndToEndAssumption
<1>2. HonouredWhileValid /\ OpensToOwnCode
  BY NoAttempt DEF Init
<1> QED BY <1>1, <1>2, Zenon DEF Init, PinInv, TypeOK, NotFromTheFuture

\* What an attempt comes to.
LEMMA EnterPinHonours ==
  ASSUME PinInv, EnterPin
  PROVE  TypeOK' /\ HonouredWhileValid' /\ OpensToOwnCode'
<1>1. /\ slip # None
      /\ slip \in [generated : GeneratedPins, receivedAt : 0 .. MaxTime]
      /\ UNCHANGED <<now, row, image, clock, response, slip>>
      /\ now \in Nat /\ clock \in Nat
      /\ slip.generated.issuedAt <= slip.receivedAt /\ slip.receivedAt <= now
  BY EndToEndAssumption DEF PinInv, TypeOK, NotFromTheFuture, EnterPin, lockVars
<1>2. PICK s \in Secrets, t \in 0 .. MaxTime : slip.generated = GenerateAt(s, t)
  BY <1>1 DEF GeneratedPins
<1>3. /\ slip.generated.pin = ToText(ServerCode(s, t))
      /\ slip.generated.valid_for_seconds = ValidFor(t)
      /\ slip.generated.secret = s
      /\ slip.generated.issuedAt = t
  BY <1>2 DEF GenerateAt
<1>4. Len(slip.generated.pin) = DIGITS
  BY <1>3, TextLength
<1>5. outcome' = IF Matches(image.secret, slip.generated.pin, clock, SKEW_STEPS) THEN "Unlocked"
                                                                                ELSE "Rejected"
  BY <1>4 DEF EnterPin
<1>6. TypeOK'
  BY <1>1, <1>5 DEF PinInv, TypeOK, Outcomes
<1>7. ASSUME outcome' \in {"Waiting", "Rejected"},
             slip.generated.secret = image.secret,
             now - slip.receivedAt < slip.generated.valid_for_seconds,
             -SkewSeconds <= (clock - now) + (slip.receivedAt - slip.generated.issuedAt),
             (clock - now) + (slip.receivedAt - slip.generated.issuedAt) <= SkewSeconds
      PROVE  FALSE
  <2>1. slip.receivedAt \in Nat
    BY <1>1
  <2>2. Matches(s, ToText(ServerCode(s, t)), clock, SKEW_STEPS)
    BY <1>1, <1>3, <1>7, <2>1, ValidPinMatches
  <2> QED BY <1>3, <1>5, <1>7, <2>2
<1>8. HonouredWhileValid'
  BY <1>1, <1>7 DEF HonouredWhileValid, SeemsValid, Lateness, SkewSeconds
<1>9. ASSUME outcome' = "Unlocked"
      PROVE  \E w \in WithinSkew(clock, SKEW_STEPS) : Hotp(image.secret, w) = ServerCode(s, t)
  <2>1. AcceptedIn(image.secret, ToText(ServerCode(s, t)), clock, SKEW_STEPS)
    BY <1>1, <1>3, <1>5, <1>9, EndToEndAssumption, MatchesIsAcceptedIn
  <2>2. DigitsToValue(ToText(ServerCode(s, t))) = ServerCode(s, t)
    BY WindowInBound, TextAssumption DEF ServerCode, Window
  <2> QED BY <2>1, <2>2 DEF AcceptedIn
<1>10. OpensToOwnCode'
  <2> SUFFICES ASSUME outcome' = "Unlocked"
               PROVE  /\ slip' # None
                      /\ \E w \in WithinSkew(clock', SKEW_STEPS) :
                           Hotp(image'.secret, w)
                             = ServerCode(slip'.generated.secret, slip'.generated.issuedAt)
    BY DEF OpensToOwnCode
  <2> QED BY <1>1, <1>3, <1>9
<1> QED BY <1>6, <1>8, <1>10

\* Every step keeps the invariant.
LEMMA PinInvStep == PinInv /\ [Next]_vars => PinInv'
<1> SUFFICES ASSUME PinInv, [Next]_vars PROVE PinInv'
  OBVIOUS
<1> USE EndToEndAssumption
<1>1. TypeOK /\ NotFromTheFuture
  BY DEF PinInv
<1>2. CASE EnterPin
  <2>1. NotFromTheFuture'
    BY <1>1, <1>2 DEF NotFromTheFuture, EnterPin, lockVars
  <2> QED BY <1>2, <2>1, EnterPinHonours DEF PinInv
<1>3. CASE UNCHANGED vars
  BY <1>3 DEF vars, PinInv, TypeOK, NotFromTheFuture, HonouredWhileValid, SeemsValid, Lateness,
                    OpensToOwnCode
<1>4. CASE Next /\ ~EnterPin
  <2>1. outcome' = None
    BY <1>4 DEF Next, RequestPin, Deliver, Lose, Discard, Provision, Flash, PowerCycle, Tick
  <2>2. HonouredWhileValid' /\ OpensToOwnCode'
    BY <2>1, Zenon DEF HonouredWhileValid, OpensToOwnCode, Outcomes
  <2>3. CASE RequestPin
    <3>1. response' \in GeneratedPins /\ response'.issuedAt = now
      BY <1>1, <2>3 DEF RequestPin, GeneratedPins, GenerateAt, TypeOK
    <3>2. NotFromTheFuture'
      BY <1>1, <2>3, <3>1 DEF RequestPin, NotFromTheFuture, TypeOK, lockVars
    <3>3. TypeOK'
      BY <1>1, <2>1, <2>3, <3>1 DEF RequestPin, TypeOK, lockVars
    <3> QED BY <2>2, <3>2, <3>3 DEF PinInv
  <2>4. CASE Deliver
    <3>1. response \in GeneratedPins /\ response # None /\ now \in 0 .. MaxTime
      BY <1>1, <2>4 DEF Deliver, TypeOK
    <3>2. TypeOK'
      BY <1>1, <2>1, <2>4, <3>1 DEF Deliver, TypeOK, lockVars
    <3>3. NotFromTheFuture'
      BY <1>1, <2>4, <3>1 DEF Deliver, NotFromTheFuture, TypeOK, lockVars
    <3> QED BY <2>2, <3>2, <3>3 DEF PinInv
  <2>5. CASE Lose \/ Discard
    <3>1. TypeOK' /\ NotFromTheFuture'
      BY <1>1, <2>1, <2>5 DEF Lose, Discard, TypeOK, NotFromTheFuture, lockVars
    <3> QED BY <2>2, <3>1 DEF PinInv
  <2>6. CASE Provision \/ Flash \/ PowerCycle
    <3>1. TypeOK' /\ NotFromTheFuture'
      BY <1>1, <2>1, <2>6 DEF Provision, Flash, PowerCycle, TypeOK, NotFromTheFuture, lockVars
    <3> QED BY <2>2, <3>1 DEF PinInv
  <2>7. CASE Tick
    <3>1. now' = now + 1 /\ now' \in 0 .. MaxTime /\ clock' \in 0 .. MaxTime
      BY <1>1, <2>7 DEF Tick, TypeOK
    <3>2. TypeOK'
      BY <1>1, <2>1, <2>7, <3>1 DEF Tick, TypeOK
    <3>3. NotFromTheFuture'
      <4>1. response # None => response.issuedAt \in Nat
        BY <1>1 DEF TypeOK, GeneratedPins, GenerateAt
      <4>2. slip # None => slip.receivedAt \in Nat
        BY <1>1 DEF TypeOK
      <4> QED BY <1>1, <2>7, <3>1, <4>1, <4>2 DEF Tick, NotFromTheFuture, TypeOK
    <3> QED BY <2>2, <3>2, <3>3 DEF PinInv
  <2> QED BY <1>4, <2>3, <2>4, <2>5, <2>6, <2>7 DEF Next
<1> QED BY <1>2, <1>3, <1>4

\* The invariant holds in every reachable state, for every value of the constants.
THEOREM PinInvariant == Spec => []PinInv
BY PinInvInit, PinInvStep, PTL DEF Spec

\* For every window length, skew and number of digits, every delay between generation and
\* delivery and every drift: a PIN of the lock's own secret is accepted for as long as its
\* holder believes it valid, if clock error and delay together are within the skew.
THEOREM PinHonouredWhileValid == Spec => []HonouredWhileValid
<1>1. PinInv => HonouredWhileValid
  BY DEF PinInv
<1> QED BY <1>1, PinInvariant, PTL

\* For every Hotp: whatever the clocks, resets and provisionings did before, a lock opens only to
\* a PIN whose code is that of its own secret for a window within SKEW_STEPS of its clock.
THEOREM PinOpensToOwnCode == Spec => []OpensToOwnCode
<1>1. PinInv => OpensToOwnCode
  BY DEF PinInv
<1> QED BY <1>1, PinInvariant, PTL

\* What the lock opens to was issued for its secret and near its time, coincidence apart.
LEMMA NearIssueByCode ==
  ASSUME PinInv, CodesDiffer
  PROVE  OpensOnlyNearIssue
<1> SUFFICES ASSUME outcome = "Unlocked"
             PROVE  /\ slip.generated.secret = image.secret
                    /\ clock - slip.generated.issuedAt < SkewSeconds + STEP_SECONDS
                    /\ slip.generated.issuedAt - clock < SkewSeconds + STEP_SECONDS
  BY DEF OpensOnlyNearIssue
<1>1. /\ clock \in 0 .. MaxTime /\ clock \in Nat /\ image.secret \in Secrets
      /\ SKEW_STEPS \in Nat /\ MaxTime \in Nat
  BY EndToEndAssumption DEF PinInv, TypeOK
<1>2. PICK w \in WithinSkew(clock, SKEW_STEPS) :
        Hotp(image.secret, w) = ServerCode(slip.generated.secret, slip.generated.issuedAt)
  BY DEF PinInv, OpensToOwnCode
<1>3. slip \in [generated : GeneratedPins, receivedAt : 0 .. MaxTime]
  BY DEF PinInv, TypeOK, OpensToOwnCode
<1>4. PICK s \in Secrets, t \in 0 .. MaxTime : slip.generated = GenerateAt(s, t)
  BY <1>3 DEF GeneratedPins
<1>5. slip.generated.secret = s /\ slip.generated.issuedAt = t
  BY <1>4 DEF GenerateAt
<1>6. w \in 0 .. MaxTime + SKEW_STEPS
  <2>1. Window(clock) \in 0 .. MaxTime
    BY <1>1, WindowInBound
  <2> QED BY <1>1, <2>1 DEF WithinSkew
<1>7. Window(t) \in 0 .. MaxTime + SKEW_STEPS
  <2>1. Window(t) \in 0 .. MaxTime
    BY WindowInBound
  <2> QED BY <1>1, <2>1
<1>8. Hotp(image.secret, w) = Hotp(s, Window(t))
  BY <1>2, <1>5 DEF ServerCode, Window
<1>9. image.secret = s /\ w = Window(t)
  BY <1>1, <1>6, <1>7, <1>8 DEF CodesDiffer
<1>10. t \in Nat /\ Window(t) \in WithinSkew(clock, SKEW_STEPS)
  BY <1>1, <1>9
<1>11. /\ clock - t < SKEW_STEPS * STEP_SECONDS + STEP_SECONDS
       /\ t - clock < SKEW_STEPS * STEP_SECONDS + STEP_SECONDS
  BY <1>1, <1>10, NearbyMoments
<1> QED BY <1>5, <1>9, <1>11 DEF SkewSeconds

\* For every window length, skew, drift and history of resets, wherever the codes of the horizon
\* are all different: a PIN opens only a lock with its own secret, and only while that lock's
\* clock is less than SKEW_STEPS + 1 windows from the PIN's issue.
THEOREM PinOpensOnlyNearIssue ==
  ASSUME CodesDiffer
  PROVE  Spec => []OpensOnlyNearIssue
<1>1. PinInv => OpensOnlyNearIssue
  BY NearIssueByCode
<1> QED BY <1>1, PinInvariant, PTL

\* Type correctness: every PIN under way or in hand is one that generate_at made.
THEOREM PinTypeCorrect == Spec => []TypeOK
<1>1. PinInv => TypeOK
  BY DEF PinInv
<1> QED BY <1>1, PinInvariant, PTL
=================================================================================
