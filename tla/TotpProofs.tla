------------------------------- MODULE TotpProofs -------------------------------
(* The lock's search for a matching window, which steps through clock readings     *)
(* that saturate at zero, accepts exactly the codes of the windows within the      *)
(* skew.                                                                           *)
EXTENDS Totp, TLAPS

\* Multiplication by a natural number preserves the order of the integers.
LEMMA TimesMonotone ==
  ASSUME NEW s \in Nat, NEW a \in Int, NEW b \in Int, a <= b
  PROVE  s * a <= s * b
OBVIOUS

\* A number lies between the multiples its quotient names.
LEMMA QuotientBounds ==
  ASSUME NEW t \in Nat, NEW p \in Nat \ {0}
  PROVE  /\ t \div p \in Nat
         /\ p * (t \div p) <= t
         /\ t < p * ((t \div p) + 1)
OBVIOUS

\* And only its quotient names them.
LEMMA QuotientUnique ==
  ASSUME NEW t \in Nat, NEW p \in Nat \ {0}, NEW w \in Nat,
         p * w <= t, t < p * (w + 1)
  PROVE  t \div p = w
OBVIOUS

\* A clock reading lies in the window its quotient names.
LEMMA WindowBounds ==
  ASSUME NEW t \in Nat
  PROVE  /\ Window(t) \in Nat
         /\ STEP_SECONDS * Window(t) <= t
         /\ t < STEP_SECONDS * (Window(t) + 1)
BY QuotientBounds, StepAssumption DEF Window

\* Only the window it lies in bounds a clock reading.
LEMMA WindowUnique ==
  ASSUME NEW t \in Nat, NEW w \in Nat,
         STEP_SECONDS * w <= t, t < STEP_SECONDS * (w + 1)
  PROVE  Window(t) = w
BY QuotientUnique, StepAssumption DEF Window

\* Moving the clock a whole number of windows moves the window by that number,
\* except that neither goes below zero (u64::saturating_add_signed).
LEMMA ShiftedWindow ==
  ASSUME NEW t \in Nat, NEW k \in Int
  PROVE  LET s == SaturatingAddSigned(t, k * STEP_SECONDS)
         IN  /\ s \in Nat
             /\ Window(s) = IF Window(t) + k < 0 THEN 0 ELSE Window(t) + k
<1> DEFINE W == Window(t)
           s == SaturatingAddSigned(t, k * STEP_SECONDS)
<1>1. /\ W \in Nat
      /\ STEP_SECONDS * W <= t
      /\ t < STEP_SECONDS * (W + 1)
  BY WindowBounds
<1>2. STEP_SECONDS \in Nat /\ STEP_SECONDS > 0
  BY StepAssumption
<1> HIDE DEF W
<1>3. /\ k * STEP_SECONDS = STEP_SECONDS * k
      /\ k * STEP_SECONDS \in Int
      /\ STEP_SECONDS * (W + k) = STEP_SECONDS * W + STEP_SECONDS * k
      /\ STEP_SECONDS * (W + k + 1) = STEP_SECONDS * (W + 1) + STEP_SECONDS * k
  BY <1>1, <1>2
<1>4. s \in Nat
  BY <1>3 DEF SaturatingAddSigned
<1>5. CASE W + k < 0
  <2>1. STEP_SECONDS * (W + k + 1) <= STEP_SECONDS * 0
    BY <1>1, <1>2, <1>5, TimesMonotone
  <2>2. STEP_SECONDS * 0 = 0
    BY <1>2
  <2>3. t + k * STEP_SECONDS < 0
    BY <1>1, <1>2, <1>3, <2>1, <2>2
  <2>4. s = 0
    BY <2>3 DEF SaturatingAddSigned
  <2>5. STEP_SECONDS * 0 <= 0 /\ 0 < STEP_SECONDS * (0 + 1)
    BY <1>2
  <2>6. Window(0) = 0
    BY <2>5, WindowUnique
  <2> QED BY <1>4, <1>5, <2>4, <2>6 DEF W
<1>6. CASE ~(W + k < 0)
  <2>1. W + k \in Nat
    BY <1>1, <1>6
  <2>2. STEP_SECONDS * 0 <= STEP_SECONDS * (W + k)
    BY <1>2, <2>1, TimesMonotone
  <2>3. t + k * STEP_SECONDS >= 0
    BY <1>1, <1>2, <1>3, <2>2
  <2>4. s = t + k * STEP_SECONDS
    BY <1>3, <2>3 DEF SaturatingAddSigned
  <2>5. STEP_SECONDS * (W + k) <= s /\ s < STEP_SECONDS * ((W + k) + 1)
    BY <1>1, <1>2, <1>3, <2>1, <2>4
  <2>6. Window(s) = W + k
    BY <1>4, <2>1, <2>5, WindowUnique
  <2> QED BY <1>4, <1>6, <2>6 DEF W
<1> QED BY <1>5, <1>6

\* totp::matches accepts a code exactly when it is the code of some window that exists
\* (none lies before time zero) and is at most skew_steps away from the clock's own:
\* the saturation at zero neither adds a window nor hides one (totp.rs:20-34).
THEOREM MatchesIsAcceptedIn ==
  ASSUME NEW secret, NEW entered, NEW now \in Nat, NEW skew \in Nat
  PROVE  Matches(secret, entered, now, skew) <=> AcceptedIn(secret, entered, now, skew)
<1> DEFINE W == Window(now)
           Shift(k) == SaturatingAddSigned(now, k * STEP_SECONDS)
           value == DigitsToValue(entered)
<1>1. W \in Nat
  BY WindowBounds
<1>2. ASSUME NEW k \in Int
      PROVE  /\ Shift(k) \in Nat
             /\ Window(Shift(k)) = IF W + k < 0 THEN 0 ELSE W + k
  BY ShiftedWindow
<1>3. ASSUME NEW k \in Int
      PROVE  TotpCustom(secret, Shift(k)) = Hotp(secret, Window(Shift(k)))
  BY DEF TotpCustom, Window
<1>4. WithinSkew(now, skew) = {w \in Nat : W - skew <= w /\ w <= W + skew}
  BY <1>1 DEF WithinSkew
<1>5. Matches(secret, entered, now, skew)
        <=> \E k \in -skew .. skew : TotpCustom(secret, Shift(k)) = value
  BY DEF Matches, Steps
<1>6. AcceptedIn(secret, entered, now, skew)
        <=> \E w \in WithinSkew(now, skew) : Hotp(secret, w) = value
  BY DEF AcceptedIn
<1> HIDE DEF W, Shift, value
<1>7. ASSUME Matches(secret, entered, now, skew)
      PROVE  AcceptedIn(secret, entered, now, skew)
  <2>1. PICK k \in -skew .. skew : TotpCustom(secret, Shift(k)) = value
    BY <1>5, <1>7
  <2>2. k \in Int
    OBVIOUS
  <2>3. Window(Shift(k)) \in WithinSkew(now, skew)
    BY <1>1, <1>2, <1>4, <2>2
  <2>4. Hotp(secret, Window(Shift(k))) = value
    BY <1>3, <2>1, <2>2
  <2> QED BY <1>6, <2>3, <2>4
<1>8. ASSUME AcceptedIn(secret, entered, now, skew)
      PROVE  Matches(secret, entered, now, skew)
  <2>1. PICK w \in WithinSkew(now, skew) : Hotp(secret, w) = value
    BY <1>6, <1>8
  <2>2. w - W \in -skew .. skew /\ w \in Nat
    BY <1>1, <1>4
  <2>3. Window(Shift(w - W)) = w
    <3>1. w - W \in Int
      BY <2>2
    <3>2. Window(Shift(w - W)) = IF W + (w - W) < 0 THEN 0 ELSE W + (w - W)
      BY <1>2, <3>1
    <3> QED BY <1>1, <2>2, <3>2
  <2>4. TotpCustom(secret, Shift(w - W)) = value
    BY <1>3, <2>1, <2>2, <2>3
  <2> QED BY <1>5, <2>2, <2>4
<1> QED BY <1>7, <1>8
=================================================================================
