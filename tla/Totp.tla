---------------------------------- MODULE Totp ----------------------------------
(* The lock's check of an entered code against the clock                          *)
(* (lock-client/core/src/totp.rs), with the declarative reading its proofs and    *)
(* the abstract lock use: a code is good when it is the code of a time window     *)
(* within `skew_steps' of the present one.                                        *)
EXTENDS Integers, Sequences, SequencesExt

CONSTANTS
  STEP_SECONDS,   \* length of a TOTP window, totp.rs:10
  Hotp(_, _)      \* external: the numeric code of a secret for a window (HMAC-SHA1)

ASSUME StepAssumption == STEP_SECONDS \in Nat \ {0}

---------------------------------------------------------------------------------
(* The code *)

\* digits_to_value: the digits, oldest first, read as one decimal number.
DigitsToValue(digits) == FoldLeft(LAMBDA acc, d : acc * 10 + d, 0, digits)

\* u64::saturating_add_signed.  Clocks here stay far below 2^64, so only the lower
\* end of the type can be reached.
SaturatingAddSigned(n, delta) == IF n + delta < 0 THEN 0 ELSE n + delta

\* totp_custom::<Sha1>: both ends derive the window from Unix seconds.
TotpCustom(secret, time) == Hotp(secret, time \div STEP_SECONDS)

\* Mutants of Steps: no window before the present one is tried; one too many is.
StepsWithoutPast(skew_steps) == 0 .. skew_steps
StepsTooMany(skew_steps) == -(skew_steps + 1) .. skew_steps + 1

Steps(skew_steps) == -skew_steps .. skew_steps

Matches(secret, entered, now, skew_steps) ==
  \E step \in Steps(skew_steps) :
    TotpCustom(secret, SaturatingAddSigned(now, step * STEP_SECONDS)) = DigitsToValue(entered)

---------------------------------------------------------------------------------
(* The reference *)

Window(now) == now \div STEP_SECONDS

WithinSkew(now, skew_steps) == (Window(now) - skew_steps .. Window(now) + skew_steps) \cap Nat

AcceptedIn(secret, entered, now, skew_steps) ==
  \E w \in WithinSkew(now, skew_steps) : Hotp(secret, w) = DigitsToValue(entered)
=================================================================================
