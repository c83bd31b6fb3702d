-------------------------------- MODULE EndToEnd --------------------------------
(* From the server's secret to the bolt: a PIN is generated for the server's        *)
(* present window (totp-server/src/totp/mod.rs), travels with its remaining         *)
(* validity to the person who asked (routes/totp.rs), and is typed at a lock that   *)
(* has no way to hear from the server: its secret and the time it starts from are   *)
(* those of its firmware image (lock-client/firmware/build.rs, clock.rs, main.rs).  *)
(*                                                                                  *)
(* `now' is the server's clock and that of the person's watch, `clock' the lock's.  *)
EXTENDS Totp

CONSTANTS
  DIGITS,        \* totp/mod.rs:13, totp.rs:9, pin_entry.rs:4
  SKEW_STEPS,    \* main.rs:45
  Secrets,
  MaxTime,       \* bound: both clocks
  MaxDrift,      \* bound: seconds the lock's clock may advance in one of the server's
  None

\* lock.rs: Outcome.
Outcomes == {"Waiting", "Unlocked", "Rejected"}

ASSUME EndToEndAssumption == /\ DIGITS \in Nat \ {0}
                             /\ SKEW_STEPS \in Nat
                             /\ MaxTime \in Nat
                             /\ MaxDrift \in Nat
                             /\ None \notin Outcomes
                             /\ \A s \in Secrets, w \in 0 .. MaxTime : Hotp(s, w) \in Nat

VARIABLES
  now,       \* SystemTime::now on the server, in Unix seconds
  row,       \* the secret that the server holds for the person
  image,     \* the firmware in the lock: its SECRET and LOCK_CLIENT_BUILD_EPOCH
  clock,     \* SystemClock::unix_seconds on the lock
  response,  \* the PIN on its way to the person, or None
  slip,      \* the PIN in the person's hand, or None
  outcome    \* what the lock made of it in this step, or None

vars == <<now, row, image, clock, response, slip, outcome>>

lockVars == <<image, clock>>

---------------------------------------------------------------------------------
Init == /\ now = 0
        /\ row \in Secrets
        /\ image \in [secret : Secrets, epoch : {0}]
        /\ clock = 0
        /\ response = None
        /\ slip = None
        /\ outcome = None

\* Mutant of ToText: a code below a power of ten comes out short.
ToBareText(code) ==
  LET n == CHOOSE k \in 1 .. DIGITS : code < 10 ^ k /\ (k = 1 \/ code >= 10 ^ (k - 1))
  IN  [i \in 1 .. n |-> (code \div 10 ^ (n - i)) % 10]

\* A code as totp_rs prints it, with leading zeros: a sequence of DIGITS digits.
ToText(code) == [i \in 1 .. DIGITS |-> (code \div 10 ^ (DIGITS - i)) % 10]

ASSUME TextAssumption ==
  \A s \in Secrets, w \in 0 .. MaxTime : DigitsToValue(ToText(Hotp(s, w))) = Hotp(s, w)

\* Mutant of ValidFor: every PIN is announced as good for a whole window.
ValidForWholeStep(t) == STEP_SECONDS

ValidFor(t) == STEP_SECONDS - (t % STEP_SECONDS)

\* The generator's code for a moment, with the parameters that the lock uses too.
ServerCode(secret, t) == Hotp(secret, t \div STEP_SECONDS)

\* totp::generate_at, with what the PIN was made from as history.
GenerateAt(secret, t) == [pin |-> ToText(ServerCode(secret, t)),
                          valid_for_seconds |-> ValidFor(t),
                          secret |-> secret,
                          issuedAt |-> t]

\* request_pin computes the PIN and how long it is good for, then awaits the database twice.
\* A generator that cannot be built ends the request (500): that is TotpServer.GetFails.
RequestPin == /\ response = None /\ slip = None
              /\ response' = GenerateAt(row, now)
              /\ outcome' = None
              /\ UNCHANGED <<now, row, lockVars, slip>>

\* However late, the person gets the numbers as they were computed.
Deliver == /\ response # None
           /\ slip' = [generated |-> response, receivedAt |-> now]
           /\ response' = None
           /\ outcome' = None
           /\ UNCHANGED <<now, row, lockVars>>

Lose == /\ response # None
        /\ response' = None
        /\ outcome' = None
        /\ UNCHANGED <<now, row, lockVars, slip>>

Discard == /\ slip # None
           /\ slip' = None
           /\ outcome' = None
           /\ UNCHANGED <<now, row, lockVars, response>>

\* The person types the PIN and Enter.  Fewer than DIGITS digits are no attempt.
EnterPin ==
  /\ slip # None
  /\ outcome' = CASE Len(slip.generated.pin) # DIGITS -> "Waiting"
                  [] Matches(image.secret, slip.generated.pin, clock, SKEW_STEPS) -> "Unlocked"
                  [] OTHER -> "Rejected"
  /\ UNCHANGED <<now, row, lockVars, response, slip>>

\* Mutant of Provision: the old row is deleted first, and the insert fails.
ProvisionDeletes == /\ row' = None
                    /\ outcome' = None
                    /\ UNCHANGED <<now, lockVars, response, slip>>

\* totp::provision mints another secret; the lock does not learn of it.
Provision == /\ row' \in Secrets \ {row}
             /\ outcome' = None
             /\ UNCHANGED <<now, lockVars, response, slip>>

\* A firmware is built with the registered secret, and put into the lock.
Flash == /\ image' = [secret |-> row, epoch |-> now]
         /\ clock' = now
         /\ outcome' = None
         /\ UNCHANGED <<now, row, response, slip>>

\* The lock starts again from the time its firmware was built.
PowerCycle == /\ clock' = image.epoch
              /\ outcome' = None
              /\ UNCHANGED <<now, row, image, response, slip>>

\* A second passes; the lock's clock may be slow or fast.
Tick == /\ now < MaxTime
        /\ now' = now + 1
        /\ \E d \in 0 .. MaxDrift : clock' = clock + d
        /\ clock' <= MaxTime
        /\ outcome' = None
        /\ UNCHANGED <<row, image, response, slip>>

Next == \/ RequestPin \/ Deliver \/ Lose \/ Discard
        \/ EnterPin
        \/ Provision \/ Flash \/ PowerCycle \/ Tick

Spec == Init /\ [][Next]_vars

---------------------------------------------------------------------------------
(* Properties *)

GeneratedPins == {GenerateAt(s, t) : s \in Secrets, t \in 0 .. MaxTime}

\* Type invariant: whatever is under way or in hand was generated at some moment.
TypeOK == /\ now \in 0 .. MaxTime
          /\ row \in Secrets
          /\ image \in [secret : Secrets, epoch : 0 .. MaxTime]
          /\ clock \in 0 .. MaxTime
          /\ response \in GeneratedPins \cup {None}
          /\ slip \in [generated : GeneratedPins, receivedAt : 0 .. MaxTime] \cup {None}
          /\ outcome \in Outcomes \cup {None}

SkewSeconds == SKEW_STEPS * STEP_SECONDS

\* By how much the lock is off for the person: its clock's error, and the age the PIN had
\* when it was handed over.
Lateness == (clock - now) + (slip.receivedAt - slip.generated.issuedAt)

\* The person's watch has not yet counted down the validity that came with the PIN.
SeemsValid == now - slip.receivedAt < slip.generated.valid_for_seconds

\* The promise of valid_for_seconds: a PIN of the lock's own secret opens it for as long as
\* the person believes it valid, whatever moment of its window it was issued in and
\* however late it came, provided clock error and delay together stay within the skew.
\* What breaks the promise is a power cycle or a drift beyond that, never the code
\* (totp/mod.rs:50-59, totp.rs:20-34, clock.rs:7-15).
HonouredWhileValid ==
  outcome \in {"Waiting", "Rejected"} =>
    ~(/\ slip.generated.secret = image.secret
      /\ SeemsValid
      /\ -SkewSeconds <= Lateness /\ Lateness <= SkewSeconds)

\* No two codes coincide within the horizon.  HMAC-SHA1 cut to DIGITS digits does not promise
\* this: a coincidence opens a lock by chance, and OpensOnlyNearIssue then fails.
CodesDiffer ==
  \A s, z \in Secrets : \A v, w \in 0 .. MaxTime + SKEW_STEPS :
    Hotp(s, v) = Hotp(z, w) => s = z /\ v = w

\* A PIN opens only a lock with the secret it was made from, and only while that lock's clock
\* reads a time less than SKEW_STEPS + 1 windows from its issue: a reset clock may
\* bring a PIN back to life, but only in the windows around its issue (totp.rs:23-32).
OpensOnlyNearIssue ==
  outcome = "Unlocked" =>
    /\ slip.generated.secret = image.secret
    /\ clock - slip.generated.issuedAt < SkewSeconds + STEP_SECONDS
    /\ slip.generated.issuedAt - clock < SkewSeconds + STEP_SECONDS
=================================================================================
