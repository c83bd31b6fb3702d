# A verification project for urheilulaatikko

urheilulaatikko is a lockable sports box. A person proves who they are to a
server, gets a six-digit PIN that is good for half a minute, and types it on the
keypad of a lock that has no network. The two ends share a secret and an idea of
the time, and nothing else.

This directory holds TLA+ models of both ends, TLC configurations that check them
on small instances, and TLAPS proofs, for every instance, of all their invariants, of
their action properties and of both refinements; liveness is checked by TLC alone.
`PROJECT.json` lists the runs, the source lines behind every definition, the
hazards, the findings and the theorems.

## The system

### The lock (`lock-client/`)

| part | state | operations | source |
|---|---|---|---|
| Wiegand capture | bits of the frame being received, time of the last edge | GPIO interrupt handler; `take_completed_frame` | `firmware/src/wiegand_capture.rs` |
| Wiegand decoding | none | `decode_frame`, `decode_nibble` | `core/src/wiegand.rs` |
| PIN entry | six-digit array and its length | `push` of a digit, Cancel, Enter | `core/src/pin_entry.rs` |
| TOTP check | none | `matches` | `core/src/totp.rs` |
| Lock controller | the PIN entry | `on_frame` | `core/src/lock.rs` |
| Main loop, clock, bolt | relay pin, relock deadline, uptime | poll, compare the deadline, sleep 5 ms | `firmware/src/main.rs`, `clock.rs`, `actuator.rs` |

The interrupt handler fills the capture buffer at any moment; the main loop empties
it when both lines have been silent for 25 ms, decodes the frame and hands it to the
controller. The two sides share the buffer under `critical_section`. When the
controller accepts a code the loop releases the bolt and arms a deadline, which it
looks at once per turn. Nothing is persisted, and after power-up the clock
restarts from the time the firmware was built.

What is hard: pulses, interrupts and polling race each other, and both too short and
too long a silence threshold lose keys; the digit buffer wraps and keeps old digits;
a second code may arrive while the bolt is still released; every step of the loop
delays re-locking; the skew search runs into time zero; power may fail anywhere.

What makes it correct: each burst of the keypad is one key, read as it was sent; Enter
submits exactly what was typed; exactly the codes of the windows within the skew open
the lock; the bolt is thrown again in bounded time after the last accepted code.

### The server (`totp-server/`)

| part | state | operations | source |
|---|---|---|---|
| Token introspection | map from token to the broadcast sender of the request that is asking Keycloak | `authenticate`, `introspect`, `evaluate`, `InflightGuard::drop` | `auth/introspection.rs`, `state.rs` |
| Authentication and audit middleware | none of its own; writes `request_log` | `require_authentication`, `audit_rate_limited` | `auth/middleware.rs` |
| Rate limiting | a token bucket per subject | check and refill | `rate_limit.rs`, the `governor` crate |
| PIN request, provisioning | none of their own | `request_pin`, `provision` | `routes/` |
| Secret store | rows of `totp_secrets`, `request_log` | `get`, `upsert`, `touch_last_used`, `log_request` | `totp/secret_store.rs`, `crypto.rs` |
| PIN generation | none | `generate_at`, `provision` | `totp/mod.rs` |
| Configuration, start-up | the settings and the encryption key of the running server | `Config::from_env`, `main` | `config.rs`, `main.rs` |

Each HTTP request is a task. It passes authentication, the audit layer and the
limiter on its way to its handler, and may be dropped at any `await` when its client
goes away. Requests meet in three shared places: the in-flight map, the buckets and
the database.

What is hard: a leader of the single-flight map may be cancelled, may finish while
somebody is subscribing, and hands its answer to requests that arrived after it;
tokens are revoked and expire between any two steps; database calls fail one by one;
a secret may be replaced while a PIN is being made from it; a restart may bring another
encryption key to the rows of the old one.

What makes it correct: nobody is let in without a fresh positive answer for their own
token; nobody waits for ever; nobody gets more PINs than the limiter allows; the
secret a PIN is made from is one that was registered for that very subject; a secret
that was shown to an admin was stored, and the subject's row holds it or one stored
after it.

### Between them

A PIN and the seconds it is good for, on paper. The server computes both before it
awaits the database, so that a slow response arrives with numbers that are out of date.
The lock's clock drifts, and goes back to the build time at each power-up. The lock never
learns of a new secret. What makes it correct: a PIN opens the lock for as long as its
holder has reason to believe it valid, and does not open it far from its issue.

## The modules

| module | models | how |
|---|---|---|
| `PinEntry` | `pin_entry.rs` | `buffer` and `len` are the struct's fields, old digits past `len` included; the history `typed` is what the person believes they typed |
| `Totp` | `core/src/totp.rs` | `Matches` with its saturating arithmetic, and the reference `AcceptedIn` it is compared with; HMAC is the constant operator `Hotp` |
| `Lock` | `lock.rs`, `main.rs`, `clock.rs`, `actuator.rs` | one action per step of the loop (`Poll`, `Relock`, `Sleep`), a disjunct of `Poll` per branch of `on_frame`; a step may overrun by `LAG`; `PowerCycle` |
| `KeypadLock` | what the lock promises | no buffer, no loop, no timer: what a frame does to the attempt and the bolt, and how long a release may last |
| `Wiegand` | `wiegand.rs` | decoding of a bit frame; card numbers, which the lock ignores, are left out |
| `WiegandCapture` | `wiegand_capture.rs`, the loop's polling | pulses, latched lines, the handler (D0 before D1), the gap timeout; clock readings are kept as ages, so behaviours never end |
| `Device` | `main.rs` around the modules it composes | `WiegandCapture` and `PinEntry` in one loop: a turn polls, decodes, pushes the key and looks at the deadline; the histories `pressed` and `disturbed` are the keys of the attempt at the keypad and what a power failure did to it: `lost` takes digits, `cut` leaves the rest of a burst to be read, until that rest has been taken for noise or an attempt is closed |
| `EndToEnd` | `totp/mod.rs`, `clock.rs`, `build.rs`, with `Totp` | both clocks, the server's row, the lock's firmware image, the PIN on its way and in hand |
| `Introspection` | `auth/introspection.rs`, `state.rs` | one action per critical section and per end of an `await`; cancellation at each `await`; Keycloak (which may call any token inactive, but no revoked one active), revocation and expiry are the environment |
| `TokenBucket` | what rate limiting promises | whole tokens, no clock |
| `RateLimit` | `rate_limit.rs` and what it asks of governor | the period as the integer quotient `config` computes; a bucket holds ticks of refill, so that nothing between two tokens is lost; `granted` is a history |
| `TotpServer` | `routes/`, `auth/middleware.rs`, `totp/secret_store.rs`, `crypto.rs`, `config.rs`, `error.rs` | one action per stretch between two `await`s and per way it can end; `row` and `log` are the two tables and outlive a `Crash`; requests, buckets and the key do not, and `StartUp` reads a key from an arbitrary environment; the history `stored` has, for each upsert, the secrets stored for its subject since |
| `MCLock`, `MCDevice`, `MCEndToEnd`, `MCIntrospection`, `MCWiegandCapture`, `MCTotpServer` | instances for TLC | |
| `TotpProofs`, `PinEntryProofs`, `LockProofs`, `DeviceProofs`, `EndToEndProofs`, `IntrospectionProofs`, `RateLimitProofs`, `TotpServerProofs` | proofs | `DeviceProofs` is about `WiegandCapture` and `Device` |

`Lock` extends `PinEntry` and `Totp`: their operators are the bodies of its actions.
`Lock` takes its frames as given and decides by the clock which code is good. `Device`
does the opposite: its frames are those the interrupt handler collects, and whether a
code is good is left open. `EndToEnd` starts where both end, with a PIN typed as a whole.

`RateLimit` implements `TokenBucket`, and `TotpServer` extends `TokenBucket`: the
server needs of its limiter only that it is one.

In `TotpServer` the outcome of introspection is any of those that `Introspection`
shows to be possible, in one step. A failing statement may or may not have taken
effect. A secret is named by the request that minted it, so that two secrets are never
equal. A ciphertext is the pair of its secret and its key, and opens under that key and
no other. Roles belong to subjects; in the code they come with the token. An answer that
no handler gives (an unknown path, a wrong method) is left out, and 422 stands for every
status with which axum rejects a body (400, 413, 415 and 422).

Some abstractions deserve a word. In `Introspection` the histories `credit` and `loan`
record what held of a token since a request arrived, and what held since the arrival
of requests that were in progress at that moment; without them "fresh" could not be
stated, and they influence no step. In `Lock` time is a clock bounded by `MaxUptime`,
so that no run can promise that the bolt is thrown *eventually*; the stronger
`BoundedHold` says by when. In `Device` clock readings are kept as ages and the deadline
as the time left, so that `BoltIsThrown` is about behaviours without end. In `EndToEnd`
building a firmware with the registered secret, flashing it and booting is one step; a
`PowerCycle` right after it is a firmware that was deployed later than it was built.

## The runs

| run | instance | shows |
|---|---|---|
| `lock` | two-digit PINs, two ticks a second, two-second windows, skew 1, lag 1, uptime 16 | `BufferIsTail`, `SubmitsWhatWasTyped`, `DeadlineArmed`, `OverdueBound`, `BoundedHold` and that `Lock` implements `KeypadLock` |
| `device` | scaled timers and buffer, two-digit PINs, six bursts | `ChecksWhatWasPressed`: what is checked is what was pressed; `BoltIsThrown` |
| `end_to_end` | three-second windows, two-digit PINs, skew 1, clocks up to 12, two secrets | `HonouredWhileValid`, `OpensOnlyNearIssue` |
| `introspection` | three requests, one token | `EntryHasLeader`, `FollowersWillHear`, `AdmittedOnFreshAnswer` |
| `introspection_live` | two requests, a good token, one of another audience, one without `sub`, fair tasks | `EveryRequestEnds`, and `AdmittedOnFreshAnswer` through every branch of `evaluate`: outcomes never cross tokens |
| `capture` | the firmware's constants in milliseconds | `FramesAreBursts`, `EveryBurstArrives` |
| `rate_limit` | two subjects, two requests in three seconds of three ticks, uptime 9 | `RateBound`, `RefusedOnlyWhenSpent`, and that `RateLimit` implements `TokenBucket` |
| `server` | two requests, an admin and a user, a bucket of one token, two encryption keys | `PinOfOwnSecret`, `RowsAreProvisioned`, `AuditTrail`, `PaidFor`, `LastUsedIsRecent`, `AnsweredSecretIsStored`, `NotFoundMeansUnregistered` |
| `introspection_revocation` | expected violation | finding 1 |
| `introspection_cost` | expected violation | finding 2 |
| `capture_slow_bits` | expected violation | finding 3 |
| `rate_limit_window` | expected violation | finding 4 |

### Bounds

- `lock`: the lock powers up in the very first window, so that the skew reaches below
  time zero (the saturating addition) and, within 16 ticks, moves past it. Codes with
  a leading zero are among those of the instance. A release lasts 4 ticks, and two of
  them may overlap. Five digits between Enter and Cancel are two full buffers and one
  more, so that a third attempt starts over the digits of the first two.
- `device`: the values are scaled, not the firmware's (which `capture` has), and chosen so
  that the order of the timers is kept: a buffer of 5 bits, a message gap of 3 ticks, a loop
  that takes one or two, bits one or two ticks apart. Bursts are
  two digits, Enter, Cancel and two frames that are no key, but whose last four bits, all
  that a power-up in between leaves of them, read as a digit and as Enter: phantom keys
  do occur. A release of 30 ticks is long enough to enter a second code under it.
- `end_to_end`: 12 seconds are four windows, enough for a PIN to be issued, go stale on
  its way, and be tried in every window that the skew reaches, and for the lock to be
  flashed in between. The lock's clock advances by 0 to 2 seconds per second, so that it
  drifts both ways beyond the skew. The instance's codes do not collide within reach
  (`CodesDiffer`, which `MCEndToEnd` assumes), and some have a leading zero.
- `introspection`: three requests are a leader, a follower, and a newcomer that leads
  while the follower of the first leader falls back. The live run has one token for each
  way `evaluate` can go, which two requests may share or not. Connections are reused, so that
  sequences of requests have no bound. Requests are interchangeable (symmetry); the
  liveness run does without symmetry.
- `capture`: bit gaps of 2 to 23 ms, a handler latency of 1 ms, up to 3 ms of overrun
  per turn. The instance is at the edge of `TimingTolerated`: with 1 ms between bits two of
  them merge, with 24 ms the frame is cut, with 33 ms of silence two bursts become one, and
  TLC refutes `FramesAreBursts` in each case. Bursts are a digit, Enter, a 26-bit card and a 36-bit
  frame that overruns the 34-bit buffer.
- `rate_limit`: two requests in three seconds of three ticks make a period of four ticks
  and a half, which the quotient cuts to four; a quotient taken in seconds would cut it to
  three, which `RateBound` refutes. Nine ticks are a burst and two more tokens. The clock
  starts again with every restart, and so does the history: the bound holds between two
  restarts.
- `server`: each of the two requests may be a PIN request or a provisioning of either
  subject, by either of them, and each row may or may not be there before (the secret
  `Earlier`). A provisioning may thus fall between any two steps of a PIN request, of
  the caller's own row or of another, and two provisionings may race. With a bucket of
  one token the second request is refused unless a token comes back or the server
  restarts. With two keys a restart may make the present rows unreadable and the next one
  readable again. Two provisionings within one PIN request need a third request: that is
  left to the proofs, which have any number of them.

### Fairness

- `introspection_live` assumes weak fairness of each request's own steps. The runtime
  polls every ready task, and the HTTP client's 5 s timeout (`state.rs:14`) ends every
  call, so that `CallFails` is a step the task takes by itself. Nothing is assumed
  of clients, of Keycloak, of revocation or of cancellation.
- `capture` assumes that time passes, that the handler runs, that the loop turns, and
  that a keypad finishes a burst it began. The keypad may stay silent for ever.
- `device` assumes the same: `main` never returns from its loop, interrupts are enabled
  outside of critical sections, and time passes. Power may fail at any moment, also again
  and again.
- `lock`, `end_to_end` and `rate_limit` have no liveness property: their clocks are bounded.
- `server` has no liveness property: statements have no timeout in the code, so that
  nothing ends a request whose database stays silent.

## The proofs

- `TotpProofs`, theorem `MatchesIsAcceptedIn`. The code shifts the *clock* by whole
  windows and saturates at zero; the reference asks for a *window* within the skew. The
  lemmas say that shifting a reading by k windows shifts its window by k, or saturates
  both at zero; a window the saturation repeats is window 0, which is within the skew
  whenever it is reached.
- `PinEntryProofs`, lemmas about the digit buffer. `EntryInv` is its type invariant with
  `BufferIsTail`. What Enter returns is only right because `len` is a known function of
  the number of digits typed, which is what `BufferIsTail` adds; one lemma computes how
  it grows.
- `LockProofs`. `BoundedHold` is not inductive. `LockInv` adds `DeadlineArmed` (the
  deadline is that of the last accepted code) and `OverdueBound`, which says for each
  step of the loop how far past the deadline the clock can be: after a check that did
  not fire the deadline is in the future, and a delay and two overruns later the next
  check fires. `EntryInv` is its part about the buffer. From it follow type correctness,
  `BufferIsTail`, `SubmitsWhatWasTyped`, `DeadlineArmed`, `OverdueBound`, `BoundedHold`,
  and the refinement: each disjunct of `Poll` is the abstract action of the same frame, by
  `SubmissionFromEntryInv` (the buffer holds the attempt) and `MatchesIsAcceptedIn`
  (the search accepts the good codes), and `Relock` is `Throw`, because a deadline
  that is due belongs to a release whose time is up.
- `RateLimitProofs`. `RateBound` speaks of pairs of grants and says nothing of the
  bucket, so it is not inductive. `LimitInv` keeps, per subject, books that relate the
  level to the grants: for every run of latest grants, what they cost beyond a burst,
  plus what the bucket holds, is no more than the time since the run began (which a
  grant turns into `RateBound` for itself); and unless the bucket is full, some run
  explains the level exactly, which is what `RefusedOnlyWhenSpent` needs. For the
  refinement, one lemma says what a step of the level does to the number of whole
  tokens in it: a grant takes one, a tick brings one or none. `RateBound` has a second half,
  in the configured terms and not in the period that was cut: `RefillFacts` says how much
  the quotient drops, `PaidAsConfigured` what that comes to for any number of requests.
- `EndToEndProofs`. `PinInv` is the type invariant, `NotFromTheFuture` (a PIN was issued
  before it was received, and received before now), `HonouredWhileValid` and
  `OpensToOwnCode`. The lemmas say that the seconds `generate_at` announces end with the
  window (from the uniqueness of a window's bounds), and that two clocks that differ by k
  windows' worth of seconds are at most k windows apart. While the person believes the PIN
  valid, the window it was made for is that of its issue plus the time on the person's
  watch; clock error and delay together place the lock's reading within the skew of that,
  and `MatchesIsAcceptedIn` turns a window within the skew into an accepted code. In the
  other direction, `OpensToOwnCode` says for every `Hotp` that a lock opens only to the code
  of its own secret for a window within its skew. That this is the window of the PIN's issue
  is true only where codes do not coincide: `PinOpensOnlyNearIssue` has the hypothesis
  `CodesDiffer`, which six digits cannot keep for ever and which the instance satisfies.
- `DeviceProofs`, first part. `FramesAreBursts` is an action property. `CaptureInv` has two
  parts. `OneBurst` says where each bit of the burst under way is: the last ones in the
  keypad, at most one latched, the others, or the last `MAX_BITS` of them, in the buffer.
  `ClocksAgree` relates the age of the last edge, the time since the last pulse, how long an
  edge has waited and how long the loop has not looked. The hypothesis `TimingTolerated`
  enters at three places: a pulse finds the line before it served (or two bits of one line
  would be one), a frame that is old enough to be taken has nothing more to come, and a
  burst begins only after the one before it was taken. The type invariant needs none of it.
- `DeviceProofs`, second part. `DeviceInv` adds `DigitsArrive`: unless a power-up cut a
  burst, the digits in the lock are the last of those pressed, less the one whose burst is
  under way, and all of them if power held. A power failure keeps `CaptureInv`, because what
  is left of a burst is a burst; it keeps `DigitsArrive` because the buffer is empty then,
  and the attempt at the keypad either is, too, or counts as `lost`.
  With `SubmissionFromEntryInv` this is `ChecksWhatWasPressed`, the way from the pulses to
  the code that is checked. Here the buffer need only be longer than a key.
- `IntrospectionProofs`, for any number of requests and tokens. `EntryHasLeader` and
  `FollowersWillHear` are inductive together with what a place implies of a request's hands
  (`HandsMatchPlace`) and the fact that receivers are waiting (`ReceiversWait`).
  `AdmittedOnFreshAnswer` speaks of outcomes already taken, so the invariant follows the
  answer on its way: an outcome in a request's hands or in a mailbox was earned by a credit
  of the request that got it (`OutcomesAreEarned`), a request has on its books that it came
  before the expiry or got a positive answer (`CreditIsKept`), and a follower's loan covers the credit of its leader
  (`FollowersBorrow`).
- `TotpServerProofs`, for any number of requests, subjects and keys. `ServerInv` is
  `RequestSound` for each request (its place fits its record, its hands are empty until a
  handler fills them, it has paid, its row in the log is the one its answer calls for, and
  the present secret of its caller is among those it has `seen`), with the four invariants
  about rows, which relate requests to one another. One lemma, `OwnStepKeepsInv`, covers
  every step that concerns a single request: it says what such a step has to leave alone
  and not to take back for everybody else's part of the invariant to survive. Only the
  upsert, the crash and the machine's own steps are proved on their own.

The assumptions on constants are `PinAssumption`, `StepAssumption`, `TimeAssumption`,
`FrameAssumption`, `CaptureAssumption`, `DeviceAssumption`, `LimitAssumption`,
`BucketAssumption`, `TokenAssumption`, `ServerAssumption`, `EndToEndAssumption` and
`TextAssumption`: lengths and durations are natural numbers and positive where the code
divides by them or indexes with them, keys, frames and requests are different from each
other and from the absence of one, and a keypad's pauses between bits are no longer than
its silence after a burst. `LimitAssumption` is what `Config::from_env` and governor's
`finish` refuse to start without. `TextAssumption` says that reading the digits of a printed
code gives the code: it is about a fold over the digits, which the provers cannot unfold for
every length, and TLC evaluates it for the instance. `Hotp` is arbitrary. Two hypotheses are
not assumptions of a module but of single theorems: `CodesDiffer`, and `TimingTolerated`
with the size of the buffer (34 bits in the firmware).

Each inductive invariant was checked with TLC on the instance of its run before it was
proved.

Only model-checked: liveness (`EveryRequestEnds`, `EveryBurstArrives`, `BoltIsThrown`), which
rests on fairness and `ENABLED`; and the values of `DigitsToValue` and of a nibble, which are
folds. That the governor crate keeps its buckets the way `rate_limit.rs` configures them is
assumed.

## Findings

1. `introspection.rs:27-28` says that revocation "still takes effect on the very next
   request". A request that arrives after the revocation and subscribes to a leader
   whose answer is older is let in. `AdmittedOnFreshAnswer` states the bound that the
   code does keep: the answer is no older than the arrival of a request that was in
   progress when this one arrived.
2. `introspection.rs:25-26` says that N concurrent requests cost one introspection. The
   outcome is sent and the sender removed under two locks; a request that subscribes
   in between finds its channel closed although nobody was cancelled, and calls
   Keycloak while the next leader calls too.
3. `wiegand_capture.rs:25-27` says that keypads typically leave 20-100 ms between bits.
   The 25 ms gap on the next line cuts such a key press into pieces.
4. `rate_limit.rs:41-42` says that the bucket is the configured budget "over any
   window". A burst from a full bucket and the tokens that come back in the same window
   are nearly twice the budget. `RateBound` is the bound that holds.

Remarks rather than findings:

- `totp-server/README.md:161` says that every PIN request lands in `request_log`. One that
  is answered 503 (on purpose, `middleware.rs:34-36`) or 500 leaves no row.
  `ExpectedEntry` lists the answers that do, and `AuditTrail` says that for them the row
  is there first.
- `totp-server/README.md:57-58` says that provisioning again "invalidates the old one". It
  does at the server: no PIN is made from the old secret after that, except by requests
  that had read it (`PinOfOwnSecret`). A lock keeps accepting codes of the secret in its
  image until it is flashed (`Provision` leaves `image` alone).
- After a restart with another key every PIN request of a subject with a row is answered
  500, not 404 (`NotFoundMeansUnregistered`). There is no key versioning, as
  `totp-server/README.md:148-151` says; the old key brings the rows back.
- A lock that powers up in the middle of a burst may read the rest of it as a key nobody
  pressed. That is why `ChecksWhatWasPressed` exempts an attempt in which that may have
  happened. The first attempt after any other power-up is not exempt.
- A power cycle of the lock ends the promise of `HonouredWhileValid` unless the build is
  less than the skew ago, as `clock.rs:7-15` says, and may bring an old PIN back to life,
  within the bounds of `OpensOnlyNearIssue`.

## Not modelled

- HMAC-SHA1: an arbitrary function, outside this repository. AES-GCM beyond what a key
  opens: nonces, and tampering with a stored ciphertext.
- How base32, base64, numbers and the otpauth URL are written and read.
- Logging and `/healthz`: no state that changes. The limit of ten pooled connections: a
  request that waits for one is a request whose statement has not been executed yet.
- The edge between `listen` and the registration of the capture state in `install`
  (`wiegand_capture.rs:45`): its effect depends on the hardware abstraction layer.
- Poisoning of the in-flight mutex: nothing panics while it is held.
- The numbers on a card, which the lock ignores.
- The simulation harness, containers, CI and the drawings of the box.
- How a secret gets into a lock: the firmware has one compiled-in `SECRET`, a
  placeholder by its own comment, while the server mints one per subject. `EndToEnd` takes
  any secret as the compiled-in one, and has `Flash` put the registered one there.

## Plan

What is left is small. The one hazard without a property, an edge between `listen` and
the registration of the capture state, needs a model of the hardware abstraction layer. The
outcome of introspection is arbitrary in `TotpServer`; a refinement of that step by
`Introspection` would tie the two proofs together.
