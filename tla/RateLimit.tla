-------------------------------- MODULE RateLimit --------------------------------
(* The limiter per Keycloak subject (totp-server/src/rate_limit.rs) on a clock.    *)
(*                                                                                 *)
(* rate_limit::config chooses a period and a burst size; the governor crate keeps  *)
(* the buckets.  It is modelled by the promise config relies on: a bucket holds    *)
(* `burst' tokens and one comes back every period.  A bucket is kept in ticks of   *)
(* refill: a token is worth Refill of them, so that no part of a period is lost.   *)
EXTENDS Integers, Sequences

CONSTANTS
  Subjects,
  RATE_LIMIT_MAX_REQUESTS,
  RATE_LIMIT_WINDOW_SECONDS,
  TICKS_PER_SECOND,            \* 1000 in the code
  MaxUptime                    \* bound: ticks between restarts of the server

\* The configured window in ticks.
Window == RATE_LIMIT_WINDOW_SECONDS * TICKS_PER_SECOND

\* Mutant of Refill: the quotient is taken in seconds, before they become milliseconds.
RefillInSeconds == (RATE_LIMIT_WINDOW_SECONDS \div RATE_LIMIT_MAX_REQUESTS) * TICKS_PER_SECOND

\* rate_limit::config: an integer quotient, the rest of which is dropped.
Refill == Window \div RATE_LIMIT_MAX_REQUESTS

\* Config::from_env refuses zeros, and finish() a refill of zero.
ASSUME LimitAssumption == /\ RATE_LIMIT_MAX_REQUESTS \in Nat \ {0}
                          /\ RATE_LIMIT_WINDOW_SECONDS \in Nat \ {0}
                          /\ TICKS_PER_SECOND \in Nat \ {0}
                          /\ Refill \in Nat \ {0}
                          /\ MaxUptime \in Nat

\* Mutant of Capacity: room for one token more than the burst.
CapacityOneMore == (RATE_LIMIT_MAX_REQUESTS + 1) * Refill

Capacity == RATE_LIMIT_MAX_REQUESTS * Refill

VARIABLES
  now,      \* ticks since the server started
  level,    \* per subject, the refill its bucket holds
  granted   \* history: per subject, when its requests were let through

vars == <<now, level, granted>>

Init == /\ now = 0
        /\ level = [s \in Subjects |-> Capacity]
        /\ granted = [s \in Subjects |-> <<>>]

\* Mutant of Grant: a token that is not quite there yet is given out.
GrantEarly(s) == /\ level[s] >= Refill - 1
                 /\ level' = [level EXCEPT ![s] = @ - Refill]
                 /\ granted' = [granted EXCEPT ![s] = Append(@, now)]
                 /\ UNCHANGED now

Grant(s) == /\ level[s] >= Refill
            /\ level' = [level EXCEPT ![s] = @ - Refill]
            /\ granted' = [granted EXCEPT ![s] = Append(@, now)]
            /\ UNCHANGED now

\* Mutant of Refuse: knocking on a closed door empties the bucket.
RefuseCharges(s) == /\ level[s] < Refill
                    /\ level' = [level EXCEPT ![s] = 0]
                    /\ UNCHANGED <<now, granted>>

\* 429: a refused request costs nothing.
Refuse(s) == /\ level[s] < Refill
             /\ UNCHANGED vars

\* Mutant of Tick: the whole burst comes back with the first period.
TickFillsUp == /\ now < MaxUptime
               /\ now' = now + 1
               /\ level' = [s \in Subjects |-> IF level[s] % Refill = Refill - 1 THEN Capacity
                                               ELSE IF level[s] < Capacity THEN level[s] + 1
                                               ELSE Capacity]
               /\ UNCHANGED granted

Tick == /\ now < MaxUptime
        /\ now' = now + 1
        /\ level' = [s \in Subjects |-> IF level[s] < Capacity THEN level[s] + 1 ELSE Capacity]
        /\ UNCHANGED granted

\* The buckets live in the server's memory.
Restart == /\ now' = 0
           /\ level' = [s \in Subjects |-> Capacity]
           /\ granted' = [s \in Subjects |-> <<>>]

Next == (\E s \in Subjects : Grant(s) \/ Refuse(s)) \/ Tick \/ Restart

Spec == Init /\ [][Next]_vars

---------------------------------------------------------------------------------
(* Properties *)

\* Type invariant.
TypeOK == /\ now \in 0 .. MaxUptime
          /\ level \in [Subjects -> 0 .. Capacity]
          /\ granted \in [Subjects -> Seq(0 .. MaxUptime)]

\* Requests let through beyond a burst of RATE_LIMIT_MAX_REQUESTS are paid for by the time
\* they took: over any interval, whatever the pattern of requests, at most the burst and
\* one more per whole period.  In the terms of the configuration, where a period is the
\* fraction window / max: what the quotient drops of it is less than a tick, for each
\* request beyond the burst and however many there are (rate_limit.rs:40-56).
RateBound ==
  \A s \in Subjects : \A i, j \in DOMAIN granted[s] :
    LET max == RATE_LIMIT_MAX_REQUESTS
        beyond == (j - i + 1) - max
        took == granted[s][j] - granted[s][i]
    IN  i <= j => /\ beyond * Refill <= took
                  /\ beyond * (Window - max + 1) <= max * took

\* A subject is refused only for requests of its own that were let through: some run of its
\* latest ones used up a burst and all but the last period that has passed since the run
\* began.  Refused requests and other subjects never count against it
\* (rate_limit.rs:13-15).
RefusedOnlyWhenSpent ==
  \A s \in Subjects :
    level[s] < Refill =>
      \E i \in DOMAIN granted[s] :
        ((Len(granted[s]) - i + 2) - RATE_LIMIT_MAX_REQUESTS) * Refill > now - granted[s][i]

\* What is left of a token bucket when the clock is taken away.
Bucket == INSTANCE TokenBucket WITH tokens <- [s \in Subjects |-> level[s] \div Refill]

\* The limiter on the clock is a token bucket: between whole tokens nothing is lost or
\* gained.
ImplementsTokenBucket == Bucket!BucketSpec

\* The claim of rate_limit.rs:41-42 that the bucket is the configured budget "over any
\* window": no RATE_LIMIT_WINDOW_SECONDS see more than RATE_LIMIT_MAX_REQUESTS.
BudgetPerWindow ==
  \A s \in Subjects : \A i, j \in DOMAIN granted[s] :
    i <= j /\ granted[s][j] - granted[s][i] < Window
      => j - i + 1 <= RATE_LIMIT_MAX_REQUESTS
=================================================================================
