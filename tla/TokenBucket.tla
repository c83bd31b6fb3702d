------------------------------- MODULE TokenBucket -------------------------------
(* What rate limiting promises, in whole tokens: each subject has a bucket of at   *)
(* most RATE_LIMIT_MAX_REQUESTS tokens, a request takes one from the bucket of its *)
(* own subject and is refused when there is none, and tokens come back in time,    *)
(* never more than fit.  RateLimit implements it on a clock; TotpServer uses it.   *)
EXTENDS Integers

CONSTANTS Subjects, RATE_LIMIT_MAX_REQUESTS

ASSUME BucketAssumption == RATE_LIMIT_MAX_REQUESTS \in Nat \ {0}   \* config.rs:46-48

VARIABLE tokens

Full == [s \in Subjects |-> RATE_LIMIT_MAX_REQUESTS]

BucketInit == tokens = Full

Take(s) == /\ tokens[s] > 0
           /\ tokens' = [tokens EXCEPT ![s] = @ - 1]

Refused(s) == tokens[s] = 0

\* Time may bring any subject its next token.
Replenish == tokens' \in {t \in [Subjects -> 0 .. RATE_LIMIT_MAX_REQUESTS] :
                            \A s \in Subjects : t[s] \in {tokens[s], tokens[s] + 1}}

\* The buckets live in the server's memory.
BucketRestart == tokens' = Full

BucketNext == (\E s \in Subjects : Take(s)) \/ Replenish \/ BucketRestart

BucketSpec == BucketInit /\ [][BucketNext]_tokens
=================================================================================
