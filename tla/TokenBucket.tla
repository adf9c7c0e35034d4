---------------------------- MODULE TokenBucket ----------------------------
(***************************************************************************)
(* The `take` script of internal/store/redisstore on one bucket.  Redis    *)
(* holds a hash {n: tokens, t: time of the last call} that is refilled     *)
(* lazily by the next call and expires when idle.                          *)
(*                                                                         *)
(* A tick is a millisecond of the script's arithmetic; Milli, 1000 in the  *)
(* code, is the number of ticks per second and of units per token.  The    *)
(* script's clock is Redis's wall clock, which may be set back.  The hash  *)
(* is kept as [n, age, ttl]: age is now - t, ttl the ticks until Redis     *)
(* expires the key, 0 when there is no key.                                *)
(***************************************************************************)
EXTENDS Integers

CONSTANTS
    Rate,     \* store.Bucket.Rate: tokens per second
    Burst,    \* store.Bucket.Burst: capacity in tokens
    Milli,    \* 1000 in the code
    Slack,    \* 10000 in the code: ticks an idle key is kept beyond refill
    MaxBack   \* bound: ticks the clock may be behind the last call

\* store.Bucket.Valid, which Take checks before it runs the script.
ASSUME BucketValid ==
    /\ Rate \in Nat \ {0}
    /\ Burst \in Nat \ {0}
    /\ Milli \in Nat \ {0}
    /\ Slack \in Nat
    /\ MaxBack \in Nat

VARIABLES
    n, age, ttl,  \* the hash
    reply,        \* the last reply
    load          \* history: units taken in excess of the refill since then.
                  \* Each grant adds Milli, each tick drains Rate down to 0; so
                  \* load is the largest value, over all spans of time ending
                  \* now, of Milli * grants - Rate * ticks.

hash == <<n, age, ttl>>
bucketVars == <<n, age, ttl, reply, load>>

Capacity == Burst * Milli

Ceil(a, b) == (a + b - 1) \div b

\* Mutant: rounded down, and no slack.
IdleTTLShort == Capacity \div Rate

IdleTTL == Ceil(Capacity, Rate) + Slack

BucketInit ==
    /\ n = 0 /\ age = 0 /\ ttl = 0
    /\ reply = [allowed |-> TRUE, remaining |-> Burst, retry |-> 0]
    /\ load = 0

Elapsed == IF age < 0 THEN 0 ELSE age

Refilled ==
    IF ttl = 0 THEN Capacity
    ELSE IF n + Elapsed * Rate < Capacity THEN n + Elapsed * Rate
    ELSE Capacity

\* Mutant: the wait is rounded down.
RetryFloor(tokens) == (Milli - tokens) \div Rate

Retry(tokens) == Ceil(Milli - tokens, Rate)

\* HSET n, t := now and PEXPIRE, on both outcomes.
Store(tokens) ==
    /\ n' = tokens
    /\ age' = 0
    /\ ttl' = IdleTTL

Grant ==
    /\ Refilled >= Milli
    /\ Store(Refilled - Milli)
    /\ reply' = [allowed |-> TRUE, remaining |-> (Refilled - Milli) \div Milli, retry |-> 0]
    /\ load' = load + Milli

Refuse ==
    /\ Refilled < Milli
    /\ Store(Refilled)
    /\ reply' = [allowed |-> FALSE, remaining |-> Refilled \div Milli, retry |-> Retry(Refilled)]
    /\ UNCHANGED load

Take == Grant \/ Refuse

Expire ==
    /\ n' = 0 /\ age' = 0 /\ ttl' = 0

BucketTick ==
    /\ IF ttl <= 1 THEN Expire
       ELSE /\ age' = age + 1
            /\ ttl' = ttl - 1
            /\ UNCHANGED n
    /\ load' = IF load > Rate THEN load - Rate ELSE 0
    /\ UNCHANGED reply

\* Redis's wall clock is set back (NTP, a failover to another host).  Expiry
\* times are absolute, so the key lives longer by as much.
ClockBack ==
    /\ ttl > 0 /\ age > -MaxBack
    /\ age' = age - 1
    /\ ttl' = ttl + 1
    /\ UNCHANGED <<n, reply, load>>

BucketNext == Take \/ BucketTick \/ ClockBack

BucketSpec == BucketInit /\ [][BucketNext]_bucketVars

----------------------------------------------------------------------------
\* Types of the hash, the reply and the history.
TypeOK ==
    /\ n \in 0..Capacity
    /\ age \in -MaxBack..IdleTTL
    /\ ttl \in 0..(IdleTTL + MaxBack)
    /\ reply \in [allowed : BOOLEAN, remaining : 0..Burst, retry : 0..Milli]
    /\ load \in Nat

\* In any span of D ticks at most Burst + Rate * D / Milli requests are
\* granted, whatever the spacing of the calls, the expiry of the key and the
\* clock being set back.
RateBound ==
    load <= Capacity

\* A refused caller is never told to wait longer than one token takes to
\* refill, even after the clock was set back.
RetryBounded ==
    reply.retry <= Ceil(Milli, Rate)

Behind == IF age < 0 THEN -age ELSE 0

Ideal == INSTANCE IdealBucket WITH level <- Refilled, behind <- Behind

\* The hash, refilled by the next call only and expiring when idle, is
\* indistinguishable from a bucket that refills all the time: same verdicts,
\* same remaining tokens, and an advised wait that is exactly long enough.
\* A clock that is set back loses refill and never adds any.
RefinesIdeal == Ideal!Spec
=============================================================================
