----------------------------- MODULE StoreChain -----------------------------
(***************************************************************************)
(* The store that main.go's buildStore assembles,                          *)
(*                                                                         *)
(*     blockcache -> breaker -> redisstore -> go-redis -> Redis            *)
(*                                                                         *)
(* and the calls that pass through it.  The components' own modules count  *)
(* ticks; here expiry and cooldown are steps that may come at any time, so *)
(* that the client's retries, the outages and the losses between client    *)
(* and Redis can be examined together with the layers above them.          *)
(*                                                                         *)
(* decide.Run and take.Run send EVALSHA, and EVAL when Redis answers that  *)
(* it does not know the script; the client sends each command again after  *)
(* a network error, up to MaxRetries times.  Whether the script finds the  *)
(* bucket over its limit is FixedWindow's and TokenBucket's subject and is *)
(* a free choice here.                                                     *)
(***************************************************************************)
EXTENDS Integers, FiniteSets

CONSTANTS
    Windows,     \* buckets of fixed-window limiters (Consume)
    Buckets,     \* buckets of token-bucket limiters (Take)
    Caller,      \* request goroutines
    NoKey,       \* the bucket of an idle caller
    MaxRetries,  \* Config.MaxRetries as the client applies it
    Threshold    \* the breaker's; 0 disables it

ASSUME ChainAssumption ==
    /\ MaxRetries \in Nat
    /\ Threshold \in Nat
    /\ Windows \intersect Buckets = {}
    /\ NoKey \notin Windows \union Buckets

VARIABLES
    entries,                    \* the cache: each window is "none", "live" or "expired"
    failures, circuit, probing, \* the breaker; circuit is "closed", "cooling" or "ready"
    script, up,                 \* Redis: knows the script; answers
    at, key, left, verdict,     \* each call: place, bucket, attempts left, answer
    counted,                    \* history: executions of the script for each call; once
                                \* the outcome is recorded, whether there were any
    known,                      \* history: the bucket was cached when the call came
    flushed,                    \* history: Redis forgot the script it had run for the call
    probes                      \* history: callers admitted by an open circuit

cache     == entries
breaker   == <<failures, circuit, probing>>
redis     == <<script, up>>
call      == <<at, key, left, verdict, counted, known, flushed, probes>>
chainVars == <<cache, breaker, redis, call>>

Key == Windows \union Buckets

Attempts == MaxRetries + 1

ChainInit ==
    /\ entries = [k \in Windows |-> "none"]
    /\ failures = 0 /\ circuit = "closed" /\ probing = FALSE
    /\ script = FALSE /\ up = TRUE
    /\ at = [c \in Caller |-> "idle"]
    /\ key = [c \in Caller |-> NoKey]
    /\ left = [c \in Caller |-> 0]
    /\ verdict = [c \in Caller |-> "none"]
    /\ counted = [c \in Caller |-> 0]
    /\ known = {} /\ flushed = {} /\ probes = {}

Live(k) == k \in Windows /\ entries[k] = "live"

Answer(c, v) ==
    /\ at' = [at EXCEPT ![c] = "answered"]
    /\ verdict' = [verdict EXCEPT ![c] = v]

(***************************************************************************)
(* The cache: Consume looks the bucket up, Take does not.                  *)
(***************************************************************************)
Begin(c, k) ==
    /\ at[c] = "idle"
    /\ key' = [key EXCEPT ![c] = k]
    /\ known' = IF Live(k) THEN known \union {c} ELSE known
    /\ UNCHANGED <<cache, breaker, redis, left, counted, flushed, probes>>

Hit(c, k) ==
    /\ Live(k)
    /\ Begin(c, k)
    /\ Answer(c, "hit")

\* Mutant: the breaker is outermost, and a call it refuses is not looked up.
MissesOpen(k) == ~Live(k) \/ circuit = "cooling"

Misses(k) == ~Live(k)

Miss(c, k) ==
    /\ Misses(k)
    /\ Begin(c, k)
    /\ at' = [at EXCEPT ![c] = "allow"]
    /\ UNCHANGED verdict

(***************************************************************************)
(* The breaker: allow                                                      *)
(***************************************************************************)
Send(c) ==
    /\ at' = [at EXCEPT ![c] = "evalsha"]
    /\ left' = [left EXCEPT ![c] = Attempts]
    /\ UNCHANGED <<cache, redis, key, verdict, counted, known, flushed>>

Admit(c) ==
    /\ at[c] = "allow"
    /\ Threshold = 0 \/ circuit = "closed"
    /\ Send(c)
    /\ UNCHANGED <<breaker, probes>>

Probe(c) ==
    /\ at[c] = "allow"
    /\ Threshold > 0 /\ circuit = "ready" /\ ~probing
    /\ probing' = TRUE
    /\ probes' = probes \union {c}
    /\ Send(c)
    /\ UNCHANGED <<failures, circuit>>

\* Mutant: a refused call is answered with an empty result and no error.
ErrOpenNil == "allowed"

ErrOpen == "suppressed"

Suppress(c) ==
    /\ at[c] = "allow"
    /\ Threshold > 0 /\ (circuit = "cooling" \/ (circuit = "ready" /\ probing))
    /\ Answer(c, ErrOpen)
    /\ UNCHANGED <<cache, breaker, redis, key, left, counted, known, flushed, probes>>

(***************************************************************************)
(* The client and Redis.  An attempt executes the script and is answered,  *)
(* executes it and the reply is lost, never arrives, or learns that the    *)
(* script is unknown.  The client gives up after its attempts, or when the *)
(* request's context ends.                                                 *)
(***************************************************************************)
Sending(c) == at[c] \in {"evalsha", "eval"}

Execute(c) ==
    /\ Sending(c) /\ up
    /\ at[c] = "evalsha" => script
    /\ script' = TRUE
    /\ counted' = [counted EXCEPT ![c] = @ + 1]
    /\ UNCHANGED <<cache, breaker, up, key, known, flushed, probes>>

Replied(c, v) ==
    /\ Execute(c)
    /\ at' = [at EXCEPT ![c] = "replied"]
    /\ left' = [left EXCEPT ![c] = 0]
    /\ verdict' = [verdict EXCEPT ![c] = v]

\* Mutant: a lost reply does not use up an attempt.
SpentOnlyOnError(c, executed) == IF executed THEN left[c] ELSE left[c] - 1

Spent(c, executed) == left[c] - 1

\* The next attempt, or the error after the last one.
Again(c, executed) ==
    /\ left' = [left EXCEPT ![c] = Spent(c, executed)]
    /\ at' = [at EXCEPT ![c] = IF left'[c] = 0 THEN "failed" ELSE @]
    /\ UNCHANGED verdict

ReplyLost(c) ==
    /\ Execute(c)
    /\ Again(c, TRUE)

RequestLost(c) ==
    /\ Sending(c)
    /\ Again(c, FALSE)
    /\ UNCHANGED <<cache, breaker, redis, key, counted, known, flushed, probes>>

\* Mutant: the hash is sent again.
FallbackSame == "evalsha"

Fallback == "eval"

NoScript(c) ==
    /\ at[c] = "evalsha" /\ up /\ ~script
    /\ at' = [at EXCEPT ![c] = Fallback]
    /\ left' = [left EXCEPT ![c] = Attempts]
    /\ UNCHANGED <<cache, breaker, redis, key, verdict, counted, known, flushed, probes>>

Cancel(c) ==
    /\ Sending(c)
    /\ at' = [at EXCEPT ![c] = "failed"]
    /\ left' = [left EXCEPT ![c] = 0]
    /\ UNCHANGED <<cache, breaker, redis, key, verdict, counted, known, flushed, probes>>

(***************************************************************************)
(* Back in the breaker: record.  Back in the cache: remember a block of a  *)
(* window (its room is BlockCache's subject), then answer.                 *)
(***************************************************************************)
\* Mutant: the failure that reaches the threshold does not open the circuit.
TripsLate(n) == n > Threshold

Trips(n) == n >= Threshold

record(success) ==
    IF Threshold = 0 THEN UNCHANGED breaker
    ELSE /\ probing' = FALSE
         /\ failures' = IF success THEN 0 ELSE IF failures < Threshold THEN failures + 1 ELSE failures
         /\ circuit' = IF success THEN "closed" ELSE IF Trips(failures') THEN "cooling" ELSE circuit

RecordFailure(c) ==
    /\ at[c] = "failed"
    /\ record(FALSE)
    /\ Answer(c, "error")
    /\ counted' = [counted EXCEPT ![c] = 0]
    /\ flushed' = flushed \ {c} /\ probes' = probes \ {c}
    /\ UNCHANGED <<cache, redis, key, left, known>>

RecordSuccess(c) ==
    /\ at[c] = "replied"
    /\ record(TRUE)
    /\ at' = [at EXCEPT ![c] = "recorded"]
    /\ counted' = [counted EXCEPT ![c] = IF @ > 0 THEN 1 ELSE 0]
    /\ flushed' = flushed \ {c} /\ probes' = probes \ {c}
    /\ UNCHANGED <<cache, redis, key, left, verdict, known>>

Remember(c) ==
    /\ at[c] = "recorded"
    /\ entries' = [k \in Windows |-> IF k = key[c] /\ verdict[c] = "blocked" THEN "live" ELSE entries[k]]
    /\ Answer(c, verdict[c])
    /\ UNCHANGED <<breaker, redis, key, left, counted, known, flushed, probes>>

Return(c) ==
    /\ at[c] = "answered"
    /\ at' = [at EXCEPT ![c] = "idle"]
    /\ key' = [key EXCEPT ![c] = NoKey]
    /\ verdict' = [verdict EXCEPT ![c] = "none"]
    /\ counted' = [counted EXCEPT ![c] = 0]
    /\ known' = known \ {c}
    /\ UNCHANGED <<cache, breaker, redis, left, flushed, probes>>

(***************************************************************************)
(* Time, the sweeper, Redis coming and going.                              *)
(***************************************************************************)
EntryExpires(k) ==
    /\ entries[k] = "live"
    /\ entries' = [entries EXCEPT ![k] = "expired"]
    /\ UNCHANGED <<breaker, redis, call>>

\* Mutant: nothing is swept.
SweptNone(k) == FALSE

Swept(k) == entries[k] = "expired"

Sweep ==
    /\ entries' = [k \in Windows |-> IF Swept(k) THEN "none" ELSE entries[k]]
    /\ UNCHANGED <<breaker, redis, call>>

CooldownOver ==
    /\ circuit = "cooling"
    /\ circuit' = "ready"
    /\ UNCHANGED <<cache, failures, probing, redis, call>>

Outage ==
    /\ up' = ~up
    /\ UNCHANGED <<cache, breaker, script, call>>

\* A restart or a failover: the script cache is lost.
Flush ==
    /\ script
    /\ script' = FALSE
    /\ flushed' = flushed \union {c \in Caller : Sending(c) /\ counted[c] > 0}
    /\ UNCHANGED <<cache, breaker, up, at, key, left, verdict, counted, known, probes>>

Progress(c) ==
    \/ Admit(c) \/ Probe(c) \/ Suppress(c)
    \/ \E v \in {"allowed", "blocked"} : Replied(c, v)
    \/ ReplyLost(c) \/ RequestLost(c) \/ NoScript(c) \/ Cancel(c)
    \/ RecordFailure(c) \/ RecordSuccess(c) \/ Remember(c) \/ Return(c)

ChainNext ==
    \/ \E c \in Caller : \/ \E k \in Key : Hit(c, k) \/ Miss(c, k)
                         \/ Progress(c)
    \/ \E k \in Windows : EntryExpires(k)
    \/ Sweep \/ CooldownOver \/ Outage \/ Flush

ChainSpec == ChainInit /\ [][ChainNext]_chainVars

(***************************************************************************)
(* Fairness: a call under way is scheduled and its attempts end (they have *)
(* timeouts), requests keep coming, the sweeper's ticker fires.            *)
(***************************************************************************)
Fairness ==
    /\ WF_chainVars(Sweep)
    /\ \A c \in Caller : WF_chainVars(Progress(c)) /\ WF_chainVars(\E k \in Key : Hit(c, k) \/ Miss(c, k))

FairSpec == ChainSpec /\ Fairness

----------------------------------------------------------------------------
\* Types of the layers, of Redis and of the calls.
ChainTypeOK ==
    /\ entries \in [Windows -> {"none", "live", "expired"}]
    /\ failures \in 0..Threshold /\ circuit \in {"closed", "cooling", "ready"} /\ probing \in BOOLEAN
    /\ script \in BOOLEAN /\ up \in BOOLEAN
    /\ at \in [Caller -> {"idle", "allow", "evalsha", "eval", "replied", "failed", "recorded", "answered"}]
    /\ key \in [Caller -> Key \union {NoKey}]
    /\ left \in [Caller -> 0..Attempts]
    /\ verdict \in [Caller -> {"none", "hit", "suppressed", "error", "allowed", "blocked"}]
    /\ counted \in [Caller -> Nat]
    /\ known \subseteq Caller /\ flushed \subseteq Caller /\ probes \subseteq Caller

\* A request is charged more than once only for replies that were lost: at most
\* MaxRetries + 1 times, and at most 2 * MaxRetries + 1 times if Redis forgets
\* the script between two attempts and the client starts over with EVAL.
ChargedWithinRetries ==
    \A c \in Caller : counted[c] <= IF c \in flushed THEN 2 * MaxRetries + 1 ELSE MaxRetries + 1

\* An answer from Redis was charged, one from the cache or the breaker was not,
\* and Take never answers from the cache ("every request must actually take a
\* token, or the count is wrong").
AnswerIsCharged ==
    \A c \in Caller : at[c] = "answered" =>
        /\ verdict[c] \in {"allowed", "blocked"} => counted[c] > 0
        /\ verdict[c] \in {"hit", "suppressed"} => counted[c] = 0
        /\ verdict[c] = "hit" => key[c] \in Windows

\* A bucket known to be blocked is turned away at no cost, whatever the state
\* of the breaker, the client and Redis (main.go: "The cache is outermost so a
\* known-blocked bucket costs nothing at all").
KnownBlockedStaysOut ==
    \A c \in known : at[c] = "answered" /\ verdict[c] = "hit"

\* Once Redis is gone for good, eventually only probes try to reach it, however
\* the calls under way and their retries end ("an outage stops producing
\* connection attempts").
OutageIsShed ==
    <>[]~up /\ Threshold > 0 => <>[](\A c \in Caller : Sending(c) => c \in probes)

\* Every call ends: retries, script reloads and outages together never keep a
\* request for good.
CallEnds ==
    \A c \in Caller : at[c] # "idle" ~> at[c] = "idle"

\* Expired entries give their room back: an entry that is not refreshed is
\* eventually swept, so a full cache does not stay full of dead blocks.
ExpiredSwept ==
    \A k \in Windows : entries[k] = "expired" ~> entries[k] # "expired"
=============================================================================
