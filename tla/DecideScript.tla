---------------------------- MODULE DecideScript ----------------------------
(***************************************************************************)
(* The `decide` script of internal/store/redisstore: one atomic step of    *)
(* the fixed-window limiter on one bucket, as a function from the bucket's *)
(* two Redis keys to their new values and the reply.                       *)
(*                                                                         *)
(* Durations are in ticks, Second ticks to the second, because Redis keeps *)
(* milliseconds while EXPIRE, SET EX and TTL speak whole seconds.  A key is *)
(* represented by what is left of its time to live: 0 when it is absent,   *)
(* NoExpiry when it would stay for ever.                                   *)
(***************************************************************************)
EXTENDS Integers

CONSTANTS
    Second,  \* ticks per second
    Limit,   \* store.Rule.Limit
    Window,  \* store.Rule.Window, in ticks
    Block    \* store.Rule.Block, in ticks

\* store.Rule.Valid, which Consume checks before it runs the script.
ASSUME RuleValid ==
    /\ Second \in Nat \ {0}
    /\ Limit \in Nat \ {0}
    /\ Window \in Nat \ {0}
    /\ Block \in Nat \ {0}

NoExpiry == -1

seconds(d) == IF d <= 0 THEN 1 ELSE (d + Second - 1) \div Second

WindowTicks == seconds(Window) * Second
BlockTicks  == seconds(Block) * Second

\* Redis's TTL: what is left, rounded to the nearest second.
TTL(left) == (2 * left + Second) \div (2 * Second)

Absent == [n |-> 0, ttl |-> 0]

INCR(counter) ==
    IF counter = Absent THEN [n |-> 1, ttl |-> NoExpiry]
    ELSE [counter EXCEPT !.n = @ + 1]

\* EXPIRE with 0 seconds deletes the key.
EXPIRE(counter, secs) ==
    IF secs <= 0 THEN Absent ELSE [counter EXCEPT !.ttl = secs * Second]

Counted(counter) ==
    LET c == INCR(counter)
    IN  IF c.n = 1 THEN EXPIRE(c, seconds(Window)) ELSE c

Reply(blocked, count, retryAfter) ==
    [blocked |-> blocked, count |-> count, retryAfter |-> retryAfter]

\* Mutant: a refused request starts the block again.
AlreadyBlockedRefresh(counter, block) ==
    [counter |-> counter, block |-> BlockTicks, reply |-> Reply(TRUE, -1, TTL(block))]

AlreadyBlocked(counter, block) ==
    [counter |-> counter, block |-> block, reply |-> Reply(TRUE, -1, TTL(block))]

\* Mutant: the counter survives the block.
StartBlockKeepCounter(counter) ==
    [counter |-> counter, block |-> BlockTicks, reply |-> Reply(TRUE, counter.n, seconds(Block))]
\* Mutant: the block lasts as long as the counting window does.
StartBlockForWindow(counter) ==
    [counter |-> Absent, block |-> counter.ttl, reply |-> Reply(TRUE, counter.n, seconds(Block))]

StartBlock(counter) ==
    [counter |-> Absent, block |-> BlockTicks, reply |-> Reply(TRUE, counter.n, seconds(Block))]

\* Mutant: one request too many.
OverLimitLate(counter) == counter.n > Limit + 1

OverLimit(counter) == counter.n > Limit

Allow(counter, block) ==
    [counter |-> counter, block |-> block, reply |-> Reply(FALSE, counter.n, 0)]

Decide(counter, block) ==
    LET counted == Counted(counter)
    IN  IF TTL(block) > 0 THEN AlreadyBlocked(counter, block)
        ELSE IF OverLimit(counted) THEN StartBlock(counted)
        ELSE Allow(counted, block)

\* A tick takes one off a time to live; a key whose time is up is gone.
Elapse(left) == IF left > 0 THEN left - 1 ELSE left

CounterElapse(counter) ==
    IF counter.ttl = 1 THEN Absent ELSE [counter EXCEPT !.ttl = Elapse(@)]
=============================================================================
