---------------------------- MODULE FixedWindow ----------------------------
(***************************************************************************)
(* The fixed-window limiter as Redis executes it: any number of clients    *)
(* run the decide script against one bucket, time passes, and an operator  *)
(* may delete the block key (docs/operations.md).  Buckets have keys of    *)
(* their own, so one bucket is the general case.                           *)
(***************************************************************************)
EXTENDS DecideScript

VARIABLES
    counter,     \* the counter key: [n, ttl]
    block,       \* the block key: ticks left, 0 when absent
    sinceBlock,  \* history: ticks since a block was started, up to Horizon
    allowed      \* history: ages of the last requests allowed, newest first,
                 \* up to Horizon, which also stands for "never"

vars == <<counter, block, sinceBlock, allowed>>

Larger(a, b)  == IF a >= b THEN a ELSE b
Smaller(a, b) == IF a <= b THEN a ELSE b

Horizon == Larger(WindowTicks, BlockTicks)

\* One more than any span may hold.
Recent == 1..(2 * Limit + 1)

Init ==
    /\ counter = Absent
    /\ block = 0
    /\ sinceBlock = Horizon
    /\ allowed = [i \in Recent |-> Horizon]

AllowedNow == [i \in Recent |-> IF i = 1 THEN 0 ELSE allowed[i - 1]]

Consume ==
    LET d == Decide(counter, block)
    IN  /\ counter' = d.counter
        /\ block' = d.block
        /\ sinceBlock' = IF d.reply.blocked /\ d.reply.count > 0 THEN 0 ELSE sinceBlock
        /\ allowed' = IF d.reply.blocked THEN allowed ELSE AllowedNow

\* DEL of the block key by an operator, which also forgives what was allowed
\* before the present counter.
Unblock ==
    /\ block # 0
    /\ block' = 0
    /\ sinceBlock' = Horizon
    /\ allowed' = [i \in Recent |-> IF i <= counter.n THEN allowed[i] ELSE Horizon]
    /\ UNCHANGED counter

Tick ==
    /\ counter' = CounterElapse(counter)
    /\ block' = Elapse(block)
    /\ sinceBlock' = Smaller(sinceBlock + 1, Horizon)
    /\ allowed' = [i \in Recent |-> Smaller(allowed[i] + 1, Horizon)]

Next == Consume \/ Unblock \/ Tick

Spec == Init /\ [][Next]_vars

----------------------------------------------------------------------------
ReplyNow == Decide(counter, block).reply

\* The counter key never stays without a time to live, whatever the rounding
\* of the durations, so an idle bucket leaves nothing behind in Redis.
CounterExpires ==
    counter # Absent => counter.ttl > 0

\* Hammering does not extend a block: a request is turned away by an earlier
\* block only while less than `block` has passed since that block began,
\* however many requests came in between.
BlockNotExtended ==
    ReplyNow.count = -1 => sinceBlock < BlockTicks

\* A started block holds: nothing is allowed until `block` has passed, less
\* the half second by which TTL may round the rest down to 0.
BlockHolds ==
    ~ReplyNow.blocked => 2 * (BlockTicks - sinceBlock) < Second

\* What docs/architecture.md says of it: "`block` means exactly `block`".
BlockIsExact ==
    ~ReplyNow.blocked => sinceBlock >= BlockTicks

\* A new block is earned: it starts only when Limit requests were allowed
\* within the last window and after the previous block began.  A counter that
\* outlives the block would block the first caller after it.
BlockIsEarned ==
    ReplyNow.blocked /\ ReplyNow.count > 0
       => allowed[Limit] < WindowTicks /\ allowed[Limit] < sinceBlock

\* Straddling a window boundary gains at most a second limit: in any span
\* shorter than both the window and the block, at most 2 * Limit requests are
\* allowed, with the operator not intervening.
TwoLimitsPerSpan ==
    allowed[2 * Limit + 1] >= Smaller(WindowTicks, BlockTicks - Second \div 2)
=============================================================================
