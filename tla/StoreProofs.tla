---------------------------- MODULE StoreProofs -----------------------------
(***************************************************************************)
(* The stores for all values of their constants: the decide script in      *)
(* Redis, on one bucket, the circuit breaker in front of it, and the block *)
(* cache in front of both.                                                 *)
(***************************************************************************)
EXTENDS FixedWindow, Breaker, BlockCache, FiniteSetTheorems, TLAPS

----------------------------------------------------------------------------
(***************************************************************************)
(* Facts about the decide script and its durations, for every limit,       *)
(* window, block and tick, that the proofs about one bucket (FixedWindow)  *)
(* and about the cache in front of it (BlockCache) rest on.                *)
(***************************************************************************)
\* What \div computes.
LEMMA Division ==
  \A a \in Nat, b \in Nat \ {0} :
    /\ a \div b \in Nat
    /\ a \div b > 0 <=> a >= b
  OBVIOUS

\* Products of positive numbers are positive.
LEMMA Product ==
  \A a, b \in Nat \ {0} : a * b \in Nat \ {0}
  OBVIOUS

\* Every duration is at least one second of at least one tick.
LEMMA Durations ==
  /\ \A d \in Nat \ {0} : seconds(d) \in Nat \ {0}
  /\ WindowTicks \in Nat \ {0}
  /\ BlockTicks \in Nat \ {0}
<1>1. \A d \in Nat \ {0} : seconds(d) \in Nat \ {0}
  <2> SUFFICES ASSUME NEW d \in Nat \ {0}
               PROVE  seconds(d) \in Nat \ {0}
    OBVIOUS
  <2>1. d + Second - 1 \in Nat /\ d + Second - 1 >= Second /\ ~(d <= 0)
    BY RuleValid
  <2> QED
    BY <2>1, Division, RuleValid DEF seconds
<1> QED
  BY <1>1, Product, RuleValid DEF WindowTicks, BlockTicks

\* TTL takes the rest of a key for nothing in its last half second only.
LEMMA Rounding ==
  ASSUME NEW left \in Nat
  PROVE  TTL(left) \in Nat /\ (TTL(left) > 0 <=> 2 * left >= Second)
<1>1. 2 * left + Second \in Nat /\ 2 * Second \in Nat \ {0}
  BY RuleValid
<1>2. 2 * left + Second >= 2 * Second <=> 2 * left >= Second
  BY RuleValid
<1> QED
  BY <1>1, <1>2, Division DEF TTL

Counters == [n : 0..Limit, ttl : 0..WindowTicks]

Alive(c) == c.n > 0 /\ c.ttl > 0

\* Counting a request: the first of a window sets the time to live, the others
\* leave it.
LEMMA Counting ==
  ASSUME NEW c \in Counters, c # Absent => Alive(c)
  PROVE  /\ Counted(c) \in [n : 1..(Limit + 1), ttl : 1..WindowTicks]
         /\ Counted(c).n = c.n + 1
         /\ Counted(c).ttl = IF c = Absent THEN WindowTicks ELSE c.ttl
<1>1. CASE c = Absent
  <2> DEFINE i == [n |-> 1, ttl |-> NoExpiry]
  <2>1. INCR(c) = i
    BY <1>1 DEF INCR
  <2>2. EXPIRE(i, seconds(Window)) = [n |-> 1, ttl |-> WindowTicks]
    BY Durations, RuleValid DEF EXPIRE, WindowTicks
  <2>3. Counted(c) = [n |-> 1, ttl |-> WindowTicks]
    BY <2>1, <2>2 DEF Counted
  <2> QED
    BY <1>1, <2>3, Durations, RuleValid DEF Absent
<1>2. CASE c # Absent
  <2>1. INCR(c) = [c EXCEPT !.n = @ + 1]
    BY <1>2 DEF INCR
  <2>2. INCR(c) \in [n : 2..(Limit + 1), ttl : 1..WindowTicks]
        /\ INCR(c).n = c.n + 1 /\ INCR(c).ttl = c.ttl
    BY <2>1, <1>2, Durations, RuleValid DEF Counters, Alive
  <2>3. Counted(c) = INCR(c)
    BY <2>2 DEF Counted
  <2> QED
    BY <1>2, <2>2, <2>3, RuleValid
<1> QED
  BY <1>1, <1>2

\* The three outcomes of the script.
LEMMA Outcomes ==
  ASSUME NEW c, NEW b
  PROVE  /\ TTL(b) > 0 => Decide(c, b) = AlreadyBlocked(c, b)
         /\ ~(TTL(b) > 0) /\ OverLimit(Counted(c)) => Decide(c, b) = StartBlock(Counted(c))
         /\ ~(TTL(b) > 0) /\ ~OverLimit(Counted(c)) => Decide(c, b) = Allow(Counted(c), b)
  BY DEF Decide

\* Unless a block is in force, the reply carries the count of this window.
LEMMA CountReplied ==
  ASSUME NEW c, NEW b, ~(TTL(b) > 0)
  PROVE  Decide(c, b).reply.count = Counted(c).n
  BY Outcomes DEF StartBlock, Allow, Reply

\* A tick on the counter: its last one removes the key.
LEMMA CounterElapsing ==
  ASSUME NEW c \in Counters, c # Absent => Alive(c)
  PROVE  CounterElapse(c) \in Counters /\ (CounterElapse(c) # Absent => Alive(CounterElapse(c)))
<1>0. Absent \in Counters
  BY Durations, RuleValid DEF Absent, Counters
<1>1. CASE c.ttl = 1
  BY <1>0, <1>1 DEF CounterElapse
<1>2. CASE c = Absent
  <2>1. CounterElapse(c) = Absent
    BY <1>2 DEF CounterElapse, Elapse, Absent
  <2> QED
    BY <2>1, <1>0
<1>3. CASE c # Absent /\ c.ttl # 1
  <2>1. c.ttl \in 2..WindowTicks /\ c.n \in 1..Limit
    BY <1>3, Durations, RuleValid DEF Counters, Alive
  <2>2. CounterElapse(c) = [c EXCEPT !.ttl = c.ttl - 1]
    BY <1>3, <2>1 DEF CounterElapse, Elapse
  <2> QED
    BY <2>1, <2>2, Durations, RuleValid DEF Counters, Alive
<1> QED
  BY <1>1, <1>2, <1>3

\* The wait in a reply overstates what is left of the block by half a second at
\* most, and never exceeds the block.
LEMMA Advice ==
  ASSUME NEW left \in 0..BlockTicks
  PROVE  /\ TTL(left) * Second \in Nat
         /\ TTL(left) * Second <= left + Second \div 2
         /\ TTL(left) * Second <= BlockTicks
<1> DEFINE t == TTL(left)
           s == seconds(Block)
<1>1. left \in Nat /\ t \in Nat /\ s \in Nat
  BY Durations, Rounding, RuleValid
<1>2. t * (2 * Second) <= 2 * left + Second
  <2>1. \A a \in Nat, b \in Nat \ {0} : (a \div b) * b <= a
    OBVIOUS
  <2>2. 2 * left + Second \in Nat /\ 2 * Second \in Nat \ {0}
    BY <1>1, RuleValid
  <2> QED
    BY <2>1, <2>2 DEF TTL
<1>3. t * Second \in Nat /\ t * (2 * Second) = 2 * (t * Second)
  BY <1>1, RuleValid
<1>4. t * Second <= left + Second \div 2
  <2>1. \A x \in Nat, y \in Nat, z \in Nat : 2 * x <= 2 * y + z => x <= y + z \div 2
    OBVIOUS
  <2> QED
    BY <1>1, <1>2, <1>3, <2>1, RuleValid
<1>5. t * Second <= BlockTicks
  <2>1. BlockTicks = s * Second
    BY DEF BlockTicks
  <2>2. CASE t <= s
    <3>1. \A x, y, r \in Nat : x <= y => x * r <= y * r
      OBVIOUS
    <3> QED
      BY <1>1, <2>1, <2>2, <3>1, RuleValid
  <2>3. CASE t >= s + 1
    <3>1. \A x, y, r \in Nat : x >= y + 1 => x * r >= y * r + r
      <4>1. \A x, y, r \in Nat : x <= y => x * r <= y * r
        OBVIOUS
      <4>2. \A y, r \in Nat : (y + 1) * r = y * r + r
        OBVIOUS
      <4> QED
        BY <4>1, <4>2
    <3>2. t * Second >= BlockTicks + Second
      BY <1>1, <2>1, <2>3, <3>1, RuleValid
    <3>3. 2 * (t * Second) <= 2 * left + Second
      BY <1>2, <1>3
    <3> QED
      BY <1>1, <1>3, <3>2, <3>3, Durations, RuleValid
  <2> QED
    BY <1>1, <2>2, <2>3
<1> QED
  BY <1>3, <1>4, <1>5

----------------------------------------------------------------------------
(***************************************************************************)
(* The block cache for any number of buckets and callers and every bound:  *)
(* it never outgrows MaxEntries, never outlives the truth by more than     *)
(* rounding and flight, lets an operator's unblock take hold, and sweeps   *)
(* no live entry.                                                          *)
(*                                                                         *)
(* Entries, copies of entries in the hands of a caller, and replies on     *)
(* their way from Redis each carry a bound that relates them to the block  *)
(* key (no operator intervened) or to the time since it was deleted.       *)
(***************************************************************************)
Half == Second \div 2

\* An entry, or a copy of one, for a bucket with this block and sinceUnblock.
Sound(e, b, s) ==
  /\ e \in Int /\ e >= NoEntry /\ e <= BlockTicks /\ e <= Trusted
  /\ e > 0 => IF s = Long THEN e <= b + Half + MaxFlight ELSE s + e <= Trusted + MaxFlight

\* A reply on its way that blocks for x ticks; f ticks ago Redis gave it.
OnItsWay(x, f, b, s) ==
  /\ x \in Nat /\ x <= BlockTicks
  /\ x > 0 => IF s = Long THEN x <= b + Half + f ELSE s <= f

Aged(s) == IF s < Long THEN s + 1 ELSE Long

\* The bounds the constants satisfy.
LEMMA CacheBounds ==
  /\ Trusted \in Nat \ {0} /\ Long \in Nat \ {0} /\ Half \in Nat
  /\ Long = Trusted + MaxFlight + 1
<1>1. Second \div 2 \in Nat
  BY RuleValid, Division
<1> QED
  BY <1>1, Durations, CacheAssumption DEF Trusted, Long, Half

\* A tick preserves the bounds.
LEMMA TickKeeps ==
  ASSUME NEW b \in 0..BlockTicks, NEW s \in 0..Long, s < Long => b = 0
  PROVE  /\ Elapse(b) \in 0..BlockTicks
         /\ Aged(s) \in 0..Long
         /\ Aged(s) < Long => Elapse(b) = 0
         /\ \A e : Sound(e, b, s) => Sound(Elapse(e), Elapse(b), Aged(s))
         /\ \A x, f : f \in Nat /\ f < MaxFlight /\ OnItsWay(x, f, b, s)
                         => OnItsWay(x, f + 1, Elapse(b), Aged(s))
<1> USE CacheBounds, Durations, CacheAssumption
<1>1. Elapse(b) \in 0..BlockTicks /\ Aged(s) \in 0..Long /\ (Aged(s) < Long => Elapse(b) = 0)
  BY DEF Elapse, Aged
<1>2. ASSUME NEW e, Sound(e, b, s)
      PROVE  Sound(Elapse(e), Elapse(b), Aged(s))
  BY <1>2 DEF Sound, Elapse, Aged, NoEntry
<1>3. ASSUME NEW x, NEW f \in Nat, f < MaxFlight, OnItsWay(x, f, b, s)
      PROVE  OnItsWay(x, f + 1, Elapse(b), Aged(s))
  BY <1>3 DEF OnItsWay, Elapse, Aged
<1> QED
  BY <1>1, <1>2, <1>3

\* So does the operator's DEL.
LEMMA UnblockKeeps ==
  ASSUME NEW b, NEW s
  PROVE  /\ \A e : Sound(e, b, s) => Sound(e, 0, 0)
         /\ \A x, f : f \in Nat /\ OnItsWay(x, f, b, s) => OnItsWay(x, f, 0, 0)
  BY CacheBounds, CacheAssumption DEF Sound, OnItsWay

\* A reply becomes an entry.
LEMMA ReplyBecomesEntry ==
  ASSUME NEW b \in 0..BlockTicks, NEW s \in 0..Long,
         NEW x \in Nat, NEW f \in 0..MaxFlight, OnItsWay(x, f, b, s), x > 0
  PROVE  Sound(Capped(x), b, s) /\ Capped(x) > 0
  BY CacheBounds, Durations, CacheAssumption DEF Sound, OnItsWay, Capped, Trusted, NoEntry

\* The script preserves the bounds, and its reply satisfies them.
LEMMA ScriptKeeps ==
  ASSUME NEW c \in Counters, c # Absent => Alive(c),
         NEW b \in 0..BlockTicks, NEW s \in 0..Long, s < Long => b = 0
  PROVE  LET r  == Decide(c, b)
             s2 == IF r.reply.blocked THEN Long ELSE s
         IN  /\ r.counter \in Counters /\ (r.counter # Absent => Alive(r.counter))
             /\ r.block \in 0..BlockTicks
             /\ s2 \in 0..Long /\ (s2 < Long => r.block = 0)
             /\ \A e : Sound(e, b, s) => Sound(e, r.block, s2)
             /\ \A x, f : f \in Nat /\ OnItsWay(x, f, b, s) => OnItsWay(x, f, r.block, s2)
             /\ r.reply.retryAfter \in Nat
             /\ OnItsWay(r.reply.retryAfter * Second, 0, r.block, s2)
<1> DEFINE r  == Decide(c, b)
           s2 == IF r.reply.blocked THEN Long ELSE s
           m  == Counted(c)
<1> USE CacheBounds, Durations, CacheAssumption, RuleValid
<1>1. m \in [n : 1..(Limit + 1), ttl : 1..WindowTicks]
  BY Counting
<1>2. TTL(b) \in Nat /\ (TTL(b) > 0 <=> 2 * b >= Second)
  BY Rounding
<1>3. CASE TTL(b) > 0
  <2>1. r = AlreadyBlocked(c, b)
    BY <1>3, Outcomes
  <2>2. r.counter = c /\ r.block = b /\ r.reply.blocked = TRUE /\ r.reply.retryAfter = TTL(b)
    BY <2>1 DEF AlreadyBlocked, Reply
  <2>3. s = Long
    BY <1>2, <1>3
  <2>4. s2 = s
    BY <2>2, <2>3
  <2>5. OnItsWay(TTL(b) * Second, 0, b, s)
    BY Advice, <2>3 DEF OnItsWay, Half
  <2> QED
    BY Zenon, <1>2, <2>2, <2>4, <2>5
<1>4. CASE ~(TTL(b) > 0) /\ OverLimit(m)
  <2>1. r = StartBlock(m)
    BY <1>4, Outcomes
  <2>2. /\ r.counter = Absent /\ r.block = BlockTicks /\ r.reply.blocked = TRUE
        /\ r.reply.retryAfter = seconds(Block)
    BY <2>1 DEF StartBlock, Reply
  <2>3. s2 = Long
    BY Zenon, <2>2
  <2>4. Absent \in Counters
    BY DEF Absent, Counters
  <2>5. \A e : Sound(e, b, s) => Sound(e, BlockTicks, Long)
    BY DEF Sound
  <2>6. \A x, f : f \in Nat /\ OnItsWay(x, f, b, s) => OnItsWay(x, f, BlockTicks, Long)
    BY DEF OnItsWay
  <2>7. OnItsWay(seconds(Block) * Second, 0, BlockTicks, Long)
    BY DEF OnItsWay, BlockTicks
  <2>8. BlockTicks \in 0..BlockTicks /\ Long \in 0..Long /\ ~(Long < Long) /\ seconds(Block) \in Nat
    OBVIOUS
  <2> QED
    BY Zenon, <2>2, <2>3, <2>4, <2>5, <2>6, <2>7, <2>8
<1>5. CASE ~(TTL(b) > 0) /\ ~OverLimit(m)
  <2>1. r = Allow(m, b)
    BY <1>5, Outcomes
  <2>2. r.counter = m /\ r.block = b /\ r.reply.blocked = FALSE /\ r.reply.retryAfter = 0
    BY <2>1 DEF Allow, Reply
  <2>3. s2 = s
    BY <2>2
  <2>4. m \in Counters /\ Alive(m)
    BY <1>1, <1>5 DEF Counters, Alive, OverLimit
  <2>5. OnItsWay(0 * Second, 0, b, s)
    BY DEF OnItsWay
  <2>6. 0 \in Nat
    OBVIOUS
  <2> QED
    BY Zenon, <2>2, <2>3, <2>4, <2>5, <2>6
<1> QED
  BY Zenon, <1>3, <1>4, <1>5

----------------------------------------------------------------------------
Maps ==
  /\ counters \in [Key -> Counters]
  /\ blocks \in [Key -> 0..BlockTicks]
  /\ entries \in [Key -> Int]
  /\ sinceUnblock \in [Key -> 0..Long]
  /\ at \in [Request -> {"idle", "lookup", "hit", "inner", "replied"}]
  /\ key \in [Request -> Key \union {NoKey}]
  /\ until \in [Request -> Int]
  /\ flight \in [Request -> 0..MaxFlight]

BucketOK(k) ==
  /\ counters[k] # Absent => Alive(counters[k])
  /\ sinceUnblock[k] < Long => blocks[k] = 0
  /\ Sound(entries[k], blocks[k], sinceUnblock[k])

CallerOK(c) ==
  /\ at[c] # "idle" => key[c] \in Key
  /\ at[c] \in {"idle", "inner"} => until[c] = 0
  /\ at[c] # "replied" => flight[c] = 0
  /\ at[c] \in {"lookup", "hit"} => Sound(until[c], blocks[key[c]], sinceUnblock[key[c]])
  /\ at[c] = "replied" =>
        /\ until[c] \in Nat
        /\ OnItsWay(until[c] * Second, flight[c], blocks[key[c]], sinceUnblock[key[c]])

Core ==
  /\ Maps
  /\ \A k \in Key : BucketOK(k)
  /\ \A c \in Request : CallerOK(c)

\* The entries the sweeper is about to delete have expired.
DoomedOK ==
  /\ sweeping \in BOOLEAN /\ doomed \subseteq Key
  /\ \A k \in doomed : entries[k] = 0

Room == IsFiniteSet(Cached) /\ CacheBounded

\* A caller that does not move keeps its invariant while its bucket does.
LEMMA CallerFrame ==
  ASSUME NEW c \in Request, CallerOK(c),
         at'[c] = at[c], key'[c] = key[c], until'[c] = until[c], flight'[c] = flight[c],
         blocks'[key[c]] = blocks[key[c]], sinceUnblock'[key[c]] = sinceUnblock[key[c]]
  PROVE  CallerOK(c)'
  BY Zenon DEF CallerOK, Sound, OnItsWay

\* So does a bucket that is left alone.
LEMMA BucketFrame ==
  ASSUME NEW k \in Key, BucketOK(k), counters'[k] = counters[k], blocks'[k] = blocks[k],
         entries'[k] = entries[k], sinceUnblock'[k] = sinceUnblock[k]
  PROVE  BucketOK(k)'
  BY Zenon DEF BucketOK, Sound

\* Steps of one caller that leave the buckets alone: lookup and the end of a call.
LEMMA LocalStep ==
  ASSUME Core, NEW c \in Request,
         \/ \E k \in Key : Lookup(c, k)
         \/ Hit(c) \/ Miss(c) \/ ServeHit(c) \/ Fail(c) \/ Allowed(c)
  PROVE  Core'
<1> USE CacheBounds, CacheAssumption
<1> USE DEF redis, local
<1>0. UNCHANGED <<redis, entries, sinceUnblock>>
  BY Zenon DEF Lookup, Hit, Miss, ServeHit, Fail, Allowed
<1>1. Maps'
  <2>1. Maps
    BY DEF Core
  <2>2. /\ counters' \in [Key -> Counters] /\ blocks' \in [Key -> 0..BlockTicks]
        /\ entries' \in [Key -> Int] /\ sinceUnblock' \in [Key -> 0..Long]
    BY Zenon, <1>0, <2>1 DEF Maps
  <2>3. /\ at' \in [Request -> {"idle", "lookup", "hit", "inner", "replied"}]
        /\ key' \in [Request -> Key \union {NoKey}]
        /\ until' \in [Request -> Int] /\ flight' \in [Request -> 0..MaxFlight]
    <3>1. CASE \E k \in Key : Lookup(c, k)
      BY <2>1, <3>1 DEF Maps, Lookup, Goto
    <3>2. CASE Hit(c)
      BY <2>1, <3>2 DEF Maps, Hit, Goto
    <3>3. CASE Miss(c)
      BY <2>1, <3>3 DEF Maps, Miss, Goto
    <3>4. CASE ServeHit(c) \/ Fail(c) \/ Allowed(c)
      BY <2>1, <3>4 DEF Maps, ServeHit, Fail, Allowed, Finish, Goto
    <3> QED
      BY <3>1, <3>2, <3>3, <3>4
  <2> QED
    BY Zenon, <2>2, <2>3 DEF Maps
<1>2. \A k \in Key : BucketOK(k)'
  BY Zenon, <1>0, BucketFrame DEF Core
<1>3. ASSUME NEW e \in Request, e # c
      PROVE  CallerOK(e)'
  BY Zenon, <1>0, <1>3, CallerFrame DEF Core, Maps, Lookup, Hit, Miss, ServeHit, Fail, Allowed, Finish, Goto
<1>4. CallerOK(c)'
  <2>1. CASE \E k \in Key : Lookup(c, k)
    BY <1>0, <2>1 DEF Core, Maps, Lookup, Goto, CallerOK, BucketOK
  <2>2. CASE Hit(c)
    BY <1>0, <2>2 DEF Core, Maps, Hit, Goto, CallerOK
  <2>3. CASE Miss(c)
    BY <1>0, <2>3 DEF Core, Maps, Miss, Goto, CallerOK
  <2>4. CASE ServeHit(c) \/ Fail(c) \/ Allowed(c)
    <3>1. at'[c] = "idle" /\ until'[c] = 0 /\ flight'[c] = 0
      BY <2>4 DEF Core, Maps, ServeHit, Fail, Allowed, Finish, Goto
    <3> QED
      BY Zenon, <3>1 DEF CallerOK
  <2> QED
    BY <2>1, <2>2, <2>3, <2>4
<1> QED
  BY <1>1, <1>2, <1>3, <1>4 DEF Core

\* The script on one bucket, whoever runs it: the buckets, and the callers that
\* do not move.
LEMMA ScriptStep ==
  ASSUME Core, NEW k \in Key, RunScript(k), UNCHANGED entries
  PROVE  /\ counters' \in [Key -> Counters]
         /\ blocks' \in [Key -> 0..BlockTicks]
         /\ sinceUnblock' \in [Key -> 0..Long]
         /\ \A j \in Key : BucketOK(j)'
         /\ \A c \in Request :
               /\ at'[c] = at[c] /\ key'[c] = key[c]
               /\ until'[c] = until[c] /\ flight'[c] = flight[c]
               => CallerOK(c)'
         /\ LET r == Decide(counters[k], blocks[k]).reply.retryAfter
            IN  r \in Nat /\ OnItsWay(r * Second, 0, blocks'[k], sinceUnblock'[k])
<1> USE CacheBounds, CacheAssumption
<1> DEFINE r  == Decide(counters[k], blocks[k])
           s2 == IF r.reply.blocked THEN Long ELSE sinceUnblock[k]
<1>1. /\ counters' = [counters EXCEPT ![k] = r.counter]
      /\ blocks' = [blocks EXCEPT ![k] = r.block]
      /\ sinceUnblock' = [sinceUnblock EXCEPT ![k] = s2]
  BY DEF RunScript, Core, Maps
<1>2. /\ r.counter \in Counters /\ (r.counter # Absent => Alive(r.counter))
      /\ r.block \in 0..BlockTicks
      /\ s2 \in 0..Long /\ (s2 < Long => r.block = 0)
      /\ \A e : Sound(e, blocks[k], sinceUnblock[k]) => Sound(e, r.block, s2)
      /\ \A x, f : f \in Nat /\ OnItsWay(x, f, blocks[k], sinceUnblock[k])
                      => OnItsWay(x, f, r.block, s2)
      /\ r.reply.retryAfter \in Nat
      /\ OnItsWay(r.reply.retryAfter * Second, 0, r.block, s2)
  BY Zenon, ScriptKeeps DEF Core, Maps, BucketOK
<1> HIDE DEF r, s2
<1>3. counters'[k] = r.counter /\ blocks'[k] = r.block /\ sinceUnblock'[k] = s2
  BY <1>1 DEF Core, Maps
<1>4. ASSUME NEW j \in Key, j # k
      PROVE  counters'[j] = counters[j] /\ blocks'[j] = blocks[j] /\ sinceUnblock'[j] = sinceUnblock[j]
  BY <1>1, <1>4 DEF Core, Maps
<1>5. /\ counters' \in [Key -> Counters]
      /\ blocks' \in [Key -> 0..BlockTicks]
      /\ sinceUnblock' \in [Key -> 0..Long]
  BY Zenon, <1>1, <1>2 DEF Core, Maps
<1>6. ASSUME NEW j \in Key
      PROVE  BucketOK(j)'
  <2>1. CASE j = k
    BY Zenon, <1>2, <1>3, <2>1 DEF Core, BucketOK
  <2>2. CASE j # k
    BY Zenon, <1>4, <2>2, BucketFrame DEF Core
  <2> QED
    BY <2>1, <2>2
<1>7. ASSUME NEW c \in Request, at'[c] = at[c], key'[c] = key[c],
             until'[c] = until[c], flight'[c] = flight[c]
      PROVE  CallerOK(c)'
  <2>1. CASE at[c] = "idle"
    BY Zenon, <1>7, <2>1 DEF Core, CallerOK
  <2>2. CASE at[c] # "idle" /\ key[c] # k
    BY Zenon, <1>4, <1>7, <2>2, CallerFrame DEF Core, CallerOK
  <2>3. CASE at[c] # "idle" /\ key[c] = k
    <3>1. CallerOK(c) /\ flight[c] \in Nat
      BY DEF Core, Maps
    <3>2. /\ \A e : Sound(e, blocks[k], sinceUnblock[k]) => Sound(e, r.block, s2)
          /\ \A x, f : f \in Nat /\ OnItsWay(x, f, blocks[k], sinceUnblock[k])
                          => OnItsWay(x, f, r.block, s2)
      BY Zenon, <1>2
    <3> QED
      BY Zenon, <1>3, <1>7, <2>3, <3>1, <3>2 DEF CallerOK
  <2> QED
    BY Zenon, <2>1, <2>2, <2>3
<1> QED
  BY Zenon, <1>2, <1>3, <1>5, <1>6, <1>7 DEF r

\* A caller's script, with its reply.
LEMMA ExecuteStep ==
  ASSUME Core, NEW c \in Request, Execute(c)
  PROVE  Core'
<1> USE CacheBounds, CacheAssumption
<1> DEFINE k == key[c]
           r == Decide(counters[k], blocks[k]).reply.retryAfter
<1>1. k \in Key /\ flight[c] = 0
  BY Zenon DEF Core, CallerOK, Execute
<1>2. /\ RunScript(k) /\ UNCHANGED <<entries, key, flight>>
      /\ at' = [at EXCEPT ![c] = "replied"] /\ until' = [until EXCEPT ![c] = r]
  BY Zenon DEF Execute, Goto
<1> HIDE DEF r
<1>3. /\ counters' \in [Key -> Counters]
      /\ blocks' \in [Key -> 0..BlockTicks]
      /\ sinceUnblock' \in [Key -> 0..Long]
      /\ \A j \in Key : BucketOK(j)'
      /\ \A e \in Request :
               /\ at'[e] = at[e] /\ key'[e] = key[e]
               /\ until'[e] = until[e] /\ flight'[e] = flight[e]
               => CallerOK(e)'
      /\ r \in Nat /\ OnItsWay(r * Second, 0, blocks'[k], sinceUnblock'[k])
  BY Zenon, <1>1, <1>2, ScriptStep DEF r
<1>4. Maps'
  BY SMTT(30), <1>2, <1>3 DEF Core, Maps
<1>5. CallerOK(c)'
  BY Zenon, <1>1, <1>2, <1>3 DEF Core, Maps, CallerOK
<1>6. ASSUME NEW e \in Request, e # c
      PROVE  CallerOK(e)'
  BY <1>2, <1>3, <1>6 DEF Core, Maps
<1> QED
  BY Zenon, <1>3, <1>4, <1>5, <1>6 DEF Core

\* Somebody else's.
LEMMA ElsewhereStep ==
  ASSUME Core, NEW k \in Key, Elsewhere(k)
  PROVE  Core'
<1>1. RunScript(k) /\ UNCHANGED <<entries, at, key, until, flight>>
  BY DEF Elsewhere, local
<1>2. /\ counters' \in [Key -> Counters]
      /\ blocks' \in [Key -> 0..BlockTicks]
      /\ sinceUnblock' \in [Key -> 0..Long]
      /\ \A j \in Key : BucketOK(j)'
      /\ \A c \in Request : CallerOK(c)'
  BY Zenon, <1>1, ScriptStep
<1> QED
  BY <1>1, <1>2 DEF Core, Maps

\* remember: the reply becomes an entry, or finds no room.
LEMMA RememberStep ==
  ASSUME Core, NEW c \in Request, Remember(c)
  PROVE  Core'
<1> USE CacheBounds, CacheAssumption
<1> DEFINE k == key[c]
           x == until[c] * Second
<1>1. /\ k \in Key /\ UNCHANGED <<counters, blocks, sinceUnblock>>
      /\ until[c] \in Nat \ {0} /\ OnItsWay(x, flight[c], blocks[k], sinceUnblock[k])
  <2>1. CallerOK(c)
    BY DEF Core
  <2>2. at[c] = "replied" /\ until[c] > 0 /\ UNCHANGED <<counters, blocks, sinceUnblock>>
    BY DEF Remember, redis
  <2>3. k \in Key /\ until[c] \in Nat /\ OnItsWay(x, flight[c], blocks[k], sinceUnblock[k])
    BY Zenon, <2>1, <2>2 DEF CallerOK
  <2>4. until[c] \in Nat \ {0}
    BY <2>2, <2>3
  <2> QED
    BY Zenon, <2>2, <2>3, <2>4
<1>2. x \in Nat \ {0}
  BY Zenon, <1>1, Product, RuleValid
<1>3. entries' = entries \/ entries' = [entries EXCEPT ![k] = Capped(x)]
  BY Zenon DEF Remember, NewEntry
<1>4. /\ at' = [at EXCEPT ![c] = "idle"] /\ key' = [key EXCEPT ![c] = NoKey]
      /\ until' = [until EXCEPT ![c] = 0] /\ flight' = [flight EXCEPT ![c] = 0]
  BY DEF Remember, Finish, Goto
<1>5. Sound(Capped(x), blocks[k], sinceUnblock[k])
  BY SMTT(30), <1>1, <1>2, ReplyBecomesEntry DEF Core, Maps
<1> HIDE DEF x
<1>6. Maps'
  <2>1. Capped(x) \in Int
    BY <1>5 DEF Sound
  <2> QED
    BY <1>1, <1>3, <1>4, <2>1 DEF Core, Maps
<1>7. ASSUME NEW j \in Key
      PROVE  BucketOK(j)'
  <2>1. entries'[j] = entries[j] \/ (j = k /\ entries'[j] = Capped(x))
    BY <1>1, <1>3 DEF Core, Maps
  <2> QED
    BY Zenon, <1>1, <1>5, <2>1 DEF Core, BucketOK
<1>8. ASSUME NEW e \in Request
      PROVE  CallerOK(e)'
  <2>1. CASE e = c
    BY Zenon, <1>4, <2>1 DEF Core, Maps, CallerOK
  <2>2. CASE e # c
    BY <1>1, <1>4, <2>2, CallerFrame DEF Core, Maps
  <2> QED
    BY <2>1, <2>2
<1> QED
  BY <1>6, <1>7, <1>8 DEF Core

\* The operator deletes a block key.
LEMMA UnblockStep ==
  ASSUME Core, NEW k \in Key, UnblockKey(k)
  PROVE  Core'
<1> USE CacheBounds, CacheAssumption, Durations
<1>1. /\ blocks' = [blocks EXCEPT ![k] = 0] /\ sinceUnblock' = [sinceUnblock EXCEPT ![k] = 0]
      /\ UNCHANGED <<counters, entries, at, key, until, flight>>
  BY DEF UnblockKey, local
<1>2. /\ \A e : Sound(e, blocks[k], sinceUnblock[k]) => Sound(e, 0, 0)
      /\ \A x, f : f \in Nat /\ OnItsWay(x, f, blocks[k], sinceUnblock[k]) => OnItsWay(x, f, 0, 0)
  BY Zenon, UnblockKeeps
<1>3. Maps'
  BY <1>1 DEF Core, Maps
<1>4. blocks'[k] = 0 /\ sinceUnblock'[k] = 0
      /\ \A j \in Key \ {k} : blocks'[j] = blocks[j] /\ sinceUnblock'[j] = sinceUnblock[j]
  BY <1>1 DEF Core, Maps
<1>5. ASSUME NEW j \in Key
      PROVE  BucketOK(j)'
  <2>1. CASE j = k
    BY Zenon, <1>1, <1>2, <1>4, <2>1 DEF Core, BucketOK
  <2>2. CASE j # k
    BY Zenon, <1>1, <1>4, <2>2, BucketFrame DEF Core
  <2> QED
    BY <2>1, <2>2
<1>6. ASSUME NEW c \in Request
      PROVE  CallerOK(c)'
  <2>1. CASE at[c] = "idle"
    BY Zenon, <1>1, <2>1 DEF Core, CallerOK
  <2>2. CASE at[c] # "idle" /\ key[c] # k
    BY Zenon, <1>1, <1>4, <2>2, CallerFrame DEF Core, CallerOK
  <2>3. CASE at[c] # "idle" /\ key[c] = k
    <3>1. CallerOK(c) /\ flight[c] \in Nat
      BY DEF Core, Maps
    <3>2. /\ at'[c] = at[c] /\ key'[c] = k /\ until'[c] = until[c] /\ flight'[c] = flight[c]
          /\ blocks'[k] = 0 /\ sinceUnblock'[k] = 0
      BY Zenon, <1>1, <1>4, <2>3
    <3> QED
      BY ZenonT(30), <1>2, <2>3, <3>1, <3>2 DEF CallerOK
  <2> QED
    BY Zenon, <2>1, <2>2, <2>3
<1> QED
  BY <1>3, <1>5, <1>6 DEF Core

\* Time passes for the keys, the entries, the copies and the replies alike.
LEMMA CacheTickStep ==
  ASSUME Core, CacheTick
  PROVE  Core'
<1> USE CacheBounds, CacheAssumption, Durations
<1>1. /\ counters' = [k \in Key |-> CounterElapse(counters[k])]
      /\ blocks' = [k \in Key |-> Elapse(blocks[k])]
      /\ entries' = [k \in Key |-> Elapse(entries[k])]
      /\ until' = [c \in Request |-> IF at[c] \in {"lookup", "hit"} THEN Elapse(until[c]) ELSE until[c]]
      /\ flight' = [c \in Request |-> IF at[c] = "replied" THEN flight[c] + 1 ELSE 0]
      /\ sinceUnblock' = [k \in Key |-> Aged(sinceUnblock[k])]
      /\ UNCHANGED <<at, key>>
      /\ \A c \in Request : at[c] = "replied" => flight[c] < MaxFlight
  BY Zenon DEF CacheTick, Aged
<1>2. ASSUME NEW k \in Key
      PROVE  /\ Elapse(blocks[k]) \in 0..BlockTicks
             /\ Aged(sinceUnblock[k]) \in 0..Long
             /\ Aged(sinceUnblock[k]) < Long => Elapse(blocks[k]) = 0
             /\ \A e : Sound(e, blocks[k], sinceUnblock[k])
                         => Sound(Elapse(e), Elapse(blocks[k]), Aged(sinceUnblock[k]))
             /\ \A x, f : f \in Nat /\ f < MaxFlight /\ OnItsWay(x, f, blocks[k], sinceUnblock[k])
                         => OnItsWay(x, f + 1, Elapse(blocks[k]), Aged(sinceUnblock[k]))
  BY Zenon, <1>2, TickKeeps DEF Core, Maps, BucketOK
<1>3. ASSUME NEW k \in Key
      PROVE  /\ CounterElapse(counters[k]) \in Counters
             /\ CounterElapse(counters[k]) # Absent => Alive(CounterElapse(counters[k]))
  BY <1>3, CounterElapsing DEF Core, Maps, BucketOK
<1>4. \A e \in Int : Elapse(e) \in Int
  BY DEF Elapse
<1>5. Maps'
  <2>1. Maps
    BY DEF Core
  <2>2. \A k \in Key : Elapse(blocks[k]) \in 0..BlockTicks /\ Aged(sinceUnblock[k]) \in 0..Long
    BY Zenon, <1>2
  <2>3. /\ counters' \in [Key -> Counters] /\ blocks' \in [Key -> 0..BlockTicks]
        /\ entries' \in [Key -> Int] /\ sinceUnblock' \in [Key -> 0..Long]
    BY <1>1, <1>3, <1>4, <2>1, <2>2 DEF Maps
  <2>4. until' \in [Request -> Int] /\ flight' \in [Request -> 0..MaxFlight]
    BY <1>1, <1>4, <2>1 DEF Maps
  <2> QED
    BY <1>1, <2>1, <2>3, <2>4 DEF Maps
<1>6. ASSUME NEW k \in Key
      PROVE  BucketOK(k)'
  BY Zenon, <1>1, <1>2, <1>3 DEF Core, BucketOK
<1>7. ASSUME NEW c \in Request
      PROVE  CallerOK(c)'
  <2>1. CASE at[c] \in {"idle", "inner"}
    BY Zenon, <1>1, <2>1 DEF Core, CallerOK
  <2>2. CASE at[c] \in {"lookup", "hit"}
    BY Zenon, <1>1, <1>2, <2>2 DEF Core, CallerOK
  <2>3. CASE at[c] = "replied"
    <3>1. CallerOK(c) /\ key[c] \in Key /\ flight[c] \in Nat /\ flight[c] < MaxFlight
      BY <1>1, <2>3 DEF Core, Maps, CallerOK
    <3>2. /\ at'[c] = "replied" /\ key'[c] = key[c] /\ until'[c] = until[c] /\ flight'[c] = flight[c] + 1
          /\ blocks'[key[c]] = Elapse(blocks[key[c]])
          /\ sinceUnblock'[key[c]] = Aged(sinceUnblock[key[c]])
      BY Zenon, <1>1, <2>3, <3>1
    <3>3. until[c] \in Nat /\ OnItsWay(until[c] * Second, flight[c], blocks[key[c]], sinceUnblock[key[c]])
      BY Zenon, <2>3, <3>1 DEF CallerOK
    <3>4. OnItsWay(until[c] * Second, flight[c] + 1, Elapse(blocks[key[c]]), Aged(sinceUnblock[key[c]]))
      BY Zenon, <1>2, <3>1, <3>3
    <3> QED
      BY Zenon, <3>1, <3>2, <3>3, <3>4 DEF CallerOK
  <2> QED
    BY <2>1, <2>2, <2>3 DEF Core, Maps
<1> QED
  BY <1>5, <1>6, <1>7 DEF Core

\* An entry that goes away, with a sweep or with the process, does no harm.
LEMMA DropStep ==
  ASSUME Core, SweepDelete \/ Restart
  PROVE  Core'
<1> USE CacheBounds, CacheAssumption, Durations
<1>1. Sound(NoEntry, 0, 0) /\ \A b, s : Sound(NoEntry, b, s)
  BY DEF Sound, NoEntry
<1>2. UNCHANGED <<counters, blocks, sinceUnblock>>
  BY DEF SweepDelete, Restart, redis
<1>3. \A k \in Key : entries'[k] \in {NoEntry, entries[k]}
  BY DEF SweepDelete, Restart, Core, Maps
<1>4. entries' \in [Key -> Int]
  BY DEF SweepDelete, Restart, Core, Maps, NoEntry
<1>5. \A k \in Key : BucketOK(k)'
  BY Zenon, <1>1, <1>2, <1>3 DEF Core, BucketOK
<1>6. CASE SweepDelete
  <2>1. UNCHANGED <<at, key, until, flight>>
    BY <1>6 DEF SweepDelete, local
  <2> QED
    BY <1>2, <1>4, <1>5, <2>1, CallerFrame DEF Core, Maps
<1>7. CASE Restart
  <2>1. /\ at' = [c \in Request |-> "idle"] /\ key' = [c \in Request |-> NoKey]
        /\ until' = [c \in Request |-> 0] /\ flight' = [c \in Request |-> 0]
    BY <1>7 DEF Restart, Idle
  <2>2. Maps'
    BY <1>2, <1>4, <2>1 DEF Core, Maps
  <2>3. \A c \in Request : CallerOK(c)'
    BY Zenon, <2>1 DEF CallerOK
  <2> QED
    BY <1>5, <2>2, <2>3 DEF Core
<1> QED
  BY <1>6, <1>7

\* Nothing that Core speaks of changes.
LEMMA QuietStep ==
  ASSUME Core, SweepStart \/ UNCHANGED cacheVars
  PROVE  Core'
<1>1. UNCHANGED <<redis, entries, local, sinceUnblock>>
  BY DEF SweepStart, cacheVars
<1> QED
  BY <1>1, BucketFrame, CallerFrame DEF Core, Maps, redis, local

\* The sweeper's list stays right: an entry that is refreshed leaves the list,
\* an expired one does not come back to life by itself.
LEMMA DoomedStep ==
  ASSUME Core, DoomedOK, [CacheNext]_cacheVars
  PROVE  DoomedOK'
<1>1. CASE UNCHANGED <<entries, sweep>>
  BY <1>1 DEF DoomedOK, sweep
<1>2. CASE \E c \in Request : Remember(c)
  <2> PICK c \in Request : Remember(c)
    BY <1>2
  <2>1. sweeping' = sweeping /\ doomed' \subseteq doomed
    BY DEF Remember
  <2>2. \A k \in doomed' : entries'[k] = entries[k]
    BY DEF Remember, Core, Maps, DoomedOK
  <2> QED
    BY <2>1, <2>2 DEF DoomedOK
<1>3. CASE SweepStart
  <2>1. sweeping' \in BOOLEAN
    BY <1>3, Zenon DEF SweepStart
  <2> QED
    BY <1>3, <2>1 DEF SweepStart, DoomedOK
<1>4. CASE SweepDelete \/ Restart
  <2>1. sweeping' \in BOOLEAN
    BY <1>4, Zenon DEF SweepDelete, Restart
  <2> QED
    BY <1>4, <2>1 DEF SweepDelete, Restart, DoomedOK
<1>5. CASE CacheTick
  <2>1. UNCHANGED sweep /\ \A k \in Key : entries'[k] = Elapse(entries[k])
    BY Zenon, <1>5 DEF CacheTick
  <2> QED
    BY <2>1 DEF sweep, DoomedOK, Elapse
<1> QED
  BY Zenon, <1>1, <1>2, <1>3, <1>4, <1>5
     DEF CacheNext, cacheVars, Lookup, Hit, Miss, ServeHit, Execute, Fail, Allowed, Elsewhere, UnblockKey

\* A map that loses entries, or keeps them, keeps within its bound.
LEMMA RoomShrinks ==
  ASSUME Room, Cached' \subseteq Cached
  PROVE  Room'
<1>1. IsFiniteSet(Cached') /\ Cardinality(Cached') <= Cardinality(Cached)
  BY FS_Subset DEF Room
<1>2. Cardinality(Cached) \in Nat /\ Cardinality(Cached') \in Nat
  BY <1>1, FS_CardinalityType DEF Room
<1> QED
  BY <1>1, <1>2, CacheAssumption DEF Room, CacheBounded

\* Only remember adds an entry, and it counts and inserts under one lock.
LEMMA RoomStep ==
  ASSUME Core, Room, [CacheNext]_cacheVars
  PROVE  Room'
<1>1. CASE UNCHANGED entries
  BY <1>1, RoomShrinks DEF Cached
<1>2. CASE \E c \in Request : Remember(c)
  <2> PICK c \in Request : Remember(c)
    BY <1>2
  <2> DEFINE k == key[c]
  <2>1. CASE Full(k)
    BY <2>1, RoomShrinks DEF Remember, Cached
  <2>2. CASE ~Full(k)
    <3>1. Cached' \subseteq Cached \union {k}
      BY <2>2 DEF Remember, Cached, Core, Maps
    <3>2. CASE entries[k] # NoEntry
      <4>1. k \in Cached
        BY Zenon, <3>2 DEF Cached, Core, CallerOK, Remember
      <4> QED
        BY <3>1, <4>1, RoomShrinks
    <3>3. CASE entries[k] = NoEntry
      <4>1. k \notin Cached
        BY <3>3 DEF Cached
      <4>2. /\ IsFiniteSet(Cached \union {k})
            /\ Cardinality(Cached \union {k}) = Cardinality(Cached) + 1
        BY Zenon, <4>1, FS_AddElement DEF Room
      <4>3. IsFiniteSet(Cached') /\ Cardinality(Cached') <= Cardinality(Cached) + 1
        BY <3>1, <4>2, FS_Subset
      <4>4. Cardinality(Cached) \in Nat /\ Cardinality(Cached') \in Nat
        BY <4>3, FS_CardinalityType DEF Room
      <4>5. MaxEntries > 0 => Cardinality(Cached) < MaxEntries
        BY <2>2, <3>3, <4>4, CacheAssumption DEF Full
      <4> QED
        BY <4>3, <4>4, <4>5, CacheAssumption DEF Room, CacheBounded
    <3> QED
      BY <3>2, <3>3
  <2> QED
    BY <2>1, <2>2
<1>3. CASE SweepDelete \/ Restart
  <2>1. Cached' \subseteq Cached
    BY <1>3 DEF SweepDelete, Restart, Cached, Core, Maps
  <2> QED
    BY <2>1, RoomShrinks
<1>4. CASE CacheTick
  <2>1. Cached' \subseteq Cached
    BY <1>4 DEF CacheTick, Cached, Core, Maps, Elapse, NoEntry
  <2> QED
    BY <2>1, RoomShrinks
<1> QED
  BY Zenon, <1>1, <1>2, <1>3, <1>4
     DEF CacheNext, cacheVars, Lookup, Hit, Miss, ServeHit, Execute, Fail, Allowed, Elsewhere, UnblockKey, SweepStart

CacheInv == Core /\ DoomedOK /\ Room

\* An empty cache in front of an empty Redis.
LEMMA InitCache == CacheInit => CacheInv
<1> SUFFICES ASSUME CacheInit
             PROVE  CacheInv
  OBVIOUS
<1> USE CacheBounds, CacheAssumption, Durations, RuleValid
<1>1. Absent \in Counters
  BY DEF Absent, Counters
<1>2. Maps
  BY <1>1 DEF CacheInit, Maps, Idle, NoEntry
<1>3. \A b, s : Sound(NoEntry, b, s)
  BY DEF Sound, NoEntry
<1>4. (\A k \in Key : BucketOK(k)) /\ \A c \in Request : CallerOK(c)
  BY <1>3 DEF CacheInit, BucketOK, CallerOK, Idle
<1>5. DoomedOK
  BY Zenon DEF CacheInit, DoomedOK
<1>6. Cached = {}
  BY DEF CacheInit, Cached
<1>7. Room
  BY <1>6, FS_EmptySet DEF Room, CacheBounded
<1> QED
  BY <1>2, <1>4, <1>5, <1>7 DEF CacheInv, Core

\* Whatever the callers, the replicas, the sweeper, the operator, the clock and
\* a restart do.
LEMMA NextIInv == CacheInv /\ [CacheNext]_cacheVars => CacheInv'
<1> SUFFICES ASSUME CacheInv, [CacheNext]_cacheVars
             PROVE  CacheInv'
  OBVIOUS
<1>1. Core'
  <2>1. ASSUME NEW c \in Request,
               \/ \E k \in Key : Lookup(c, k)
               \/ Hit(c) \/ Miss(c) \/ ServeHit(c) \/ Execute(c) \/ Fail(c) \/ Allowed(c) \/ Remember(c)
        PROVE  Core'
    BY <2>1, LocalStep, ExecuteStep, RememberStep DEF CacheInv
  <2> QED
    BY <2>1, ElsewhereStep, UnblockStep, CacheTickStep, DropStep, QuietStep DEF CacheInv, CacheNext
<1> QED
  BY <1>1, DoomedStep, RoomStep DEF CacheInv

\* The inductive invariant.
THEOREM CacheInvariance == CacheSpec => []CacheInv
  BY InitCache, NextIInv, PTL DEF CacheSpec

\* Types of the Redis keys, the cache, the callers and the sweeper.
THEOREM CacheTypes == CacheSpec => []CacheTypeOK
<1>1. CacheInv => CacheTypeOK
  <2> SUFFICES ASSUME CacheInv
               PROVE  CacheTypeOK
    OBVIOUS
  <2> USE CacheBounds, CacheAssumption, Durations, RuleValid
  <2>1. entries \in [Key -> NoEntry..BlockTicks]
    BY DEF CacheInv, Core, Maps, BucketOK, Sound, NoEntry
  <2>2. ASSUME NEW c \in Request
        PROVE  until[c] \in NoEntry..BlockTicks
    <3>1. CASE at[c] = "replied"
      <4>1. until[c] \in Nat /\ until[c] * Second <= BlockTicks
        BY <3>1 DEF CacheInv, Core, CallerOK, OnItsWay
      <4>2. \A a \in Nat, b \in Nat \ {0} : a <= a * b /\ a * b \in Nat
        OBVIOUS
      <4> QED
        BY <4>1, <4>2 DEF NoEntry
    <3>2. CASE at[c] # "replied"
      BY <3>2 DEF CacheInv, Core, Maps, CallerOK, Sound, NoEntry
    <3> QED
      BY <3>1, <3>2
  <2>3. until \in [Request -> NoEntry..BlockTicks]
    BY <2>2 DEF CacheInv, Core, Maps
  <2>4. \A k \in Key : counters[k].n \in 0..Limit /\ counters[k].ttl \in 0..WindowTicks
    BY DEF CacheInv, Core, Maps, Counters
  <2> QED
    BY <2>1, <2>3, <2>4 DEF CacheInv, Core, Maps, DoomedOK, CacheTypeOK
<1> QED
  BY <1>1, CacheInvariance, PTL

\* The map never holds more than MaxEntries entries, expired ones included.
THEOREM Bounded == CacheSpec => []CacheBounded
<1>1. CacheInv => CacheBounded
  BY DEF CacheInv, Room
<1> QED
  BY <1>1, CacheInvariance, PTL

\* Without an operator, an entry outlives the block in Redis by no more than
\* the rounding of TTL and the flight of the reply.
THEOREM TracksBlock == CacheSpec => []EntryTracksBlock
<1>1. CacheInv => EntryTracksBlock
  BY Zenon DEF CacheInv, Core, BucketOK, Sound, EntryTracksBlock, Half
<1> QED
  BY <1>1, CacheInvariance, PTL

\* After the block key is deleted no entry lives on for longer than MaxTTL and
\* the flight of a reply.
THEOREM TakesHold == CacheSpec => []UnblockTakesHold
<1>1. CacheInv => UnblockTakesHold
  BY CacheBounds DEF CacheInv, Core, Maps, BucketOK, Sound, UnblockTakesHold
<1> QED
  BY <1>1, CacheInvariance, PTL

\* A live entry leaves the map only with the process.
THEOREM LiveKept == CacheSpec => LiveEntryKept
<1>1. ASSUME CacheInv, [CacheNext]_cacheVars, NEW k \in Key, entries[k] > 0, entries'[k] = NoEntry
      PROVE  Restart
  <2>1. entries[k] \in Int
    BY <1>1 DEF CacheInv, Core, Maps
  <2>2. CASE UNCHANGED entries
    BY <1>1, <2>1, <2>2 DEF NoEntry
  <2>3. CASE \E c \in Request : Remember(c)
    <3> PICK c \in Request : Remember(c)
      BY <2>3
    <3> DEFINE x == until[c] * Second
    <3>1. /\ until[c] \in Nat \ {0}
          /\ OnItsWay(x, flight[c], blocks[key[c]], sinceUnblock[key[c]])
          /\ flight[c] \in 0..MaxFlight /\ key[c] \in Key
      BY SMTT(30), <1>1 DEF CacheInv, Core, Maps, CallerOK, Remember
    <3>2. x \in Nat \ {0}
      BY Zenon, <3>1, Product, RuleValid
    <3>3. Capped(x) > 0 /\ Sound(Capped(x), blocks[key[c]], sinceUnblock[key[c]])
      BY <1>1, <3>1, <3>2, ReplyBecomesEntry DEF CacheInv, Core, Maps
    <3>4. entries' = entries \/ entries' = [entries EXCEPT ![key[c]] = Capped(x)]
      BY Zenon DEF Remember, NewEntry
    <3>5. Capped(x) \in Int
      BY Zenon, <3>3 DEF Sound
    <3> HIDE DEF x
    <3>6. entries'[k] = entries[k] \/ entries'[k] = Capped(x)
      BY <1>1, <3>4 DEF CacheInv, Core, Maps
    <3> QED
      BY <1>1, <2>1, <3>3, <3>5, <3>6 DEF NoEntry
  <2>4. CASE SweepDelete
    <3>1. k \notin doomed
      BY <1>1, <2>1 DEF CacheInv, DoomedOK
    <3>2. entries'[k] = entries[k]
      BY <1>1, <2>4, <3>1 DEF SweepDelete, Swept
    <3> QED
      BY <1>1, <2>1, <3>2 DEF NoEntry
  <2>5. CASE CacheTick
    <3>1. entries'[k] = Elapse(entries[k])
      BY Zenon, <1>1, <2>5 DEF CacheTick
    <3> QED
      BY SMTT(30), <1>1, <2>1, <3>1 DEF Elapse, NoEntry
  <2> QED
    BY Zenon, <1>1, <2>2, <2>3, <2>4, <2>5
       DEF CacheNext, cacheVars, Lookup, Hit, Miss, ServeHit, Execute, Fail, Allowed, Elsewhere, UnblockKey, SweepStart
<1>2. CacheInv /\ [CacheNext]_cacheVars =>
        [\A k \in Key : entries[k] > 0 /\ entries'[k] = NoEntry => Restart]_cacheVars
  BY <1>1
<1> QED
  BY <1>2, CacheInvariance, PTL DEF CacheSpec, LiveEntryKept

\* The wait advised on a hit is a whole second at least, covers the rest of the
\* entry, and overstates the rest of the block by less than a second beyond
\* rounding and flight.
THEOREM AdviceOfHit == CacheSpec => HitAdvice
<1> DEFINE Advised(c) ==
             LET wait == retryAfterSeconds(until[c]) * Second
             IN  /\ wait >= Second /\ wait >= until[c]
                 /\ sinceUnblock[key[c]] = Long /\ until[c] > 0 =>
                        wait < blocks[key[c]] + Second \div 2 + MaxFlight + Second
<1>1. ASSUME NEW t \in Int
      PROVE  LET wait == retryAfterSeconds(t) * Second
             IN  wait \in Int /\ wait >= Second /\ wait >= t /\ (t > 0 => wait < t + Second)
  <2>1. CASE t <= 0
    BY <2>1, RuleValid DEF retryAfterSeconds
  <2>2. CASE t > 0
    <3>1. \A a \in Nat, b \in Nat \ {0} :
             (a \div b) * b \in Nat /\ (a \div b) * b <= a /\ a < (a \div b) * b + b
      OBVIOUS
    <3>2. \A q \in Nat, b \in Nat \ {0} : q >= 1 => q * b >= b
      OBVIOUS
    <3>3. t + Second - 1 \in Nat /\ t + Second - 1 >= Second
      BY <2>2, RuleValid
    <3>4. /\ retryAfterSeconds(t) = (t + Second - 1) \div Second
          /\ retryAfterSeconds(t) \in Nat /\ retryAfterSeconds(t) >= 1
      BY <2>2, <3>3, Division, RuleValid DEF retryAfterSeconds
    <3> QED
      BY <2>2, <3>1, <3>2, <3>3, <3>4, RuleValid
  <2> QED
    BY <2>1, <2>2
<1>2. ASSUME CacheInv, NEW c \in Request, ServeHit(c)
      PROVE  Advised(c)
  <2>1. /\ key[c] \in Key /\ until[c] \in Int
        /\ Sound(until[c], blocks[key[c]], sinceUnblock[key[c]])
        /\ blocks[key[c]] \in 0..BlockTicks
    BY <1>2 DEF CacheInv, Core, Maps, CallerOK, ServeHit
  <2>2. sinceUnblock[key[c]] = Long /\ until[c] > 0 => until[c] <= blocks[key[c]] + Half + MaxFlight
    BY Zenon, <2>1 DEF Sound
  <2> DEFINE t == until[c]
             b == blocks[key[c]]
             w == retryAfterSeconds(t) * Second
  <2>3. w \in Int /\ w >= Second /\ w >= t /\ (t > 0 => w < t + Second)
    BY Zenon, <1>1, <2>1
  <2>4. t \in Int /\ b \in Int /\ Half \in Int /\ MaxFlight \in Int /\ Second \in Int
    BY <2>1, CacheBounds, RuleValid, CacheAssumption
  <2>5. sinceUnblock[key[c]] = Long /\ t > 0 => w < b + Half + MaxFlight + Second
    <3> HIDE DEF t, b, w
    <3>1. sinceUnblock[key[c]] = Long /\ t > 0 => t <= b + Half + MaxFlight
      BY Zenon, <2>2 DEF t, b
    <3> QED
      BY <2>3, <2>4, <3>1
  <2> QED
    BY Zenon, <2>3, <2>5 DEF Half
<1>3. CacheInv => [\A c \in Request : ServeHit(c) => Advised(c)]_cacheVars
  BY <1>2
<1> QED
  BY <1>3, CacheInvariance, PTL DEF HitAdvice

----------------------------------------------------------------------------
(***************************************************************************)
(* The decide script for every limit, window, block and tick: no counter   *)
(* without a time to live, blocks neither extended nor lifted early by     *)
(* more than the rounding of TTL, every block earned, and at most two      *)
(* limits in a span.  Two relations carry the argument: while the block    *)
(* key exists, what is left of it and the time since the block began add   *)
(* up to the block's duration; and the counter divides the allowed         *)
(* requests into those of its own window and those before it.              *)
(***************************************************************************)
\* What is left of the block and the time since it began.
InStep(b, since) ==
  IF b > 0 THEN since = BlockTicks - b ELSE since >= BlockTicks

Span == Smaller(WindowTicks, BlockTicks - Second \div 2)

\* The ages of the allowed requests.  The newest c.n are the counter's own:
\* not older than the counter, younger than the last block.  The one before
\* them is older than the counter, so that when the counter goes, by expiry
\* or by a block, that one is a whole window old or as old as the block.
History(c, since, ages) ==
  /\ ages \in [Recent -> 0..Horizon]
  /\ \A i, j \in Recent : i <= j => ages[i] <= ages[j]
  /\ \A i \in 1..c.n : ages[i] <= WindowTicks - c.ttl /\ ages[i] < since
  /\ c.n > 0 => ages[c.n + 1] >= WindowTicks - c.ttl /\ ages[c.n + Limit + 1] >= Span
  /\ c.n = 0 => ages[Limit + 1] >= Smaller(Span, since)
  /\ ages[2 * Limit + 1] >= Span

IInv ==
  /\ counter \in Counters
  /\ counter # Absent => Alive(counter)
  /\ block \in 0..BlockTicks
  /\ sinceBlock \in Nat
  /\ InStep(block, sinceBlock)
  /\ History(counter, sinceBlock, allowed)

\* The bounds of the ages.
LEMMA Bounds ==
  /\ Horizon \in Nat /\ Horizon >= BlockTicks /\ Horizon >= WindowTicks
  /\ Span \in Int /\ Span <= WindowTicks /\ Span <= BlockTicks - Second \div 2
  /\ Span <= Horizon
  /\ 1 \in Recent /\ Limit \in Recent /\ Limit + 1 \in Recent /\ 2 * Limit + 1 \in Recent
<1>1. Second \div 2 \in Nat
  BY RuleValid, Division
<1>2. Horizon \in Nat /\ Horizon >= BlockTicks /\ Horizon >= WindowTicks
  BY Durations DEF Horizon, Larger
<1>3. Span \in Int /\ Span <= WindowTicks /\ Span <= BlockTicks - Second \div 2
  BY <1>1, Durations DEF Span, Smaller
<1> QED
  BY <1>2, <1>3, Durations, RuleValid DEF Recent

\* Nothing allowed yet.
LEMMA NoHistory == History(Absent, Horizon, [i \in Recent |-> Horizon])
<1>1. Absent.n = 0 /\ Absent.ttl = 0
  BY DEF Absent
<1> QED
  BY <1>1, Bounds DEF History, Smaller

\* A request is allowed: it joins the counter's own, or starts them, and then
\* the last block is over.
LEMMA AllowHistory ==
  ASSUME NEW c \in Counters, c # Absent => Alive(c),
         NEW k \in Counters, k.n = c.n + 1, k.ttl = IF c = Absent THEN WindowTicks ELSE c.ttl,
         NEW since \in Nat, since > 0, since >= BlockTicks - Second \div 2,
         NEW ages, History(c, since, ages)
  PROVE  History(k, since, [i \in Recent |-> IF i = 1 THEN 0 ELSE ages[i - 1]])
<1> DEFINE now == [i \in Recent |-> IF i = 1 THEN 0 ELSE ages[i - 1]]
<1>0. /\ ages \in [Recent -> 0..Horizon]
      /\ \A i, j \in Recent : i <= j => ages[i] <= ages[j]
  BY DEF History
<1>1. /\ c.n \in Nat /\ c.ttl \in Nat /\ k.n \in 1..Limit /\ k.ttl \in Nat /\ k.ttl <= WindowTicks
      /\ Limit \in Nat \ {0} /\ WindowTicks \in Nat
  BY RuleValid, Durations DEF Counters
<1>2. \A i \in Recent : i # 1 => i - 1 \in Recent
  BY <1>1 DEF Recent
<1>3. now \in [Recent -> 0..Horizon]
  BY <1>0, <1>2, Bounds
<1>4. \A i, j \in Recent : i <= j => now[i] <= now[j]
  <2> SUFFICES ASSUME NEW i \in Recent, NEW j \in Recent, i <= j
               PROVE  now[i] <= now[j]
    OBVIOUS
  <2>1. CASE i = 1
    BY <1>3, <2>1
  <2>2. CASE i # 1
    <3>1. j # 1 /\ i - 1 \in Recent /\ j - 1 \in Recent /\ i - 1 <= j - 1
      BY <1>1, <1>2, <2>2 DEF Recent
    <3> QED
      BY <1>0, <2>2, <3>1
  <2> QED
    BY <2>1, <2>2
<1>5. \A i \in 1..k.n : now[i] <= WindowTicks - k.ttl /\ now[i] < since
  <2> SUFFICES ASSUME NEW i \in 1..k.n
               PROVE  now[i] <= WindowTicks - k.ttl /\ now[i] < since
    OBVIOUS
  <2>0. i \in Recent /\ i \in Nat
    BY <1>1 DEF Recent
  <2>1. CASE i = 1
    BY <1>1, <2>0, <2>1
  <2>2. CASE i # 1
    <3>1. i - 1 \in 1..c.n /\ c.n > 0
      BY <1>1, <2>0, <2>2
    <3>2. c # Absent /\ k.ttl = c.ttl
      BY <3>1 DEF Absent
    <3>3. ages[i - 1] <= WindowTicks - c.ttl /\ ages[i - 1] < since
      BY <3>1 DEF History
    <3> QED
      BY <2>0, <2>2, <3>2, <3>3
  <2> QED
    BY <2>1, <2>2
<1>6. now[k.n + 1] >= WindowTicks - k.ttl /\ now[k.n + Limit + 1] >= Span
  <2>1. /\ k.n + 1 \in Recent /\ k.n + 1 # 1 /\ k.n + 1 - 1 = c.n + 1
        /\ k.n + Limit + 1 \in Recent /\ k.n + Limit + 1 # 1 /\ k.n + Limit + 1 - 1 = c.n + Limit + 1
    BY <1>1 DEF Recent
  <2>2. now[k.n + 1] = ages[c.n + 1] /\ now[k.n + Limit + 1] = ages[c.n + Limit + 1]
    <3>1. \A i \in Recent : i # 1 => now[i] = ages[i - 1]
      OBVIOUS
    <3> HIDE DEF now
    <3> QED
      BY <1>1, <2>1, <3>1
  <2>3. CASE c = Absent
    <3>1. c.n = 0 /\ k.ttl = WindowTicks
      BY <2>3 DEF Absent
    <3>2. ages[c.n + 1] \in Nat
      BY <1>0, <3>1, Bounds
    <3>3. ages[Limit + 1] >= Smaller(Span, since)
      BY <3>1 DEF History
    <3>4. Smaller(Span, since) = Span
      BY Bounds, Durations, RuleValid, Division DEF Smaller
    <3> QED
      BY <1>1, <2>2, <3>1, <3>2, <3>3, <3>4
  <2>4. CASE c # Absent
    <3>1. c.n > 0 /\ k.ttl = c.ttl
      BY <2>4 DEF Alive
    <3> QED
      BY <2>2, <3>1 DEF History
  <2> QED
    BY <2>3, <2>4
<1>7. now[2 * Limit + 1] >= Span
  <2>1. k.n + Limit + 1 \in Recent /\ 2 * Limit + 1 \in Recent /\ k.n + Limit + 1 <= 2 * Limit + 1
    BY <1>1 DEF Recent
  <2>2. now[k.n + Limit + 1] <= now[2 * Limit + 1]
    BY <1>4, <2>1
  <2>3. now[k.n + Limit + 1] \in Int /\ now[2 * Limit + 1] \in Int
    BY <1>3, <2>1
  <2> HIDE DEF now
  <2> QED
    BY <1>6, <2>2, <2>3, Bounds
<1> HIDE DEF now
<1>8. k.n # 0
  BY <1>1
<1>9. History(k, since, now)
  BY <1>3, <1>4, <1>5, <1>6, <1>7, <1>8 DEF History
<1> QED
  BY <1>9 DEF now

\* A block starts: the counter goes, and what it leaves behind is as old as
\* the block.
LEMMA BlockHistory ==
  ASSUME NEW c \in Counters, c.n = Limit, NEW since, NEW ages, History(c, since, ages)
  PROVE  History(Absent, 0, ages)
<1>1. Absent.n = 0 /\ c.n > 0 /\ ages \in [Recent -> 0..Horizon]
  BY RuleValid DEF Absent, History
<1>2. ages[Limit + 1] >= Smaller(Span, 0)
  BY <1>1, Bounds DEF Smaller
<1>3. \A i \in 1..Absent.n : ages[i] <= WindowTicks - Absent.ttl /\ ages[i] < 0
  BY <1>1
<1> QED
  BY <1>1, <1>2, <1>3 DEF History

\* An operator's unblock keeps the counter's own requests.
LEMMA UnblockHistory ==
  ASSUME NEW c \in Counters, c # Absent => Alive(c), NEW since, NEW ages, History(c, since, ages)
  PROVE  History(c, Horizon, [i \in Recent |-> IF i <= c.n THEN ages[i] ELSE Horizon])
<1> DEFINE kept == [i \in Recent |-> IF i <= c.n THEN ages[i] ELSE Horizon]
<1>0. /\ ages \in [Recent -> 0..Horizon]
      /\ \A i, j \in Recent : i <= j => ages[i] <= ages[j]
  BY DEF History
<1>1. /\ c.n \in 0..Limit /\ c.ttl \in 0..WindowTicks /\ Limit \in Nat \ {0} /\ WindowTicks \in Nat \ {0}
      /\ c.n > 0 => c.ttl > 0
  BY RuleValid, Durations DEF Counters, Alive, Absent
<1>2. kept \in [Recent -> 0..Horizon]
  BY <1>0, Bounds
<1>3. \A i, j \in Recent : i <= j => kept[i] <= kept[j]
  <2> SUFFICES ASSUME NEW i \in Recent, NEW j \in Recent, i <= j
               PROVE  kept[i] <= kept[j]
    OBVIOUS
  <2>1. i \in Int /\ j \in Int /\ ages[i] \in 0..Horizon /\ ages[i] <= ages[j]
    BY <1>0, Bounds DEF Recent
  <2> QED
    BY <1>1, <2>1, Bounds
<1>4. \A i \in 1..c.n : kept[i] <= WindowTicks - c.ttl /\ kept[i] < Horizon
  <2> SUFFICES ASSUME NEW i \in 1..c.n
               PROVE  kept[i] <= WindowTicks - c.ttl /\ kept[i] < Horizon
    OBVIOUS
  <2>1. i \in Recent /\ i <= c.n /\ c.n > 0
    BY <1>1 DEF Recent
  <2>2. kept[i] = ages[i] /\ ages[i] <= WindowTicks - c.ttl /\ ages[i] \in Nat
    BY <1>0, <2>1 DEF History
  <2> QED
    BY <1>1, <2>1, <2>2, Bounds
<1>5. \A i \in Recent : i > c.n => kept[i] = Horizon
  BY <1>1 DEF Recent
<1>6. /\ c.n + 1 \in Recent /\ c.n + 1 > c.n
      /\ c.n + Limit + 1 \in Recent /\ c.n + Limit + 1 > c.n
      /\ Limit + 1 \in Recent /\ Limit + 1 > c.n
      /\ 2 * Limit + 1 \in Recent /\ 2 * Limit + 1 > c.n
  BY <1>1 DEF Recent
<1> HIDE DEF kept
<1>7. /\ kept[c.n + 1] = Horizon /\ kept[c.n + Limit + 1] = Horizon
      /\ kept[Limit + 1] = Horizon /\ kept[2 * Limit + 1] = Horizon
  BY <1>1, <1>5, <1>6
<1>8. /\ Horizon >= WindowTicks - c.ttl /\ Horizon >= Span /\ Horizon >= Smaller(Span, Horizon)
  BY <1>1, Bounds DEF Smaller
<1>9. History(c, Horizon, kept)
  BY <1>2, <1>3, <1>4, <1>7, <1>8 DEF History
<1> QED
  BY <1>9 DEF kept

\* A tick: everything ages alike, and an expiring counter was a window old.
LEMMA TickHistory ==
  ASSUME NEW c \in Counters, c # Absent => Alive(c), NEW since \in Nat, NEW ages, History(c, since, ages)
  PROVE  History(CounterElapse(c), Smaller(since + 1, Horizon),
                 [i \in Recent |-> Smaller(ages[i] + 1, Horizon)])
<1> DEFINE aged == [i \in Recent |-> Smaller(ages[i] + 1, Horizon)]
           later == Smaller(since + 1, Horizon)
           e == CounterElapse(c)
<1>0. /\ ages \in [Recent -> 0..Horizon]
      /\ \A i, j \in Recent : i <= j => ages[i] <= ages[j]
  BY DEF History
<1>1. /\ c.n \in 0..Limit /\ c.ttl \in 0..WindowTicks /\ Limit \in Nat \ {0} /\ WindowTicks \in Nat \ {0}
      /\ c.n + 1 \in Recent /\ c.n + Limit + 1 \in Recent
  BY RuleValid, Durations DEF Counters, Recent
<1>2. aged \in [Recent -> 0..Horizon]
  BY <1>0, Bounds DEF Smaller
<1>3. \A i, j \in Recent : i <= j => aged[i] <= aged[j]
  BY <1>0, Bounds DEF Smaller
<1>4. \A i \in Recent, x \in Int : x <= Horizon /\ ages[i] >= x - 1 => aged[i] >= x
  BY <1>0, Bounds DEF Smaller
<1>5. \A i \in Recent : aged[i] <= ages[i] + 1 /\ aged[i] \in Int /\ ages[i] \in Int
  BY <1>0, Bounds DEF Smaller
<1> HIDE DEF aged
<1>6. aged[2 * Limit + 1] >= Span
  <2>1. ages[2 * Limit + 1] >= Span
    BY DEF History
  <2> QED
    BY <1>4, <1>5, <2>1, Bounds
<1>7. later \in Nat /\ later <= Horizon /\ later <= since + 1 /\ (later = since + 1 \/ later = Horizon)
  BY Bounds DEF Smaller
<1> HIDE DEF later
<1>8. CASE c = Absent
  <2>1. e = c /\ c.n = 0
    BY <1>8 DEF CounterElapse, Elapse, Absent
  <2>2. ages[Limit + 1] >= Smaller(Span, since)
    BY <2>1 DEF History
  <2>3. Smaller(Span, later) \in Int /\ Smaller(Span, later) <= Horizon
        /\ Smaller(Span, later) <= Smaller(Span, since) + 1 /\ Smaller(Span, since) \in Int
    BY <1>7, Bounds DEF Smaller
  <2>4. aged[Limit + 1] >= Smaller(Span, later)
    BY <1>4, <1>5, <2>2, <2>3, Bounds
  <2>5. \A i \in 1..c.n : FALSE
    BY <2>1
  <2> HIDE DEF e
  <2>6. History(c, later, aged)
    BY <1>2, <1>3, <1>6, <2>1, <2>4, <2>5 DEF History
  <2> QED
    BY <2>1, <2>6 DEF later, aged, e
<1>9. CASE c # Absent
  <2>0. c.n > 0 /\ c.ttl > 0
    BY <1>9 DEF Alive
  <2>1. ages[c.n + 1] >= WindowTicks - c.ttl /\ ages[c.n + Limit + 1] >= Span
    BY <2>0 DEF History
  <2>2. \A i \in 1..c.n : ages[i] <= WindowTicks - c.ttl /\ ages[i] < since
    BY DEF History
  <2>3. CASE c.ttl = 1
    <3>1. e = Absent /\ e.n = 0
      BY <2>3 DEF CounterElapse, Absent
    <3>2. aged[c.n + 1] >= WindowTicks
      BY <1>1, <1>4, <1>5, <2>1, <2>3, Bounds
    <3>3. aged[Limit + 1] >= aged[c.n + 1]
      BY <1>1, <1>3, Bounds
    <3>4. aged[Limit + 1] >= Smaller(Span, later)
      BY <1>1, <1>5, <1>7, <3>2, <3>3, Bounds DEF Smaller
    <3>5. \A i \in 1..e.n : FALSE
      BY <3>1
    <3> HIDE DEF e
    <3>6. History(e, later, aged)
      BY <1>2, <1>3, <1>6, <3>1, <3>4, <3>5 DEF History
    <3> QED
      BY <3>6 DEF later, aged, e
  <2>4. CASE c.ttl # 1
    <3>1. e.n = c.n /\ e.ttl = c.ttl - 1
      BY <1>1, <2>0, <2>4 DEF CounterElapse, Elapse, Counters
    <3> HIDE DEF e
    <3>2. \A i \in 1..e.n : aged[i] <= WindowTicks - e.ttl /\ aged[i] < later
      <4> SUFFICES ASSUME NEW i \in 1..c.n
                   PROVE  aged[i] <= WindowTicks - e.ttl /\ aged[i] < later
        BY <3>1
      <4>1. i \in Recent
        BY <1>1 DEF Recent
      <4>2. aged[i] <= ages[i] + 1 /\ aged[i] \in Int /\ ages[i] \in Int
        BY <1>5, <4>1
      <4>3. ages[i] <= WindowTicks - c.ttl /\ ages[i] < since
        BY <2>2
      <4> QED
        BY <1>1, <1>7, <2>0, <2>4, <3>1, <4>2, <4>3, Bounds
    <3>3. aged[e.n + 1] >= WindowTicks - e.ttl /\ aged[e.n + Limit + 1] >= Span
      BY <1>1, <1>4, <1>5, <2>0, <2>1, <2>4, <3>1, Bounds
    <3>4. History(e, later, aged)
      BY <1>2, <1>3, <1>6, <2>0, <3>1, <3>2, <3>3 DEF History
    <3> QED
      BY <3>4 DEF later, aged, e
  <2> QED
    BY <2>3, <2>4
<1> QED
  BY <1>8, <1>9

\* The inductive invariant holds of empty keys.
LEMMA InitIInv == Init => IInv
<1> SUFFICES ASSUME Init
             PROVE  IInv
  OBVIOUS
<1>1. Absent \in Counters
  BY Durations, RuleValid DEF Absent, Counters
<1>2. Horizon \in Nat /\ Horizon >= BlockTicks
  BY Durations DEF Horizon, Larger
<1> QED
  BY <1>1, <1>2, NoHistory, Durations DEF Init, IInv, InStep

\* Where TTL sees no block, the last one is over but for half a second.
LEMMA BlockOver ==
  ASSUME NEW b \in 0..BlockTicks, NEW s \in Nat, InStep(b, s), ~(TTL(b) > 0)
  PROVE  s > 0 /\ s >= BlockTicks - Second \div 2
<1>1. b \in Nat /\ 2 * b < Second
  BY Rounding, RuleValid, Durations
<1>2. \A x, z \in Nat : 2 * x < z => x <= z \div 2
  OBVIOUS
<1>3. b <= Second \div 2 /\ Second \div 2 \in Nat
  BY <1>1, <1>2, Division, RuleValid
<1>4. BlockTicks >= Second
  <2>1. \A x, y \in Nat \ {0} : x * y >= y
    OBVIOUS
  <2> QED
    BY <2>1, Durations, RuleValid DEF BlockTicks
<1> QED
  BY <1>1, <1>3, <1>4, Durations, RuleValid DEF InStep

\* The script keeps it, by its three outcomes.
LEMMA ConsumeIInv == IInv /\ Consume => IInv'
<1> SUFFICES ASSUME IInv, Consume
             PROVE  IInv'
  OBVIOUS
<1> DEFINE d == Decide(counter, block)
           c == Counted(counter)
<1>1. /\ counter' = d.counter /\ block' = d.block
      /\ sinceBlock' = IF d.reply.blocked /\ d.reply.count > 0 THEN 0 ELSE sinceBlock
      /\ allowed' = IF d.reply.blocked THEN allowed ELSE AllowedNow
  BY DEF Consume
<1>2. c \in [n : 1..(Limit + 1), ttl : 1..WindowTicks]
      /\ c.n = counter.n + 1 /\ c.ttl = IF counter = Absent THEN WindowTicks ELSE counter.ttl
  BY Counting DEF IInv
<1>3. TTL(block) \in Nat
  BY Rounding, Durations DEF IInv
<1>4. CASE TTL(block) > 0
  <2>1. d = AlreadyBlocked(counter, block)
    BY <1>4, Outcomes
  <2>2. d.counter = counter /\ d.block = block /\ d.reply.blocked = TRUE /\ d.reply.count = -1
    BY <2>1 DEF AlreadyBlocked, Reply
  <2>3. UNCHANGED <<counter, block, sinceBlock, allowed>>
    BY <1>1, <2>2
  <2> QED
    BY <2>3 DEF IInv, InStep, History
<1>5. CASE ~(TTL(block) > 0) /\ OverLimit(c)
  <2>1. d = StartBlock(c)
    BY <1>5, Outcomes
  <2>2. d.counter = Absent /\ d.block = BlockTicks /\ d.reply.blocked = TRUE /\ d.reply.count = c.n
    BY <2>1 DEF StartBlock, Reply
  <2>3. c.n > 0
    BY <1>2, RuleValid
  <2>4. counter' = Absent /\ block' = BlockTicks /\ sinceBlock' = 0 /\ allowed' = allowed
    BY <1>1, <2>2, <2>3
  <2>5. Absent \in Counters
    BY Durations, RuleValid DEF Absent, Counters
  <2>6. counter.n = Limit
    BY <1>2, <1>5, RuleValid DEF IInv, Counters, OverLimit
  <2>7. History(Absent, 0, allowed)
    BY <2>6, BlockHistory DEF IInv
  <2> QED
    BY <2>4, <2>5, <2>7, Durations DEF IInv, InStep
<1>6. CASE ~(TTL(block) > 0) /\ ~OverLimit(c)
  <2>1. d = Allow(c, block)
    BY <1>6, Outcomes
  <2>2. d.counter = c /\ d.block = block /\ d.reply.blocked = FALSE
    BY <2>1 DEF Allow, Reply
  <2>3. counter' = c /\ block' = block /\ sinceBlock' = sinceBlock /\ allowed' = AllowedNow
    BY <1>1, <2>2
  <2>4. c \in Counters /\ Alive(c)
    BY <1>2, <1>6, Durations, RuleValid DEF Counters, Alive, OverLimit
  <2>5. sinceBlock > 0 /\ sinceBlock >= BlockTicks - Second \div 2
    BY <1>6, BlockOver DEF IInv
  <2>6. History(c, sinceBlock, AllowedNow)
    BY <1>2, <2>4, <2>5, AllowHistory DEF IInv, AllowedNow
  <2> HIDE DEF c
  <2> QED
    BY <2>3, <2>4, <2>6 DEF IInv, InStep
<1> QED
  BY <1>4, <1>5, <1>6

\* The operator's DEL keeps it.
LEMMA UnblockIInv == IInv /\ Unblock => IInv'
<1> SUFFICES ASSUME IInv, Unblock
             PROVE  IInv'
  OBVIOUS
<1>1. Horizon \in Nat /\ Horizon >= BlockTicks
  BY Durations DEF Horizon, Larger
<1> DEFINE kept == [i \in Recent |-> IF i <= counter.n THEN allowed[i] ELSE Horizon]
<1>2. counter' = counter /\ block' = 0 /\ sinceBlock' = Horizon /\ allowed' = kept
  BY DEF Unblock
<1>3. History(counter, Horizon, kept)
  BY UnblockHistory DEF IInv
<1> HIDE DEF kept
<1> QED
  BY <1>1, <1>2, <1>3, Durations DEF IInv, InStep

\* A tick, on values.
LEMMA Elapsing ==
  ASSUME NEW b \in 0..BlockTicks, NEW s \in Nat, InStep(b, s)
  PROVE  /\ Elapse(b) \in 0..BlockTicks
         /\ Smaller(s + 1, Horizon) \in Nat
         /\ InStep(Elapse(b), Smaller(s + 1, Horizon))
<1>1. Horizon \in Nat /\ Horizon >= BlockTicks
  BY Durations DEF Horizon, Larger
<1> QED
  BY <1>1, Durations DEF InStep, Elapse, Smaller

\* The passing of time keeps it.
LEMMA TickIInv == IInv /\ Tick => IInv'
<1> SUFFICES ASSUME IInv, Tick
             PROVE  IInv'
  OBVIOUS
<1> DEFINE aged == [i \in Recent |-> Smaller(allowed[i] + 1, Horizon)]
<1>1. /\ counter' = CounterElapse(counter) /\ block' = Elapse(block)
      /\ sinceBlock' = Smaller(sinceBlock + 1, Horizon) /\ allowed' = aged
  BY DEF Tick
<1>2. CounterElapse(counter) \in Counters
      /\ (CounterElapse(counter) # Absent => Alive(CounterElapse(counter)))
  BY CounterElapsing DEF IInv
<1>3. /\ Elapse(block) \in 0..BlockTicks
      /\ Smaller(sinceBlock + 1, Horizon) \in Nat
      /\ InStep(Elapse(block), Smaller(sinceBlock + 1, Horizon))
  BY Elapsing DEF IInv
<1>4. History(CounterElapse(counter), Smaller(sinceBlock + 1, Horizon), aged)
  BY TickHistory DEF IInv
<1> HIDE DEF aged
<1> QED
  BY <1>1, <1>2, <1>3, <1>4 DEF IInv

\* The inductive invariant, whatever the clients, the clock and the operator do.
THEOREM Invariance == Spec => []IInv
<1>1. IInv /\ [Next]_vars => IInv'
  <2> SUFFICES ASSUME IInv, [Next]_vars
               PROVE  IInv'
    OBVIOUS
  <2>1. CASE Next
    BY <2>1, ConsumeIInv, UnblockIInv, TickIInv DEF Next
  <2>2. CASE UNCHANGED vars
    BY <2>2 DEF IInv, History, vars
  <2> QED
    BY <2>1, <2>2
<1> QED
  BY <1>1, InitIInv, PTL DEF Spec

\* The counter key never stays without a time to live.
THEOREM NoLeakedCounter == Spec => []CounterExpires
<1>1. IInv => CounterExpires
  BY DEF IInv, CounterExpires, Alive
<1> QED
  BY <1>1, Invariance, PTL

\* A request is turned away by an earlier block only while less than `block`
\* has passed since that block began.
THEOREM HammeringExtendsNothing == Spec => []BlockNotExtended
<1>1. IInv => BlockNotExtended
  <2> SUFFICES ASSUME IInv, ReplyNow.count = -1
               PROVE  sinceBlock < BlockTicks
    BY DEF BlockNotExtended
  <2> DEFINE c == Counted(counter)
  <2>1. c.n \in Nat
    BY Counting, RuleValid DEF IInv
  <2>2. TTL(block) > 0
    <3>1. ASSUME ~(TTL(block) > 0)
          PROVE  FALSE
      <4>1. ReplyNow.count = c.n
        BY Zenon, <3>1, CountReplied DEF ReplyNow
      <4> QED
        BY <4>1, <2>1
    <3> QED
      BY <3>1
  <2>3. block \in Nat /\ 2 * block >= Second
    BY <2>2, Rounding, Durations DEF IInv
  <2> QED
    BY <2>3, RuleValid, Durations DEF IInv, InStep
<1> QED
  BY <1>1, Invariance, PTL

\* Nothing is allowed until `block` has passed since a block began, less the
\* half second by which TTL may round the rest down to 0.
THEOREM BlocksHold == Spec => []BlockHolds
<1>1. IInv => BlockHolds
  <2> SUFFICES ASSUME IInv, ~ReplyNow.blocked
               PROVE  2 * (BlockTicks - sinceBlock) < Second
    BY DEF BlockHolds
  <2>1. ~(TTL(block) > 0)
    <3>1. ASSUME TTL(block) > 0
          PROVE  FALSE
      <4>1. ReplyNow.blocked = TRUE
        BY <3>1, Outcomes DEF ReplyNow, AlreadyBlocked, Reply
      <4> QED
        BY <4>1
    <3> QED
      BY <3>1
  <2>2. block \in Nat /\ 2 * block < Second
    BY <2>1, Rounding, Durations, RuleValid DEF IInv
  <2> QED
    BY <2>2, RuleValid, Durations DEF IInv, InStep
<1> QED
  BY <1>1, Invariance, PTL

\* A new block starts only when Limit requests were allowed within the last
\* window and after the previous block began.
THEOREM BlocksAreEarned == Spec => []BlockIsEarned
<1>1. IInv => BlockIsEarned
  <2> SUFFICES ASSUME IInv, ReplyNow.blocked, ReplyNow.count > 0
               PROVE  allowed[Limit] < WindowTicks /\ allowed[Limit] < sinceBlock
    BY DEF BlockIsEarned
  <2> DEFINE c == Counted(counter)
  <2>1. c.n = counter.n + 1 /\ counter.n \in 0..Limit
    BY Counting DEF IInv, Counters
  <2>2. ~(TTL(block) > 0)
    <3>1. ASSUME TTL(block) > 0
          PROVE  FALSE
      <4>1. ReplyNow.count = -1
        BY <3>1, Outcomes DEF ReplyNow, AlreadyBlocked, Reply
      <4> QED
        BY <4>1
    <3> QED
      BY <3>1
  <2>3. OverLimit(c)
    <3>1. ASSUME ~OverLimit(c)
          PROVE  FALSE
      <4>1. ReplyNow.blocked = FALSE
        BY <2>2, <3>1, Outcomes DEF ReplyNow, Allow, Reply
      <4> QED
        BY <4>1
    <3> QED
      BY <3>1
  <2>4. counter.n = Limit /\ counter # Absent
    BY <2>1, <2>3, RuleValid DEF OverLimit, Absent
  <2>5. counter.ttl \in 1..WindowTicks
    BY <2>4, Durations DEF IInv, Alive, Counters
  <2>6. Limit \in 1..counter.n /\ Limit \in Recent
    BY <2>4, Bounds, RuleValid
  <2>7. /\ allowed[Limit] \in Nat
        /\ allowed[Limit] <= WindowTicks - counter.ttl /\ allowed[Limit] < sinceBlock
    BY <2>6, Bounds DEF IInv, History
  <2> QED
    BY <2>5, <2>7, Durations
<1> QED
  BY <1>1, Invariance, PTL

\* In any span shorter than both the window and the block, at most two limits
\* are allowed.
THEOREM AtMostTwoLimits == Spec => []TwoLimitsPerSpan
<1>1. IInv => TwoLimitsPerSpan
  BY DEF IInv, History, Span, TwoLimitsPerSpan
<1> QED
  BY <1>1, Invariance, PTL

----------------------------------------------------------------------------
(***************************************************************************)
(* Safety of the circuit breaker for any set of callers, any threshold and *)
(* any cooldown.  The properties follow from one inductive invariant.      *)
(***************************************************************************)
\* Every recorded probe is a call in progress, at least as old as the last
\* admission of a probe.
ProbesAge ==
    \A c \in probes : InFlight(c) /\ running[c] >= sinceProbe

\* Unless a probe is out, the remaining cooldown makes up what is missing of
\* a full cooldown since the last probe.
Spacing ==
    isOpenLocked /\ ~probing => openUntil + sinceProbe >= Cooldown

\* A probe is only ever out on an open circuit.
ProbingOpen ==
    probing => isOpenLocked

BreakerInv == BreakerTypeOK /\ OpenIffTripped /\ ProbesAge /\ Spacing /\ ProbingOpen

\* The initial state of New satisfies the inductive invariant.
LEMMA InitBreaker == BreakerInit => BreakerInv
<1> SUFFICES ASSUME BreakerInit PROVE BreakerInv
  OBVIOUS
<1>1. BreakerTypeOK
  <2>1. probing \in BOOLEAN /\ leaked \in BOOLEAN
    BY Zenon DEF BreakerInit
  <2> QED
    BY <2>1, BreakerAssumption DEF BreakerInit, BreakerTypeOK, Zero
<1>2. OpenIffTripped
  BY BreakerAssumption DEF BreakerInit, OpenIffTripped, isOpenLocked
<1>3. ProbesAge /\ Spacing /\ ProbingOpen
  BY DEF BreakerInit, ProbesAge, Spacing, ProbingOpen, isOpenLocked
<1> QED
  BY <1>1, <1>2, <1>3 DEF BreakerInv

\* Adding a natural number does not decrease.
LEMMA PlusNat == \A a, b \in Nat : a + b >= a
  OBVIOUS

\* What record does to an enabled breaker, outcome by outcome.
LEMMA RecordCases ==
  ASSUME NEW c \in Caller, Record(c), BreakerTypeOK
  PROVE  \/ UNCHANGED state /\ Threshold = 0
         \/ /\ Threshold > 0 /\ ~probing' /\ probing' \in BOOLEAN
            /\ failures' = 0 /\ openUntil' = Zero
         \/ /\ Threshold > 0 /\ ~probing' /\ probing' \in BOOLEAN
            /\ failures' = Upto(failures, Threshold)
            /\ openUntil' = IF failures' >= Threshold THEN Cooldown ELSE openUntil
<1>1. CASE Threshold = 0
  BY <1>1 DEF Record, record
<1>2. CASE Threshold # 0
  <2>1. ~probing' /\ probing' \in BOOLEAN
    BY Zenon, <1>2 DEF Record, record
  <2>2. CASE pc[c] = "ok"
    BY <1>2, <2>1, <2>2, BreakerAssumption DEF Record, record, RecordSuccess
  <2>3. CASE pc[c] # "ok"
    BY <1>2, <2>1, <2>3, BreakerAssumption DEF Record, record, RecordFailure
  <2> QED
    BY <2>2, <2>3
<1> QED
  BY <1>1, <1>2

\* What a recording step does to the rest of the state.
LEMMA RecordFrame ==
  ASSUME NEW c \in Caller, Record(c)
  PROVE  /\ pc' = [pc EXCEPT ![c] = "idle"]
         /\ running' = [running EXCEPT ![c] = 0]
         /\ probes' = probes \ {c}
         /\ leaked' \in BOOLEAN
         /\ UNCHANGED <<health, sinceProbe>>
  BY ZenonT(30) DEF Record

\* Every step of a caller, of the store or of the clock preserves the type
\* invariant.
LEMMA BreakerTypeStep == BreakerTypeOK /\ [BreakerNext]_breakerVars => BreakerTypeOK'
<1> SUFFICES ASSUME BreakerTypeOK, [BreakerNext]_breakerVars PROVE BreakerTypeOK'
  OBVIOUS
<1> USE BreakerAssumption DEF BreakerTypeOK, Zero, state
<1>1. ASSUME NEW c \in Caller, Admit(c) PROVE BreakerTypeOK'
  BY <1>1 DEF Admit, Begin
<1>2. ASSUME NEW c \in Caller, Probe(c) PROVE BreakerTypeOK'
  BY <1>2 DEF Probe, Begin
<1>3. ASSUME NEW c \in Caller, Suppress(c) \/ Return(c) PROVE BreakerTypeOK'
  BY <1>3 DEF Suppress, Return
<1>4. ASSUME NEW c \in Caller, InnerOk(c) \/ InnerErr(c) PROVE BreakerTypeOK'
  BY <1>4 DEF InnerOk, InnerErr
<1>5. ASSUME NEW c \in Caller, InnerPanic(c) PROVE BreakerTypeOK'
  <2>1. leaked' \in BOOLEAN
    BY <1>5, Zenon DEF InnerPanic
  <2> QED
    BY <1>5, <2>1 DEF InnerPanic
<1>6. ASSUME NEW c \in Caller, Record(c) PROVE BreakerTypeOK'
  BY <1>6, RecordCases, RecordFrame DEF Upto
<1>7. CASE HealthChange
  BY <1>7 DEF HealthChange
<1>8. CASE BreakerTick
  BY <1>8 DEF BreakerTick, Upto, InFlight
<1>9. CASE UNCHANGED breakerVars
  BY <1>9 DEF breakerVars
<1> QED
  BY Zenon, <1>1, <1>2, <1>3, <1>4, <1>5, <1>6, <1>7, <1>8, <1>9 DEF BreakerNext

\* Recording an outcome, by a probe or by a call admitted before the trip,
\* preserves the inductive invariant.
LEMMA RecordStep ==
  ASSUME BreakerInv, NEW c \in Caller, Record(c), BreakerTypeOK'
  PROVE  BreakerInv'
<1>1. ProbesAge'
  BY RecordFrame DEF BreakerInv, BreakerTypeOK, ProbesAge, InFlight
<1>2. CASE UNCHANGED state /\ Threshold = 0
  BY <1>1, <1>2, RecordFrame
  DEF BreakerInv, OpenIffTripped, Spacing, ProbingOpen, isOpenLocked, state
<1>3. CASE Threshold > 0 /\ ~probing' /\ failures' = 0 /\ openUntil' = Zero
  BY <1>1, <1>3, BreakerAssumption
  DEF BreakerInv, OpenIffTripped, Spacing, ProbingOpen, isOpenLocked
<1>4. CASE /\ Threshold > 0 /\ ~probing'
           /\ failures' = Upto(failures, Threshold)
           /\ openUntil' = IF failures' >= Threshold THEN Cooldown ELSE openUntil
  <2>1. ProbingOpen'
    BY <1>4 DEF ProbingOpen
  <2>2. OpenIffTripped'
    BY <1>4, BreakerAssumption
    DEF BreakerInv, BreakerTypeOK, OpenIffTripped, isOpenLocked, Upto, Zero
  <2>3. CASE failures' >= Threshold
    <3>1. Cooldown \in Nat /\ sinceProbe' \in Nat
      BY BreakerAssumption DEF BreakerTypeOK
    <3>2. Cooldown + sinceProbe' >= Cooldown
      BY Zenon, <3>1, PlusNat
    <3>3. openUntil' = Cooldown
      BY <1>4, <2>3
    <3>4. openUntil' + sinceProbe' >= Cooldown
      BY <3>2, <3>3, Zenon
    <3> QED
      BY <1>1, <2>1, <2>2, <3>4 DEF BreakerInv, Spacing
  <2>4. CASE ~(failures' >= Threshold)
    <3>1. ~isOpenLocked'
      BY <2>2, <2>4 DEF OpenIffTripped
    <3> QED
      BY <1>1, <2>1, <2>2, <3>1 DEF BreakerInv, Spacing
  <2> QED
    BY <2>3, <2>4
<1> QED
  BY <1>2, <1>3, <1>4, RecordCases DEF BreakerInv

\* Every step preserves the rest of the inductive invariant.
LEMMA BreakerStep == BreakerInv /\ [BreakerNext]_breakerVars => BreakerInv'
<1> SUFFICES ASSUME BreakerInv, [BreakerNext]_breakerVars PROVE BreakerInv'
  OBVIOUS
<1>0. BreakerTypeOK /\ BreakerTypeOK'
  BY BreakerTypeStep DEF BreakerInv
<1> USE <1>0, BreakerAssumption
    DEF BreakerInv, OpenIffTripped, ProbesAge, Spacing, ProbingOpen, isOpenLocked, InFlight, BreakerTypeOK, Zero, state
<1>1. ASSUME NEW c \in Caller, Admit(c) PROVE BreakerInv'
  <2>1. c \notin probes
    BY <1>1 DEF Admit
  <2> QED
    BY <1>1, <2>1 DEF Admit, Begin
<1>2. ASSUME NEW c \in Caller, Probe(c) PROVE BreakerInv'
  BY <1>2 DEF Probe, Begin
<1>3. ASSUME NEW c \in Caller, Suppress(c) \/ Return(c) PROVE BreakerInv'
  BY Zenon, <1>3 DEF Suppress, Return
<1>4. ASSUME NEW c \in Caller, InnerOk(c) \/ InnerErr(c) PROVE BreakerInv'
  BY ZenonT(30), <1>4 DEF InnerOk, InnerErr
<1>5. ASSUME NEW c \in Caller, InnerPanic(c) PROVE BreakerInv'
  BY <1>5 DEF InnerPanic
<1>6. ASSUME NEW c \in Caller, Record(c) PROVE BreakerInv'
  BY Zenon, <1>6, RecordStep
<1>7. CASE HealthChange
  BY <1>7 DEF HealthChange
<1>8. CASE BreakerTick
  BY <1>8 DEF BreakerTick, Upto
<1>9. CASE UNCHANGED breakerVars
  BY <1>9 DEF breakerVars
<1> QED
  BY Zenon, <1>1, <1>2, <1>3, <1>4, <1>5, <1>6, <1>7, <1>8, <1>9 DEF BreakerNext

\* The inductive invariant holds in every reachable state.
THEOREM BreakerInvariance == BreakerSpec => []BreakerInv
  BY InitBreaker, BreakerStep, PTL DEF BreakerSpec

\* Type correctness of the breaker's state.
THEOREM BreakerTypes == BreakerSpec => []BreakerTypeOK
<1>1. BreakerInv => BreakerTypeOK
  BY DEF BreakerInv
<1> QED
  BY <1>1, BreakerInvariance, PTL

\* However calls overlap, the circuit is open exactly when the failure count
\* has reached the threshold.
THEOREM OpenCorrect == BreakerSpec => []OpenIffTripped
<1>1. BreakerInv => OpenIffTripped
  BY DEF BreakerInv
<1> QED
  BY <1>1, BreakerInvariance, PTL

\* Probes are admitted at least a cooldown apart, for every threshold,
\* cooldown and call duration.
THEOREM ProbeSpacing == BreakerSpec => ProbesSpaced
<1>1. BreakerInv /\ [BreakerNext]_breakerVars
      => [\A c \in Caller : c \in probes' \ probes => sinceProbe >= Cooldown]_breakerVars
  <2> SUFFICES ASSUME BreakerInv, BreakerNext, NEW c \in Caller, c \in probes' \ probes
               PROVE  sinceProbe >= Cooldown
    BY DEF breakerVars
  <2>1. PICK d \in Caller : Probe(d)
    BY DEF BreakerNext, Admit, Suppress, Return, InnerOk, InnerErr, InnerPanic, Record,
           HealthChange, BreakerTick
  <2> QED
    BY <2>1, BreakerAssumption DEF Probe, MayProbe, BreakerInv, Spacing, BreakerTypeOK
<1> QED
  BY <1>1, BreakerInvariance, PTL DEF BreakerSpec, ProbesSpaced

\* If every inner call ends sooner than the cooldown, two probes are never at
\* the store together, although a call admitted before the trip may clear the
\* probing flag while the probe is out.
THEOREM OneProbe == ASSUME MaxCall < Cooldown PROVE BreakerSpec => []AtMostOneProbe
<1>1. BreakerInit => AtMostOneProbe
  BY DEF BreakerInit, AtMostOneProbe
<1>2. BreakerInv /\ AtMostOneProbe /\ [BreakerNext]_breakerVars => AtMostOneProbe'
  <2> SUFFICES ASSUME BreakerInv, AtMostOneProbe, [BreakerNext]_breakerVars PROVE AtMostOneProbe'
    OBVIOUS
  <2>1. ASSUME NEW c \in Caller, Probe(c) PROVE AtMostOneProbe'
    <3>1. openUntil = 0 /\ ~probing /\ sinceProbe >= Cooldown
      BY <2>1, BreakerAssumption
      DEF Probe, MayProbe, BreakerInv, Spacing, BreakerTypeOK, isOpenLocked, Zero
    <3>2. probes = {}
      BY <3>1, BreakerAssumption DEF BreakerInv, ProbesAge, BreakerTypeOK
    <3> QED
      BY <2>1, <3>2 DEF Probe, AtMostOneProbe
  <2>2. ASSUME ~\E c \in Caller : Probe(c) PROVE AtMostOneProbe'
    <3>1. probes' \subseteq probes
      BY <2>2 DEF BreakerNext, Admit, Suppress, Return, InnerOk, InnerErr, InnerPanic,
                  Record, HealthChange, BreakerTick, breakerVars
    <3> QED
      BY <3>1 DEF AtMostOneProbe
  <2> QED
    BY <2>1, <2>2
<1> QED
  BY <1>1, <1>2, BreakerInvariance, PTL DEF BreakerSpec

\* The probing flag always has an owner that will clear it, unless the probe
\* panicked.
THEOREM ProbeOwned == BreakerSpec => []ProbingHasOwner
<1>1. BreakerInit => ProbingHasOwner
  BY DEF BreakerInit, ProbingHasOwner
<1>2. BreakerInv /\ BreakerInv' /\ ProbingHasOwner /\ [BreakerNext]_breakerVars => ProbingHasOwner'
  <2> SUFFICES ASSUME BreakerInv, BreakerInv', ProbingHasOwner, [BreakerNext]_breakerVars, probing'
               PROVE  leaked' \/ probes' # {}
    BY DEF ProbingHasOwner, BreakerInv, ProbesAge
  <2>1. CASE \E c \in Caller : Probe(c)
    BY <2>1 DEF Probe
  <2>2. CASE \E c \in Caller : Record(c)
    <3>1. Threshold = 0
      BY <2>2, RecordCases DEF BreakerInv
    <3> QED
      BY <3>1, BreakerAssumption DEF BreakerInv, OpenIffTripped, ProbingOpen
  <2>3. CASE ~(\E c \in Caller : Probe(c) \/ Record(c))
    BY Zenon, <2>3 DEF BreakerNext, Admit, Suppress, Return, InnerOk, InnerErr, InnerPanic,
                HealthChange, BreakerTick, breakerVars, state, ProbingHasOwner
  <2> QED
    BY <2>1, <2>2, <2>3
<1> QED
  BY <1>1, <1>2, BreakerInvariance, PTL DEF BreakerSpec

=============================================================================
