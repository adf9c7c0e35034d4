----------------------------- MODULE BlockCache -----------------------------
(***************************************************************************)
(* The block cache of internal/store/blockcache on one replica, in front   *)
(* of the Redis that all replicas share.  A caller's Consume is            *)
(*                                                                         *)
(*   lookup -> hit: answer from the entry                                  *)
(*          -> miss: inner.Consume -> remember, if blocked                 *)
(*                                                                         *)
(* Between the reads of the map, of the clock and of Redis other callers,  *)
(* other replicas, the sweeper and the operator take steps.  inner.Consume *)
(* reaches Redis through the breaker and the client: it fails, or the      *)
(* script is executed and the reply travels back.  A command the client    *)
(* retried or gave up on may be executed as well; Elsewhere stands for     *)
(* these and for the requests of other replicas.                           *)
(*                                                                         *)
(* An entry is kept as the ticks until it expires, 0 when it has expired   *)
(* and not been swept, NoEntry when the map has none.                      *)
(***************************************************************************)
EXTENDS DecideScript, FiniteSets

CONSTANTS
    Key,         \* buckets
    NoKey,       \* the bucket of an idle caller
    Request,     \* goroutines of this replica
    MaxEntries,  \* Options.MaxEntries; 0 for no bound
    MaxTTL,      \* Options.MaxTTL in ticks; 0 for no cap
    MaxFlight    \* bound: ticks from the script's execution to remember

ASSUME CacheAssumption ==
    /\ NoKey \notin Key
    /\ MaxEntries \in Nat
    /\ MaxTTL \in Nat
    /\ MaxFlight \in Nat

VARIABLES
    counters, blocks, \* Redis: the two keys of each bucket
    entries,          \* the cache
    at, key,          \* each caller's progress and bucket
    until,            \* each caller's copy of an entry (ticks left), or the
                      \* seconds of the reply it is carrying
    flight,           \* ticks since Redis answered each caller
    sweeping, doomed, \* a sweep has read the clock; the entries that had
                      \* expired by then and were not written since
    sinceUnblock      \* history: ticks since the operator deleted the block
                      \* key, Long when long ago or blocked again since

redis     == <<counters, blocks>>
local     == <<at, key, until, flight>>
sweep     == <<sweeping, doomed>>
cacheVars == <<redis, entries, local, sweep, sinceUnblock>>

NoEntry == -1

\* The longest a reply is trusted for.
Trusted == IF MaxTTL > 0 THEN MaxTTL ELSE BlockTicks
Long    == Trusted + MaxFlight + 1

Idle == [c \in Request |-> "idle"]

CacheInit ==
    /\ counters = [k \in Key |-> Absent]
    /\ blocks = [k \in Key |-> 0]
    /\ entries = [k \in Key |-> NoEntry]
    /\ at = Idle
    /\ key = [c \in Request |-> NoKey]
    /\ until = [c \in Request |-> 0]
    /\ flight = [c \in Request |-> 0]
    /\ sweeping = FALSE
    /\ doomed = {}
    /\ sinceUnblock = [k \in Key |-> Long]

Goto(c, label) == at' = [at EXCEPT ![c] = label]

\* A finished call leaves nothing behind in its goroutine.
Finish(c) ==
    /\ Goto(c, "idle")
    /\ key' = [key EXCEPT ![c] = NoKey]
    /\ until' = [until EXCEPT ![c] = 0]
    /\ flight' = [flight EXCEPT ![c] = 0]

(***************************************************************************)
(* lookup: the map is read under the lock, the clock after it.             *)
(***************************************************************************)
Lookup(c, k) ==
    /\ at[c] = "idle"
    /\ Goto(c, "lookup")
    /\ key' = [key EXCEPT ![c] = k]
    /\ until' = [until EXCEPT ![c] = entries[k]]
    /\ UNCHANGED <<redis, entries, flight, sweep, sinceUnblock>>

Hit(c) ==
    /\ at[c] = "lookup" /\ until[c] > 0
    /\ Goto(c, "hit")
    /\ UNCHANGED <<redis, entries, key, until, flight, sweep, sinceUnblock>>

Miss(c) ==
    /\ at[c] = "lookup" /\ until[c] <= 0
    /\ Goto(c, "inner")
    /\ until' = [until EXCEPT ![c] = 0]
    /\ UNCHANGED <<redis, entries, key, flight, sweep, sinceUnblock>>

\* Mutant: the rest of a second is dropped.
retryAfterSecondsFloor(d) == IF d <= 0 THEN 1 ELSE d \div Second

\* httpapi's rendering of a wait.
retryAfterSeconds(d) == IF d <= 0 THEN 1 ELSE (d + Second - 1) \div Second

\* Answers Blocked with RetryAfter = until - now, the clock read once more.
ServeHit(c) ==
    /\ at[c] = "hit"
    /\ Finish(c)
    /\ UNCHANGED <<redis, entries, sweep, sinceUnblock>>

(***************************************************************************)
(* inner.Consume                                                           *)
(***************************************************************************)
RunScript(k) ==
    LET d == Decide(counters[k], blocks[k])
    IN  /\ counters' = [counters EXCEPT ![k] = d.counter]
        /\ blocks' = [blocks EXCEPT ![k] = d.block]
        /\ sinceUnblock' = [sinceUnblock EXCEPT
                               ![k] = IF d.reply.blocked THEN Long ELSE @]

Execute(c) ==
    /\ at[c] = "inner"
    /\ RunScript(key[c])
    /\ Goto(c, "replied")
    /\ until' = [until EXCEPT ![c] = Decide(counters[key[c]], blocks[key[c]]).reply.retryAfter]
    /\ UNCHANGED <<entries, key, flight, sweep>>

\* The breaker is open, or the command or its reply is lost for good.
Fail(c) ==
    /\ at[c] \in {"inner", "replied"}
    /\ Finish(c)
    /\ UNCHANGED <<redis, entries, sweep, sinceUnblock>>

Elsewhere(k) ==
    /\ RunScript(k)
    /\ UNCHANGED <<entries, local, sweep>>

(***************************************************************************)
(* Back in Consume: cache a block of known duration, and nothing else.     *)
(***************************************************************************)
Allowed(c) ==
    /\ at[c] = "replied" /\ until[c] = 0
    /\ Finish(c)
    /\ UNCHANGED <<redis, entries, sweep, sinceUnblock>>

\* Mutant: the cap is not applied.
CappedNot(ttl) == ttl

Capped(ttl) == IF MaxTTL > 0 /\ ttl > MaxTTL THEN MaxTTL ELSE ttl

Cached == {k \in Key : entries[k] # NoEntry}

\* Mutant: off by one.
FullLate(k) == entries[k] = NoEntry /\ MaxEntries > 0 /\ Cardinality(Cached) > MaxEntries

Full(k) == entries[k] = NoEntry /\ MaxEntries > 0 /\ Cardinality(Cached) >= MaxEntries

\* Mutant: the rest of the old entry is added to the new one.
NewEntryAdded(k, ttl) == Capped(ttl) + (IF entries[k] > 0 THEN entries[k] ELSE 0)

NewEntry(k, ttl) == Capped(ttl)

Remember(c) ==
    LET k == key[c]
    IN  /\ at[c] = "replied" /\ until[c] > 0
        /\ IF Full(k) THEN UNCHANGED <<entries, doomed>>
           ELSE /\ entries' = [entries EXCEPT ![k] = NewEntry(k, until[c] * Second)]
                /\ doomed' = doomed \ {k}
        /\ Finish(c)
        /\ UNCHANGED <<redis, sweeping, sinceUnblock>>

(***************************************************************************)
(* sweep: the clock is read before the lock is taken.                      *)
(***************************************************************************)
SweepStart ==
    /\ ~sweeping
    /\ sweeping' = TRUE
    /\ doomed' = {k \in Key : entries[k] = 0}
    /\ UNCHANGED <<redis, entries, local, sinceUnblock>>

\* Mutant: everything is swept.
SweptAll == Cached

Swept == doomed

SweepDelete ==
    /\ sweeping
    /\ sweeping' = FALSE
    /\ entries' = [k \in Key |-> IF k \in Swept THEN NoEntry ELSE entries[k]]
    /\ doomed' = {}
    /\ UNCHANGED <<redis, local, sinceUnblock>>

(***************************************************************************)
(* The environment: an operator deletes a block key, the replica restarts, *)
(* time passes.  A reply older than MaxFlight has been dealt with: the     *)
(* client's read timeout gives up on it.                                   *)
(***************************************************************************)
UnblockKey(k) ==
    /\ blocks[k] > 0
    /\ blocks' = [blocks EXCEPT ![k] = 0]
    /\ sinceUnblock' = [sinceUnblock EXCEPT ![k] = 0]
    /\ UNCHANGED <<counters, entries, local, sweep>>

Restart ==
    /\ entries' = [k \in Key |-> NoEntry]
    /\ at' = Idle
    /\ key' = [c \in Request |-> NoKey]
    /\ until' = [c \in Request |-> 0]
    /\ flight' = [c \in Request |-> 0]
    /\ sweeping' = FALSE
    /\ doomed' = {}
    /\ UNCHANGED <<redis, sinceUnblock>>

CacheTick ==
    /\ \A c \in Request : at[c] = "replied" => flight[c] < MaxFlight
    /\ counters' = [k \in Key |-> CounterElapse(counters[k])]
    /\ blocks' = [k \in Key |-> Elapse(blocks[k])]
    /\ entries' = [k \in Key |-> Elapse(entries[k])]
    /\ until' = [c \in Request |-> IF at[c] \in {"lookup", "hit"} THEN Elapse(until[c])
                                   ELSE until[c]]
    /\ flight' = [c \in Request |-> IF at[c] = "replied" THEN flight[c] + 1 ELSE 0]
    /\ sinceUnblock' = [k \in Key |-> IF sinceUnblock[k] < Long THEN sinceUnblock[k] + 1
                                      ELSE Long]
    /\ UNCHANGED <<at, key, sweep>>

CacheNext ==
    \/ \E c \in Request :
          \/ \E k \in Key : Lookup(c, k)
          \/ Hit(c) \/ Miss(c) \/ ServeHit(c)
          \/ Execute(c) \/ Fail(c) \/ Allowed(c) \/ Remember(c)
    \/ \E k \in Key : Elsewhere(k) \/ UnblockKey(k)
    \/ SweepStart \/ SweepDelete
    \/ Restart
    \/ CacheTick

CacheSpec == CacheInit /\ [][CacheNext]_cacheVars

----------------------------------------------------------------------------
\* Types of the Redis keys, the cache, the callers and the sweeper.
CacheTypeOK ==
    /\ \A k \in Key : counters[k].n \in 0..Limit /\ counters[k].ttl \in 0..WindowTicks
    /\ blocks \in [Key -> 0..BlockTicks]
    /\ entries \in [Key -> NoEntry..BlockTicks]
    /\ at \in [Request -> {"idle", "lookup", "hit", "inner", "replied"}]
    /\ key \in [Request -> Key \union {NoKey}]
    /\ until \in [Request -> NoEntry..BlockTicks]
    /\ flight \in [Request -> 0..MaxFlight]
    /\ sweeping \in BOOLEAN
    /\ doomed \in SUBSET Key
    /\ sinceUnblock \in [Key -> 0..Long]

\* The map never holds more than MaxEntries entries, expired ones included,
\* although callers decide to remember concurrently.
CacheBounded ==
    MaxEntries > 0 => Cardinality(Cached) <= MaxEntries

\* A cached verdict is never much older than the truth: unless an operator
\* has deleted the block key, an entry outlives the block in Redis by at most
\* the rounding of TTL plus the time the reply took.  So the cache never turns
\* away a bucket Redis has been allowing for longer than that.
EntryTracksBlock ==
    \A k \in Key : entries[k] > 0 /\ sinceUnblock[k] = Long =>
        entries[k] <= blocks[k] + Second \div 2 + MaxFlight

\* Deleting the block key takes hold on every replica within MaxTTL (and a
\* reply's flight): no entry from before the deletion lives longer, even one
\* remembered after it from a reply that was on its way.
UnblockTakesHold ==
    \A k \in Key : entries[k] > 0 /\ sinceUnblock[k] < Long =>
        sinceUnblock[k] + entries[k] <= Trusted + MaxFlight

\* A live entry leaves the map only with the process: a sweep that read its
\* clock before the entry was refreshed does not delete it.
LiveEntryKept ==
    [][\A k \in Key : entries[k] > 0 /\ entries'[k] = NoEntry => Restart]_cacheVars

\* The wait that httpapi makes of a hit's RetryAfter is a whole second at
\* least, even when the entry expired between lookup and the second reading of
\* the clock; it covers the rest of the entry, and overstates the rest of the
\* block in Redis by less than a second beyond rounding and flight.
HitAdvice ==
    [][\A c \in Request : ServeHit(c) =>
          LET wait == retryAfterSeconds(until[c]) * Second
          IN  /\ wait >= Second /\ wait >= until[c]
              /\ sinceUnblock[key[c]] = Long /\ until[c] > 0 =>
                     wait < blocks[key[c]] + Second \div 2 + MaxFlight + Second]_cacheVars
=============================================================================
