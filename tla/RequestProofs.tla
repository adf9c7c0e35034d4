---------------------------- MODULE RequestProofs ---------------------------
(***************************************************************************)
(* What becomes of a request: the handler's answer, what a call to the     *)
(* store costs, and what a token bucket grants.                            *)
(***************************************************************************)
EXTENDS Handler, StoreChain, TokenBucket, FiniteSetTheorems, TLAPS

----------------------------------------------------------------------------
(***************************************************************************)
(* What a call through the store chain costs, for any number of buckets,   *)
(* callers, retries and any threshold.                                     *)
(*                                                                         *)
(* The bound on the charges is not inductive by itself.  What is: an       *)
(* attempt that is still to be made and an execution that has happened     *)
(* draw on one allowance, and a caller that ran the script and then finds  *)
(* it unknown has seen Redis forget it.                                    *)
(***************************************************************************)
\* The most that a call may be charged.
Allowance(c) == IF c \in flushed THEN 2 * MaxRetries + 1 ELSE MaxRetries + 1

\* Executions and attempts left share the allowance.
Budget(c) ==
  /\ counted[c] <= Allowance(c)
  /\ Sending(c) => left[c] > 0 /\ counted[c] + left[c] <= Allowance(c)
  /\ at[c] = "evalsha" => counted[c] + left[c] <= Attempts
  /\ at[c] = "evalsha" /\ counted[c] > 0 /\ ~script => c \in flushed
  /\ c \in flushed => at[c] \in {"evalsha", "eval", "replied", "failed"}
  /\ at[c] \in {"idle", "allow"} => counted[c] = 0

\* What a call carries at each place.
Carries(c) ==
  /\ at[c] \in {"replied", "recorded"} => verdict[c] \in {"allowed", "blocked"} /\ counted[c] > 0
  /\ at[c] = "answered" =>
        /\ verdict[c] \in {"allowed", "blocked"} => counted[c] > 0
        /\ verdict[c] \in {"hit", "suppressed"} => counted[c] = 0
        /\ verdict[c] = "hit" => key[c] \in Windows
  /\ c \in known => at[c] = "answered" /\ verdict[c] = "hit"

ChainInv ==
  /\ ChainTypeOK
  /\ \A c \in Caller : Budget(c) /\ Carries(c)

\* The invariant of a call depends on its own variables and on the script.
LEMMA Frame ==
  ASSUME NEW c \in Caller, Budget(c), Carries(c),
         at'[c] = at[c], key'[c] = key[c], left'[c] = left[c],
         verdict'[c] = verdict[c], counted'[c] = counted[c],
         c \in known' <=> c \in known, c \in flushed' <=> c \in flushed,
         script => script'
  PROVE  Budget(c)' /\ Carries(c)'
  BY Zenon DEF Budget, Carries, Allowance, Sending, Attempts

\* record keeps the breaker's types: the failures saturate at the threshold.
LEMMA Recording ==
  ASSUME ChainTypeOK, record(TRUE) \/ record(FALSE)
  PROVE  /\ failures' \in 0..Threshold
         /\ circuit' \in {"closed", "cooling", "ready"}
         /\ probing' \in BOOLEAN
<1> USE ChainAssumption
<1>1. CASE Threshold = 0
  BY <1>1 DEF ChainTypeOK, record, breaker
<1>2. CASE Threshold # 0
  <2>1. probing' \in BOOLEAN
    BY <1>2, Zenon DEF record
  <2>2. \/ failures' = 0
        \/ failures' = IF failures < Threshold THEN failures + 1 ELSE failures
    BY <1>2 DEF record
  <2>3. circuit' \in {"closed", "cooling", circuit}
    BY <1>2 DEF record
  <2>4. failures' \in 0..Threshold
    BY <2>2 DEF ChainTypeOK
  <2> QED
    BY <2>1, <2>3, <2>4, Zenon DEF ChainTypeOK
<1> QED
  BY <1>1, <1>2

\* One step of a call.  Budget and Carries of the other calls are framed.
LEMMA CallStep ==
  ASSUME ChainInv, NEW c \in Caller,
         Progress(c) \/ \E k \in Key : Hit(c, k) \/ Miss(c, k)
  PROVE  ChainInv'
<1> USE ChainAssumption
<1> USE DEF cache, breaker, redis, call
<1> DEFINE Kept == ChainTypeOK' /\ Budget(c)' /\ Carries(c)'
           Others == \A e \in Caller \ {c} : Budget(e)' /\ Carries(e)'
<1>0. ChainTypeOK /\ Budget(c) /\ Carries(c)
  BY DEF ChainInv
\* A hit is answered and charged nothing.
<1>1. ASSUME NEW k \in Key, Hit(c, k)
      PROVE  Kept /\ Others
  <2>1. ChainTypeOK'
    BY <1>0, <1>1 DEF ChainTypeOK, Budget, Sending, Attempts, Key, Hit, Begin, Answer, Live
  <2>2. Budget(c)'
    BY <1>0, <1>1 DEF ChainTypeOK, Budget, Allowance, Sending, Attempts,
                Hit, Begin, Answer, Live
  <2>3. Carries(c)'
    BY <1>0, <1>1 DEF ChainTypeOK, Budget, Carries, Sending, Hit, Begin, Answer, Live
  <2>4. Others
    BY <1>1, Frame DEF ChainInv, ChainTypeOK, Hit, Begin, Answer, Live
  <2> QED
    BY Zenon, <2>1, <2>2, <2>3, <2>4
\* A miss starts a call that was charged nothing.
<1>2. ASSUME NEW k \in Key, Miss(c, k)
      PROVE  Kept /\ Others
  <2>1. ChainTypeOK'
    BY <1>0, <1>2 DEF ChainTypeOK, Budget, Sending, Attempts, Key, Miss, Begin, Misses, Live
  <2>2. Budget(c)'
    BY <1>0, <1>2 DEF ChainTypeOK, Budget, Allowance, Sending, Attempts,
                Miss, Begin, Misses, Live
  <2>3. Carries(c)'
    BY <1>0, <1>2 DEF ChainTypeOK, Budget, Carries, Sending, Miss, Begin, Misses, Live
  <2>4. Others
    BY <1>2, Frame DEF ChainInv, ChainTypeOK, Miss, Begin, Misses, Live
  <2> QED
    BY Zenon, <2>1, <2>2, <2>3, <2>4
\* The attempts granted to a fresh call are its allowance.
<1>3. ASSUME Admit(c)
      PROVE  Kept /\ Others
  <2>1. ChainTypeOK'
    BY <1>0, <1>3 DEF ChainTypeOK, Budget, Sending, Attempts, Key, Admit, Send
  <2>2. Budget(c)'
    BY <1>0, <1>3 DEF ChainTypeOK, Budget, Allowance, Sending, Attempts,
                Admit, Send
  <2>3. Carries(c)'
    BY <1>0, <1>3 DEF ChainTypeOK, Budget, Carries, Sending, Admit, Send
  <2>4. Others
    BY <1>3, Frame DEF ChainInv, ChainTypeOK, Admit, Send
  <2> QED
    BY Zenon, <2>1, <2>2, <2>3, <2>4
\* The same for the probe.
<1>4. ASSUME Probe(c)
      PROVE  Kept /\ Others
  <2>1. ChainTypeOK'
    BY <1>0, <1>4 DEF ChainTypeOK, Budget, Sending, Attempts, Key, Probe, Send
  <2>2. Budget(c)'
    BY <1>0, <1>4 DEF ChainTypeOK, Budget, Allowance, Sending, Attempts,
                Probe, Send
  <2>3. Carries(c)'
    BY <1>0, <1>4 DEF ChainTypeOK, Budget, Carries, Sending, Probe, Send
  <2>4. Others
    BY <1>4, Frame DEF ChainInv, ChainTypeOK, Probe, Send
  <2> QED
    BY Zenon, <2>1, <2>2, <2>3, <2>4
\* A refused call was charged nothing.
<1>5. ASSUME Suppress(c)
      PROVE  Kept /\ Others
  <2>1. ChainTypeOK'
    BY <1>0, <1>5 DEF ChainTypeOK, Budget, Sending, Attempts, Key, Suppress, Answer, ErrOpen
  <2>2. Budget(c)'
    BY <1>0, <1>5 DEF ChainTypeOK, Budget, Allowance, Sending, Attempts,
                Suppress, Answer, ErrOpen
  <2>3. Carries(c)'
    BY <1>0, <1>5 DEF ChainTypeOK, Budget, Carries, Sending, Suppress, Answer, ErrOpen
  <2>4. Others
    BY <1>5, Frame DEF ChainInv, ChainTypeOK, Suppress, Answer, ErrOpen
  <2> QED
    BY Zenon, <2>1, <2>2, <2>3, <2>4
\* An answered attempt trades its place in the allowance for a charge.
<1>6. ASSUME NEW v \in {"allowed", "blocked"}, Replied(c, v)
      PROVE  Kept /\ Others
  <2>1. ChainTypeOK'
    BY <1>0, <1>6 DEF ChainTypeOK, Budget, Sending, Attempts, Key, Replied, Execute
  <2>2. Budget(c)'
    BY <1>0, <1>6 DEF ChainTypeOK, Budget, Allowance, Sending, Attempts,
                Replied, Execute
  <2>3. Carries(c)'
    BY <1>0, <1>6 DEF ChainTypeOK, Budget, Carries, Sending, Replied, Execute
  <2>4. Others
    BY <1>6, Frame DEF ChainInv, ChainTypeOK, Replied, Execute
  <2> QED
    BY Zenon, <2>1, <2>2, <2>3, <2>4
\* So does an attempt whose reply is lost.
<1>7. ASSUME ReplyLost(c)
      PROVE  Kept /\ Others
  <2>1. ChainTypeOK'
    BY <1>0, <1>7 DEF ChainTypeOK, Budget, Sending, Attempts, Key, ReplyLost, Execute, Again, Spent
  <2>2. Budget(c)'
    <3>1. left[c] \in Nat /\ counted[c] \in Nat
      BY <1>0 DEF ChainTypeOK, Attempts
    <3>2. /\ Sending(c) /\ left'[c] = left[c] - 1
          /\ at'[c] = IF left[c] - 1 = 0 THEN "failed" ELSE at[c]
          /\ counted'[c] = counted[c] + 1 /\ flushed' = flushed /\ script'
      BY <1>0, <1>7 DEF ChainTypeOK, ReplyLost, Execute, Again, Spent
    <3> QED
      BY <1>0, <3>1, <3>2 DEF Budget, Allowance, Sending, Attempts
  <2>3. Carries(c)'
    BY Zenon, <1>0, <1>7 DEF ChainTypeOK, Budget, Carries, Sending, ReplyLost, Execute, Again, Spent
  <2>4. Others
    BY <1>7, Frame DEF ChainInv, ChainTypeOK, ReplyLost, Execute, Again, Spent
  <2> QED
    BY Zenon, <2>1, <2>2, <2>3, <2>4
\* An attempt that never arrived costs only itself.
<1>8. ASSUME RequestLost(c)
      PROVE  Kept /\ Others
  <2>1. ChainTypeOK'
    BY <1>0, <1>8 DEF ChainTypeOK, Budget, Sending, Attempts, Key, RequestLost, Again, Spent
  <2>2. Budget(c)'
    <3>1. left[c] \in Nat /\ counted[c] \in Nat
      BY <1>0 DEF ChainTypeOK, Attempts
    <3>2. /\ Sending(c) /\ left'[c] = left[c] - 1
          /\ at'[c] = IF left[c] - 1 = 0 THEN "failed" ELSE at[c]
          /\ counted'[c] = counted[c] /\ flushed' = flushed /\ script' = script
      BY <1>0, <1>8 DEF ChainTypeOK, RequestLost, Again, Spent
    <3> QED
      BY <1>0, <3>1, <3>2 DEF Budget, Allowance, Sending, Attempts
  <2>3. Carries(c)'
    BY Zenon, <1>0, <1>8 DEF ChainTypeOK, Budget, Carries, Sending, RequestLost, Again, Spent
  <2>4. Others
    BY <1>8, Frame DEF ChainInv, ChainTypeOK, RequestLost, Again, Spent
  <2> QED
    BY Zenon, <2>1, <2>2, <2>3, <2>4
\* A fresh set of attempts: nothing was charged yet, or Redis forgot the script.
<1>9. ASSUME NoScript(c)
      PROVE  Kept /\ Others
  <2>1. ChainTypeOK'
    BY <1>0, <1>9 DEF ChainTypeOK, Budget, Sending, Attempts, Key, NoScript, Fallback
  <2>2. Budget(c)'
    BY <1>0, <1>9 DEF ChainTypeOK, Budget, Allowance, Sending, Attempts,
                NoScript, Fallback
  <2>3. Carries(c)'
    BY <1>0, <1>9 DEF ChainTypeOK, Budget, Carries, Sending, NoScript, Fallback
  <2>4. Others
    BY <1>9, Frame DEF ChainInv, ChainTypeOK, NoScript, Fallback
  <2> QED
    BY Zenon, <2>1, <2>2, <2>3, <2>4
\* Giving up charges nothing more.
<1>10. ASSUME Cancel(c)
      PROVE  Kept /\ Others
  <2>1. ChainTypeOK'
    BY <1>0, <1>10 DEF ChainTypeOK, Budget, Sending, Attempts, Key, Cancel
  <2>2. Budget(c)'
    BY <1>0, <1>10 DEF ChainTypeOK, Budget, Allowance, Sending, Attempts,
                Cancel
  <2>3. Carries(c)'
    BY <1>0, <1>10 DEF ChainTypeOK, Budget, Carries, Sending, Cancel
  <2>4. Others
    BY <1>10, Frame DEF ChainInv, ChainTypeOK, Cancel
  <2> QED
    BY Zenon, <2>1, <2>2, <2>3, <2>4
\* The breaker counts a failure.
<1>11. ASSUME RecordFailure(c)
      PROVE  Kept /\ Others
  <2>1. ChainTypeOK'
    BY <1>0, <1>11, Recording DEF ChainTypeOK, Budget, Sending, Attempts, Key, RecordFailure, Answer
  <2>2. Budget(c)'
    BY <1>0, <1>11 DEF ChainTypeOK, Budget, Allowance, Sending, Attempts,
                RecordFailure, Answer
  <2>3. Carries(c)'
    BY <1>0, <1>11 DEF ChainTypeOK, Budget, Carries, Sending, RecordFailure, Answer
  <2>4. Others
    BY <1>11, Frame DEF ChainInv, ChainTypeOK, RecordFailure, Answer
  <2> QED
    BY Zenon, <2>1, <2>2, <2>3, <2>4
\* The breaker closes on a success.
<1>12. ASSUME RecordSuccess(c)
      PROVE  Kept /\ Others
  <2>1. ChainTypeOK'
    BY <1>0, <1>12, Recording DEF ChainTypeOK, Budget, Sending, Attempts, Key, RecordSuccess
  <2>2. Budget(c)'
    BY <1>0, <1>12 DEF ChainTypeOK, Budget, Allowance, Sending, Attempts,
                RecordSuccess
  <2>3. Carries(c)'
    BY <1>0, <1>12 DEF ChainTypeOK, Budget, Carries, Sending, RecordSuccess
  <2>4. Others
    BY <1>12, Frame DEF ChainInv, ChainTypeOK, RecordSuccess
  <2> QED
    BY Zenon, <2>1, <2>2, <2>3, <2>4
\* The cache takes note and the answer stands.
<1>13. ASSUME Remember(c)
      PROVE  Kept /\ Others
  <2>1. ChainTypeOK'
    BY <1>0, <1>13 DEF ChainTypeOK, Budget, Sending, Attempts, Key, Remember, Answer
  <2>2. Budget(c)'
    BY <1>0, <1>13 DEF ChainTypeOK, Budget, Allowance, Sending, Attempts,
                Remember, Answer
  <2>3. Carries(c)'
    BY <1>0, <1>13 DEF ChainTypeOK, Budget, Carries, Sending, Remember, Answer
  <2>4. Others
    BY <1>13, Frame DEF ChainInv, ChainTypeOK, Remember, Answer
  <2> QED
    BY Zenon, <2>1, <2>2, <2>3, <2>4
\* A finished call leaves nothing behind.
<1>14. ASSUME Return(c)
      PROVE  Kept /\ Others
  <2>1. ChainTypeOK'
    BY <1>0, <1>14 DEF ChainTypeOK, Budget, Sending, Attempts, Key, Return
  <2>2. Budget(c)'
    BY <1>0, <1>14 DEF ChainTypeOK, Budget, Allowance, Sending, Attempts,
                Return
  <2>3. Carries(c)'
    BY <1>0, <1>14 DEF ChainTypeOK, Budget, Carries, Sending, Return
  <2>4. Others
    BY <1>14, Frame DEF ChainInv, ChainTypeOK, Return
  <2> QED
    BY Zenon, <2>1, <2>2, <2>3, <2>4
<1>15. Kept /\ Others
  BY Zenon, <1>1, <1>2, <1>3, <1>4, <1>5, <1>6, <1>7, <1>8, <1>9, <1>10, <1>11, <1>12, <1>13, <1>14 DEF Progress
<1> QED
  BY <1>15 DEF ChainInv

\* Time, the sweeper and the outages leave the calls alone.
LEMMA SurroundingsStep ==
  ASSUME ChainInv, (\E k \in Windows : EntryExpires(k)) \/ Sweep \/ CooldownOver \/ Outage
  PROVE  ChainInv'
<1>1. ChainTypeOK'
  BY Zenon DEF ChainInv, ChainTypeOK, EntryExpires, Sweep, CooldownOver, Outage, cache, breaker, redis, call
<1>2. call' = call /\ script' = script
  BY DEF EntryExpires, Sweep, CooldownOver, Outage, cache, breaker, redis
<1>3. /\ at' = at /\ key' = key /\ left' = left /\ verdict' = verdict
      /\ counted' = counted /\ known' = known /\ flushed' = flushed
  BY <1>2 DEF call
<1>4. ASSUME NEW e \in Caller
      PROVE  Budget(e)' /\ Carries(e)'
  <2>1. Budget(e) /\ Carries(e)
    BY DEF ChainInv
  <2> QED
    BY Zenon, <1>2, <1>3, <2>1, Frame
<1> QED
  BY <1>1, <1>4 DEF ChainInv

\* Redis forgets the script: every call that had run it is marked.
LEMMA FlushStep ==
  ASSUME ChainInv, Flush
  PROVE  ChainInv'
<1> USE ChainAssumption
<1>1. ChainTypeOK'
  BY Zenon DEF ChainInv, ChainTypeOK, Flush, cache, breaker
<1>2. ASSUME NEW e \in Caller
      PROVE  Budget(e)' /\ Carries(e)'
  <2>1. Budget(e) /\ Carries(e) /\ left[e] \in Nat /\ counted[e] \in Nat
    BY DEF ChainInv, ChainTypeOK, Attempts
  <2>2. /\ at' = at /\ key' = key /\ left' = left /\ verdict' = verdict
        /\ counted' = counted /\ known' = known
        /\ e \in flushed' <=> e \in flushed \/ (Sending(e) /\ counted[e] > 0)
    BY DEF Flush
  <2>3. Budget(e)'
    BY <2>1, <2>2 DEF Budget, Allowance, Sending, Attempts
  <2>4. Carries(e)'
    BY Zenon, <2>1, <2>2 DEF Carries
  <2> QED
    BY <2>3, <2>4
<1> QED
  BY <1>1, <1>2 DEF ChainInv

\* Before the first call.
LEMMA InitChain == ChainInit => ChainInv
<1> USE ChainAssumption
<1>1. ASSUME ChainInit
      PROVE  ChainTypeOK
  <2>1. probing \in BOOLEAN /\ script \in BOOLEAN /\ up \in BOOLEAN
    BY <1>1, Zenon DEF ChainInit
  <2>2. left \in [Caller -> 0..Attempts] /\ failures \in 0..Threshold
    BY <1>1 DEF ChainInit, Attempts
  <2> QED
    BY <1>1, <2>1, <2>2, Zenon DEF ChainInit, ChainTypeOK
<1>2. ASSUME ChainInit, NEW c \in Caller
      PROVE  Budget(c) /\ Carries(c)
  BY <1>2 DEF ChainInit, Budget, Carries, Allowance, Sending
<1> QED
  BY <1>1, <1>2 DEF ChainInv

\* Whatever the calls, the losses, the outages and the flushes.
THEOREM ChainInvariance == ChainSpec => []ChainInv
<1>1. ChainInv /\ [ChainNext]_chainVars => ChainInv'
  <2> SUFFICES ASSUME ChainInv, [ChainNext]_chainVars
               PROVE  ChainInv'
    OBVIOUS
  <2>1. ASSUME NEW c \in Caller, Progress(c) \/ \E k \in Key : Hit(c, k) \/ Miss(c, k)
        PROVE  ChainInv'
    BY <2>1, CallStep
  <2>2. CASE UNCHANGED chainVars
    <3>1. ChainTypeOK'
      BY <2>2 DEF ChainInv, ChainTypeOK, chainVars, cache, breaker, redis, call
    <3>2. ASSUME NEW e \in Caller
          PROVE  Budget(e)' /\ Carries(e)'
      BY Zenon, <2>2, <3>2, Frame DEF ChainInv, chainVars, cache, breaker, redis, call
    <3> QED
      BY <3>1, <3>2 DEF ChainInv
  <2> QED
    BY <2>1, <2>2, SurroundingsStep, FlushStep DEF ChainNext
<1> QED
  BY <1>1, InitChain, PTL DEF ChainSpec

\* Types of the layers, of Redis and of the calls.
THEOREM ChainTypes == ChainSpec => []ChainTypeOK
<1>1. ChainInv => ChainTypeOK
  BY DEF ChainInv
<1> QED
  BY <1>1, ChainInvariance, PTL

\* A request is charged more than once only for replies that were lost: at most
\* MaxRetries + 1 times, or 2 * MaxRetries + 1 when Redis forgot the script.
THEOREM ChargesBounded == ChainSpec => []ChargedWithinRetries
<1>1. ChainInv => ChargedWithinRetries
  BY Zenon DEF ChainInv, Budget, Allowance, ChargedWithinRetries
<1> QED
  BY <1>1, ChainInvariance, PTL

\* An answer of Redis was charged, one of the cache or of the breaker was not,
\* and Take never answers from the cache.
THEOREM AnswersCharged == ChainSpec => []AnswerIsCharged
<1>1. ChainInv => AnswerIsCharged
  BY DEF ChainInv, Carries, AnswerIsCharged
<1> QED
  BY <1>1, ChainInvariance, PTL

\* A bucket that is cached as blocked is answered there, whatever the breaker,
\* the client and Redis are doing.
THEOREM BlockedStaysOut == ChainSpec => []KnownBlockedStaysOut
<1>1. ChainInv => KnownBlockedStaysOut
  BY DEF ChainInv, ChainTypeOK, Carries, KnownBlockedStaysOut
<1> QED
  BY <1>1, ChainInvariance, PTL

----------------------------------------------------------------------------
(***************************************************************************)
(* The engine's decision and the handler's response, for any number of     *)
(* limiters of any kinds.  The loop's invariant: until a limiter rejects,  *)
(* every enforced refusal lies ahead; once one has, it is the first.  With *)
(* it go the books: one store call and one evaluation per limiter that     *)
(* takes part, and as many store errors as failed_open samples.            *)
(***************************************************************************)
Verdicts == {"allowed", "blocked", "would_block", "failed_open"}

Decisions ==
  [blocked : BOOLEAN, dryRun : BOOLEAN, limiter : Nat, source : Nat, advise : BOOLEAN,
   evaluations : Seq([limiter : Nat, verdict : Verdicts])]

\* A limiter takes part and its store call refuses.
Refuses(i) == Counts(i) /\ world[i] = "refused"

Enforced(i) == Refuses(i) /\ ~limiters[i].dryRun

Typed ==
  /\ Len(limiters) \in Nat
  /\ next \in 1..(Len(limiters) + 1)
  /\ d \in Decisions
  /\ \A i \in 1..Len(limiters) : limiters[i].dryRun \in BOOLEAN /\ limiters[i].advise \in BOOLEAN
                                 /\ world[i] \in Fate

\* Which limiter the decision so far comes from.
LoopInv ==
  /\ ~d.blocked => \A i \in 1..(next - 1) : ~Refuses(i)
  /\ d.blocked =>
        /\ d.source = d.limiter
        /\ d.limiter \in 1..Len(limiters) /\ d.limiter < next
  /\ d.blocked /\ d.dryRun =>
        /\ \A i \in 1..(d.limiter - 1) : ~Refuses(i)
        /\ \A i \in 1..(next - 1) : ~Enforced(i)
  /\ d.blocked /\ ~d.dryRun =>
        /\ Returned /\ Enforced(d.limiter)
        /\ \A i \in 1..(d.limiter - 1) : ~Enforced(i)
        /\ d.advise = limiters[d.limiter].advise

\* What an evaluation adds leaves the rest of the decision alone.
LEMMA EvaluatedFields ==
  ASSUME NEW e \in Decisions, NEW i \in Nat, NEW v \in Verdicts
  PROVE  /\ Evaluated(e, i, v) \in Decisions
         /\ Evaluated(e, i, v).blocked = e.blocked /\ Evaluated(e, i, v).dryRun = e.dryRun
         /\ Evaluated(e, i, v).limiter = e.limiter /\ Evaluated(e, i, v).source = e.source
         /\ Evaluated(e, i, v).advise = e.advise
         /\ Evaluated(e, i, v).evaluations = Append(e.evaluations, [limiter |-> i, verdict |-> v])
<1> DEFINE S == [limiter : Nat, verdict : Verdicts]
           x == [limiter |-> i, verdict |-> v]
<1>1. x \in S /\ e.evaluations \in Seq(S)
  BY DEF Decisions
<1>2. Append(e.evaluations, x) \in Seq(S)
  BY <1>1
<1>3. Evaluated(e, i, v) = [e EXCEPT !.evaluations = Append(e.evaluations, x)]
  BY DEF Evaluated
<1> HIDE DEF S, x
<1>4. Evaluated(e, i, v).evaluations = Append(e.evaluations, x)
  BY <1>3 DEF Decisions
<1>5. /\ Evaluated(e, i, v) \in Decisions
      /\ Evaluated(e, i, v).blocked = e.blocked /\ Evaluated(e, i, v).dryRun = e.dryRun
      /\ Evaluated(e, i, v).limiter = e.limiter /\ Evaluated(e, i, v).source = e.source
      /\ Evaluated(e, i, v).advise = e.advise
  BY Zenon, <1>2, <1>3 DEF Decisions, S
<1> QED
  BY <1>4, <1>5 DEF x

\* An enforced refusal replaces whatever a dry-run limiter left.
LEMMA EnforceFields ==
  ASSUME NEW e \in Decisions, NEW i \in Nat, limiters[i].advise \in BOOLEAN
  PROVE  /\ Enforce(e, i) \in Decisions
         /\ Enforce(e, i).blocked = TRUE /\ Enforce(e, i).dryRun = FALSE
         /\ Enforce(e, i).limiter = i /\ Enforce(e, i).source = i
         /\ Enforce(e, i).advise = limiters[i].advise
         /\ Enforce(e, i).evaluations = e.evaluations
  BY Zenon DEF Enforce, Decisions

\* A dry-run refusal is noted if it is the first.
LEMMA WouldBlockFields ==
  ASSUME NEW e \in Decisions, NEW i \in Nat
  PROVE  /\ WouldBlock(e, i) \in Decisions
         /\ WouldBlock(e, i).evaluations = e.evaluations
         /\ e.blocked => WouldBlock(e, i) = e
         /\ ~e.blocked => /\ WouldBlock(e, i).blocked = TRUE /\ WouldBlock(e, i).dryRun = TRUE
                          /\ WouldBlock(e, i).limiter = i /\ WouldBlock(e, i).source = i
  BY Zenon DEF WouldBlock, Decisions

\* Before the first limiter.
LEMMA EngineStart == EngineInit => Typed /\ LoopInv
<1> SUFFICES ASSUME EngineInit PROVE Typed /\ LoopInv
  OBVIOUS
<1>1. PICK len \in 0..MaxLimiters : limiters \in [1..len -> Kinds] /\ world \in [1..len -> Fate]
  BY DEF EngineInit
<1>2. len \in Nat /\ Len(limiters) = len
  BY <1>1, EngineAssumption
<1>3. d \in Decisions /\ d.blocked = FALSE
  BY DEF EngineInit, NoDecision, NoLimiter, Decisions
<1>4. \A i \in 1..len : limiters[i].dryRun \in BOOLEAN /\ limiters[i].advise \in BOOLEAN /\ world[i] \in Fate
  BY <1>1, EngineAssumption
<1>5. next = 1
  BY DEF EngineInit
<1>6. Typed
  BY <1>2, <1>3, <1>4, <1>5 DEF Typed
<1>7. LoopInv
  BY <1>3, <1>5 DEF LoopInv
<1> QED
  BY <1>6, <1>7

\* The loop moves on over a limiter that does not refuse.
LEMMA PassOver ==
  ASSUME Typed, LoopInv, ~Returned, ~Refuses(next), next' = next + 1,
         UNCHANGED <<limiters, world>>, d' \in Decisions,
         d'.blocked = d.blocked, d'.dryRun = d.dryRun, d'.limiter = d.limiter,
         d'.source = d.source, d'.advise = d.advise
  PROVE  Typed' /\ LoopInv'
<1>1. \A i : (Refuses(i)' <=> Refuses(i)) /\ (Enforced(i)' <=> Enforced(i))
  BY DEF Refuses, Enforced, Counts, Active
<1>2. next \in 1..Len(limiters) /\ ~Enforced(next)
  BY DEF Typed, Returned, Enforced
<1>3. Typed'
  BY <1>2 DEF Typed
<1>4. d.blocked => d.dryRun
  BY DEF LoopInv
<1>5. \A i \in 1..(next' - 1) : i = next \/ i \in 1..(next - 1)
  BY <1>2
<1>6. d.blocked => d.limiter \in 1..Len(limiters) /\ d.limiter < next' /\ d.source = d.limiter
  <2>1. d.blocked => d.limiter \in 1..Len(limiters) /\ d.limiter < next /\ d.source = d.limiter
    BY Zenon DEF LoopInv
  <2> QED
    BY <1>2, <2>1 DEF Typed
<1>7. ~d.blocked => \A i \in 1..(next' - 1) : ~Refuses(i)'
  BY <1>1, <1>5, Zenon DEF LoopInv
<1>8. d.blocked /\ d.dryRun => /\ \A i \in 1..(d.limiter - 1) : ~Refuses(i)'
                               /\ \A i \in 1..(next' - 1) : ~Enforced(i)'
  BY <1>1, <1>2, <1>5, Zenon DEF LoopInv
<1>9. LoopInv'
  BY <1>4, <1>6, <1>7, <1>8, Zenon DEF LoopInv
<1> QED
  BY <1>3, <1>9

\* One round of the loop.
LEMMA EngineStep ==
  ASSUME Typed, LoopInv, EvaluateStep
  PROVE  Typed' /\ LoopInv'
<1> DEFINE i == next
<1>0. ~Returned /\ i \in 1..Len(limiters) /\ UNCHANGED <<limiters, world>> /\ d \in Decisions
  BY DEF EvaluateStep, Continue, StoreError, DryRunRefused, Refused, StoreAllowed, Reaches, Apply,
         Typed, Returned
<1>00. i \in Nat /\ limiters[i].advise \in BOOLEAN
  BY <1>0 DEF Typed
<1>1. CASE Continue
  <2>1. ~Refuses(i)
    BY <1>1 DEF Continue, Skipped, Keyed, Refuses, Counts
  <2> QED
    BY <1>0, <1>1, <2>1, PassOver DEF Continue
<1>2. CASE StoreError
  <2>1. ~Refuses(i) /\ d' = Evaluated(d, i, "failed_open") /\ next' = next + 1
    BY <1>2 DEF StoreError, Reaches, Refuses
  <2>2. /\ d' \in Decisions
        /\ d'.blocked = d.blocked /\ d'.dryRun = d.dryRun /\ d'.limiter = d.limiter
        /\ d'.source = d.source /\ d'.advise = d.advise
    BY <1>0, <1>00, <2>1, EvaluatedFields, Zenon DEF Verdicts
  <2> QED
    BY <1>0, <1>00, <2>1, <2>2, PassOver, Zenon
<1>3. CASE StoreAllowed
  <2>1. ~Refuses(i) /\ d' = Evaluated(d, i, "allowed") /\ next' = next + 1
    BY <1>3 DEF StoreAllowed, Reaches, Refuses
  <2>2. /\ d' \in Decisions
        /\ d'.blocked = d.blocked /\ d'.dryRun = d.dryRun /\ d'.limiter = d.limiter
        /\ d'.source = d.source /\ d'.advise = d.advise
    BY <1>0, <1>00, <2>1, EvaluatedFields, Zenon DEF Verdicts
  <2> QED
    BY <1>0, <1>00, <2>1, <2>2, PassOver, Zenon
<1>4. CASE DryRunRefused
  <2> DEFINE e == Evaluated(d, i, "would_block")
  <2>1. /\ d' = WouldBlock(e, i) /\ next' = next + 1 /\ limiters[i].dryRun
    BY <1>4 DEF DryRunRefused, AfterDryRun
  <2>2. /\ e \in Decisions /\ e.blocked = d.blocked /\ e.dryRun = d.dryRun
        /\ e.limiter = d.limiter /\ e.source = d.source /\ e.advise = d.advise
    BY <1>0, <1>00, EvaluatedFields, Zenon DEF Verdicts
  <2> HIDE DEF e
  <2>3. \A j : (Refuses(j)' <=> Refuses(j)) /\ (Enforced(j)' <=> Enforced(j))
    BY <1>0 DEF Refuses, Enforced, Counts, Active
  <2>4. d' \in Decisions
    BY <1>00, <2>1, <2>2, WouldBlockFields, Zenon
  <2>5. Typed'
    BY <1>0, <2>1, <2>4 DEF Typed
  <2>6. ~Enforced(i)
    BY <2>1 DEF Enforced
  <2>7. d.blocked => d.dryRun
    BY <1>0 DEF LoopInv
  <2>8. \A j \in 1..(next' - 1) : j = i \/ j \in 1..(i - 1)
    BY <1>0, <1>00, <2>1
  <2>9. CASE d.blocked
    <3>1. d' = e
      BY <1>00, <2>1, <2>2, <2>9, WouldBlockFields, Zenon
    <3>2. d.limiter \in 1..Len(limiters) /\ d.limiter < i /\ d.source = d.limiter
      BY <2>9, Zenon DEF LoopInv
    <3>3. d.limiter < next'
      BY <1>00, <2>1, <3>2 DEF Typed
    <3>4. /\ \A j \in 1..(d.limiter - 1) : ~Refuses(j)'
          /\ \A j \in 1..(next' - 1) : ~Enforced(j)'
      BY <2>3, <2>6, <2>7, <2>8, <2>9, Zenon DEF LoopInv
    <3>5. LoopInv'
      BY <1>0, <2>2, <2>7, <2>9, <3>1, <3>2, <3>3, <3>4, ZenonT(30) DEF LoopInv
    <3> QED
      BY <2>5, <3>5
  <2>10. CASE ~d.blocked
    <3>1. d'.blocked = TRUE /\ d'.dryRun = TRUE /\ d'.limiter = i /\ d'.source = i
      BY <1>00, <2>1, <2>2, <2>10, WouldBlockFields, ZenonT(30)
    <3>2. \A j \in 1..(i - 1) : ~Refuses(j) /\ ~Enforced(j)
      BY <2>10 DEF LoopInv, Enforced
    <3> QED
      BY <1>0, <2>1, <2>3, <2>5, <2>6, <2>8, <3>1, <3>2 DEF LoopInv, Typed
  <2> QED
    BY <2>9, <2>10
<1>5. CASE Refused
  <2> DEFINE e == Enforce(d, i)
  <2>1. /\ d' = Evaluated(e, i, "blocked") /\ next' = Len(limiters) + 1
    BY <1>5 DEF Refused
  <2>2. Enforced(i)
    BY <1>5 DEF Refused, Reaches, Skipped, Enforced, Refuses, Counts
  <2>3. /\ e \in Decisions /\ e.blocked = TRUE /\ e.dryRun = FALSE
        /\ e.limiter = i /\ e.source = i /\ e.advise = limiters[i].advise
    BY <1>0, <1>00, EnforceFields, Zenon
  <2> HIDE DEF e
  <2>4. /\ d' \in Decisions /\ d'.blocked = TRUE /\ d'.dryRun = FALSE
        /\ d'.limiter = i /\ d'.source = i /\ d'.advise = limiters[i].advise
    BY <1>00, <2>1, <2>3, EvaluatedFields, ZenonT(30) DEF Verdicts
  <2>5. \A j : (Refuses(j)' <=> Refuses(j)) /\ (Enforced(j)' <=> Enforced(j))
    BY <1>0 DEF Refuses, Enforced, Counts, Active
  <2>6. \A j \in 1..(i - 1) : ~Enforced(j)
    BY <1>0 DEF LoopInv, Enforced
  <2>7. Typed'
    BY <1>0, <2>1, <2>4 DEF Typed
  <2>8. Returned' /\ limiters' = limiters
    BY <1>0, <2>1 DEF Returned, Typed
  <2>9. i \in 1..Len(limiters) /\ i < next'
    BY <1>0, <2>1 DEF Typed
  <2>10. LoopInv'
    BY ZenonT(30), <2>2, <2>4, <2>5, <2>6, <2>8, <2>9 DEF LoopInv
  <2> QED
    BY <2>7, <2>10
<1> QED
  BY <1>1, <1>2, <1>3, <1>4, <1>5 DEF EvaluateStep

\* Once the loop has returned, its decision is the reference's.
LEMMA DeciderFound ==
  ASSUME Typed, LoopInv, Returned
  PROVE  /\ Rejected(d) <=> Decider # NoLimiter
         /\ Rejected(d) => /\ d.limiter = Decider /\ d.source = Decider
                           /\ d.advise = limiters[Decider].advise
<1>1. Refusers = {i \in 1..Len(limiters) : Enforced(i)}
  BY DEF Refusers, Enforced, Refuses
<1>2. next = Len(limiters) + 1
  BY DEF Typed, Returned
<1>3. CASE Rejected(d)
  <2>1. /\ d.limiter \in 1..Len(limiters) /\ Enforced(d.limiter) /\ d.source = d.limiter
        /\ \A i \in 1..(d.limiter - 1) : ~Enforced(i)
        /\ d.advise = limiters[d.limiter].advise
    BY <1>3 DEF Rejected, LoopInv
  <2>2. d.limiter \in Refusers /\ \A j \in Refusers : d.limiter <= j
    BY <1>1, <2>1 DEF Typed
  <2>3. \A i \in Refusers : (\A j \in Refusers : i <= j) => i = d.limiter
    BY <1>1, <2>1, <2>2 DEF Typed
  <2>4. Decider = d.limiter
    BY <2>2, <2>3 DEF Decider
  <2> QED
    BY <1>3, <2>1, <2>4 DEF NoLimiter, Typed
<1>4. CASE ~Rejected(d)
  <2>1. \A i \in 1..Len(limiters) : ~Enforced(i)
    BY <1>2, <1>4 DEF Rejected, LoopInv, Enforced, Typed
  <2>2. Decider = NoLimiter
    BY <1>1, <2>1 DEF Decider
  <2> QED
    BY <1>4, <2>2
<1> QED
  BY <1>3, <1>4

----------------------------------------------------------------------------
Evaluations == [limiter : Nat, verdict : Verdicts]

\* The store calls and the evaluations after the first `upto` limiters: one of
\* each for every limiter that counts, in order.
Booked(cs, evs, upto) ==
  /\ cs \in Seq([limiter : Nat, algorithm : {"Take", "Consume"}]) /\ evs \in Seq(Evaluations)
  /\ Len(cs) = Len(evs)
  /\ \A p \in 1..Len(cs) :
        /\ cs[p].limiter \in 1..upto /\ Counts(cs[p].limiter)
        /\ cs[p].algorithm = Algorithm(limiters[cs[p].limiter])
        /\ evs[p].limiter = cs[p].limiter
        /\ evs[p].verdict = "failed_open" <=> world[cs[p].limiter] = "error"
  /\ \A m, p \in 1..Len(cs) : m < p => cs[m].limiter < cs[p].limiter
  /\ \A i \in 1..upto : Counts(i) => \E p \in 1..Len(cs) : cs[p].limiter = i

\* How far the loop has come, or came.
Visited == IF Rejected(d) THEN d.limiter ELSE next - 1

\* A limiter that does not take part leaves no trace.
LEMMA BookNothing ==
  ASSUME NEW i \in Nat \ {0}, ~Counts(i), NEW cs, NEW evs, Booked(cs, evs, i - 1)
  PROVE  Booked(cs, evs, i)
<1>1. \A j \in 1..i : j = i \/ j \in 1..(i - 1)
  OBVIOUS
<1>2. \A j \in 1..(i - 1) : j \in 1..i
  OBVIOUS
<1> QED
  BY <1>1, <1>2, Zenon DEF Booked

\* One that does leaves one call and one evaluation.
LEMMA BookOne ==
  ASSUME NEW i \in Nat \ {0}, Counts(i), NEW cs, NEW evs, Booked(cs, evs, i - 1),
         NEW v \in Verdicts, v = "failed_open" <=> world[i] = "error"
  PROVE  Booked(Append(cs, [limiter |-> i, algorithm |-> Algorithm(limiters[i])]),
                Append(evs, [limiter |-> i, verdict |-> v]), i)
<1> DEFINE x == [limiter |-> i, algorithm |-> Algorithm(limiters[i])]
           y == [limiter |-> i, verdict |-> v]
           C == [limiter : Nat, algorithm : {"Take", "Consume"}]
           cs1 == Append(cs, x)
           evs1 == Append(evs, y)
           l == Len(cs)
<1>1. x \in C /\ y \in Evaluations
  BY DEF Algorithm, Evaluations
<1>2. cs \in Seq(C) /\ evs \in Seq(Evaluations) /\ Len(evs) = l /\ l \in Nat
  BY DEF Booked
<1>3. x.limiter = i /\ x.algorithm = Algorithm(limiters[i]) /\ y.limiter = i /\ y.verdict = v
  OBVIOUS
<1> HIDE DEF x, y, C
<1>4. /\ cs1 \in Seq(C) /\ evs1 \in Seq(Evaluations)
      /\ Len(cs1) = l + 1 /\ Len(evs1) = l + 1
      /\ \A p \in 1..l : cs1[p] = cs[p] /\ evs1[p] = evs[p]
      /\ cs1[l + 1] = x /\ evs1[l + 1] = y
  BY <1>1, <1>2
<1>5. \A p \in 1..(l + 1) : p \in 1..l \/ p = l + 1
  BY <1>2
<1> HIDE DEF cs1, evs1, l
<1>6. \A p \in 1..l : cs[p].limiter \in 1..i /\ cs[p].limiter < i
  <2>1. \A p \in 1..l : cs[p].limiter \in 1..(i - 1)
    BY DEF Booked, l
  <2> QED
    BY <2>1
<1>7. \A p \in 1..(l + 1) :
        /\ cs1[p].limiter \in 1..i /\ Counts(cs1[p].limiter)
        /\ cs1[p].algorithm = Algorithm(limiters[cs1[p].limiter])
        /\ evs1[p].limiter = cs1[p].limiter
        /\ evs1[p].verdict = "failed_open" <=> world[cs1[p].limiter] = "error"
  <2> SUFFICES ASSUME NEW p \in 1..(l + 1)
               PROVE  /\ cs1[p].limiter \in 1..i /\ Counts(cs1[p].limiter)
                      /\ cs1[p].algorithm = Algorithm(limiters[cs1[p].limiter])
                      /\ evs1[p].limiter = cs1[p].limiter
                      /\ evs1[p].verdict = "failed_open" <=> world[cs1[p].limiter] = "error"
    BY Zenon
  <2>1. CASE p \in 1..l
    <3>1. /\ Counts(cs[p].limiter)
          /\ cs[p].algorithm = Algorithm(limiters[cs[p].limiter])
          /\ evs[p].limiter = cs[p].limiter
          /\ evs[p].verdict = "failed_open" <=> world[cs[p].limiter] = "error"
      BY <2>1, Zenon DEF Booked, l
    <3>2. cs1[p] = cs[p] /\ evs1[p] = evs[p] /\ cs[p].limiter \in 1..i
      BY <1>4, <1>6, <2>1, Zenon
    <3> QED
      BY <3>1, <3>2, Zenon
  <2>2. CASE p = l + 1
    <3>1. i \in 1..i
      OBVIOUS
    <3> QED
      BY <1>3, <1>4, <2>2, <3>1, Zenon
  <2> QED
    BY <1>5, <2>1, <2>2
<1>8. \A m, p \in 1..(l + 1) : m < p => cs1[m].limiter < cs1[p].limiter
  <2> SUFFICES ASSUME NEW m \in 1..(l + 1), NEW p \in 1..(l + 1), m < p
               PROVE  cs1[m].limiter < cs1[p].limiter
    OBVIOUS
  <2>1. m \in 1..l
    BY <1>2
  <2>2. CASE p \in 1..l
    BY <1>4, <2>1, <2>2, Zenon DEF Booked, l
  <2>3. CASE p = l + 1
    BY <1>3, <1>4, <1>6, <2>1, <2>3, Zenon
  <2> QED
    BY <1>5, <2>2, <2>3
<1>9. \A j \in 1..i : Counts(j) => \E p \in 1..(l + 1) : cs1[p].limiter = j
  <2> SUFFICES ASSUME NEW j \in 1..i, Counts(j)
               PROVE  \E p \in 1..(l + 1) : cs1[p].limiter = j
    OBVIOUS
  <2>1. CASE j = i
    <3>1. l + 1 \in 1..(l + 1)
      BY <1>2
    <3> QED
      BY <1>3, <1>4, <2>1, <3>1, Zenon
  <2>2. CASE j # i
    <3>1. j \in 1..(i - 1)
      BY <2>2
    <3>2. PICK p \in 1..l : cs[p].limiter = j
      BY <3>1, Zenon DEF Booked, l
    <3>3. p \in 1..(l + 1)
      BY <1>2
    <3> QED
      BY <1>4, <3>2, <3>3, Zenon
  <2> QED
    BY <2>1, <2>2
<1>10. Booked(cs1, evs1, i)
  BY <1>4, <1>7, <1>8, <1>9, Zenon DEF Booked, C
<1> QED
  BY <1>10 DEF cs1, evs1, x, y

\* The loop books as it goes.
LEMMA BookStep ==
  ASSUME Typed, LoopInv, EvaluateStep, Booked(calls, d.evaluations, Visited)
  PROVE  Booked(calls, d.evaluations, Visited)'
<1> DEFINE i == next
<1>0. ~Returned /\ i \in 1..Len(limiters) /\ UNCHANGED <<limiters, world>> /\ d \in Decisions
  BY DEF EvaluateStep, Continue, StoreError, DryRunRefused, Refused, StoreAllowed, Reaches, Apply,
         Typed, Returned
<1>1. i \in Nat \ {0} /\ limiters[i].advise \in BOOLEAN
  BY <1>0 DEF Typed
<1>2. Booked(calls, d.evaluations, i - 1)
  <2>1. ~Rejected(d)
    BY Zenon, <1>0 DEF Rejected, LoopInv
  <2> QED
    BY <2>1 DEF Visited
<1>3. ASSUME NEW v \in Verdicts, v = "failed_open" <=> world[i] = "error", Counts(i), Apply(i),
             d'.evaluations = Append(d.evaluations, [limiter |-> i, verdict |-> v])
      PROVE  Booked(calls', d'.evaluations, i)
  BY <1>1, <1>2, <1>3, BookOne, Zenon DEF Apply
<1>4. Booked(calls', d'.evaluations, i)
  <2>1. CASE Continue
    <3>1. ~Counts(i) /\ calls' = calls /\ d' = d
      BY <2>1 DEF Continue, Skipped, Keyed, Counts
    <3> QED
      BY <1>1, <1>2, <3>1, BookNothing
  <2>2. CASE StoreError
    <3>1. Counts(i) /\ Apply(i) /\ world[i] = "error" /\ d' = Evaluated(d, i, "failed_open")
      BY <2>2 DEF StoreError, Reaches, Skipped, Counts
    <3>2. d'.evaluations = Append(d.evaluations, [limiter |-> i, verdict |-> "failed_open"])
      BY Zenon, <1>0, <1>1, <3>1, EvaluatedFields DEF Verdicts
    <3> QED
      BY <1>3, <3>1, <3>2 DEF Verdicts
  <2>3. CASE StoreAllowed
    <3>1. Counts(i) /\ Apply(i) /\ world[i] = "allowed" /\ d' = Evaluated(d, i, "allowed")
      BY <2>3 DEF StoreAllowed, Reaches, Skipped, Counts
    <3>2. d'.evaluations = Append(d.evaluations, [limiter |-> i, verdict |-> "allowed"])
      BY Zenon, <1>0, <1>1, <3>1, EvaluatedFields DEF Verdicts
    <3> QED
      BY <1>3, <3>1, <3>2 DEF Verdicts
  <2>4. CASE DryRunRefused
    <3> DEFINE e == Evaluated(d, i, "would_block")
    <3>1. Counts(i) /\ Apply(i) /\ world[i] = "refused" /\ d' = WouldBlock(e, i)
      BY Zenon, <2>4 DEF DryRunRefused, Reaches, Skipped, Counts
    <3>2. e \in Decisions
          /\ e.evaluations = Append(d.evaluations, [limiter |-> i, verdict |-> "would_block"])
      BY <1>0, <1>1, EvaluatedFields, Zenon DEF Verdicts
    <3> HIDE DEF e
    <3>3. d'.evaluations = e.evaluations
      BY <1>1, <3>1, <3>2, WouldBlockFields, Zenon
    <3> QED
      BY <1>3, <3>1, <3>2, <3>3 DEF Verdicts
  <2>5. CASE Refused
    <3> DEFINE e == Enforce(d, i)
    <3>1. Counts(i) /\ Apply(i) /\ world[i] = "refused" /\ d' = Evaluated(e, i, "blocked")
      BY <2>5 DEF Refused, Reaches, Skipped, Counts
    <3>2. e \in Decisions /\ e.evaluations = d.evaluations
      BY <1>0, <1>1, EnforceFields, Zenon
    <3> HIDE DEF e
    <3>3. d'.evaluations = Append(e.evaluations, [limiter |-> i, verdict |-> "blocked"])
      BY <1>1, <3>1, <3>2, EvaluatedFields, Zenon DEF Verdicts
    <3> QED
      BY <1>3, <3>1, <3>2, <3>3 DEF Verdicts
  <2> QED
    BY <2>1, <2>2, <2>3, <2>4, <2>5 DEF EvaluateStep
<1>5. Visited' = i
  <2>1. CASE Refused
    <3> DEFINE e == Enforce(d, i)
    <3>1. d' = Evaluated(e, i, "blocked")
      BY <2>1 DEF Refused
    <3>2. e \in Decisions /\ e.blocked = TRUE /\ e.dryRun = FALSE /\ e.limiter = i
      BY <1>0, <1>1, EnforceFields, Zenon
    <3> HIDE DEF e
    <3>3. d'.blocked = TRUE /\ d'.dryRun = FALSE /\ d'.limiter = i
      BY <1>1, <3>1, <3>2, EvaluatedFields, Zenon DEF Verdicts
    <3> QED
      BY <3>3 DEF Visited, Rejected
  <2>2. CASE ~Refused
    <3>1. next' = i + 1
      BY <2>2 DEF EvaluateStep, Continue, StoreError, DryRunRefused, AfterDryRun, StoreAllowed
    <3>2. LoopInv'
      BY EngineStep
    <3>3. \A j \in 1..(i - 1) : ~Enforced(j)
      BY <1>0, Zenon DEF LoopInv, Enforced
    <3>4. CASE Rejected(d)'
      <4>1. /\ d'.limiter \in 1..Len(limiters)' /\ d'.limiter < next'
            /\ (d'.blocked /\ ~d'.dryRun => Enforced(d.limiter)')
        BY <3>2, <3>4, Zenon DEF LoopInv, Rejected
      <4>2. Enforced(d.limiter)' <=> Enforced(d'.limiter)
        BY <1>0 DEF Enforced, Refuses, Counts, Active
      <4>3. Enforced(d'.limiter)
        BY <3>4, <4>1, <4>2 DEF Rejected
      <4>4. d'.limiter \in 1..i
        BY <1>0, <1>1, <3>1, <4>1 DEF Typed
      <4>5. d'.limiter = i
        BY <1>1, <3>3, <4>3, <4>4
      <4> QED
        BY <3>4, <4>5 DEF Visited
    <3>5. CASE ~Rejected(d)'
      BY <1>1, <3>1, <3>5 DEF Visited
    <3> QED
      BY <3>4, <3>5
  <2> QED
    BY <2>1, <2>2
<1>6. Booked(calls, d.evaluations, Visited)' <=> Booked(calls', d'.evaluations, Visited')
  BY <1>0 DEF Booked, Counts, Active, Algorithm
<1> QED
  BY <1>4, <1>5, <1>6

\* Nothing is booked before the first limiter.
LEMMA BookStart == EngineInit => Booked(calls, d.evaluations, Visited)
<1> SUFFICES ASSUME EngineInit
             PROVE  Booked(calls, d.evaluations, Visited)
  OBVIOUS
<1>1. calls = <<>> /\ d.evaluations = <<>> /\ Visited = 0
  BY DEF EngineInit, NoDecision, Visited, Rejected
<1> QED
  BY <1>1 DEF Booked

\* The limiters visited are the ones the reference consults.
LEMMA AllVisited ==
  ASSUME Typed, LoopInv, Returned
  PROVE  /\ Consulted = {i \in 1..Visited : Counts(i)}
         /\ Visited \in 0..Len(limiters)
<1>1. next = Len(limiters) + 1 /\ Len(limiters) \in Nat
  BY DEF Typed, Returned
<1>2. CASE Rejected(d)
  <2>1. d.limiter \in 1..Len(limiters) /\ Decider = d.limiter /\ Visited = d.limiter
    BY <1>2, DeciderFound DEF LoopInv, Rejected, Visited
  <2>2. Decider # NoLimiter
    BY <1>1, <2>1 DEF NoLimiter
  <2> QED
    BY <1>1, <2>1, <2>2 DEF Consulted
<1>3. CASE ~Rejected(d)
  <2>1. Decider = NoLimiter /\ Visited = Len(limiters)
    BY <1>1, <1>3, DeciderFound DEF Visited
  <2> QED
    BY <1>1, <2>1 DEF Consulted
<1> QED
  BY <1>2, <1>3

----------------------------------------------------------------------------
AllSamples == [limiter : Int, verdict : Verdicts]

\* The samples that stand for a store error.
ErrorsAt(samples) ==
  {k \in 1..Len(samples) : samples[k].verdict = "failed_open" /\ samples[k].limiter # BodyLabel}

\* They are finitely many.
LEMMA FiniteErrors ==
  ASSUME NEW samples \in Seq(AllSamples)
  PROVE  IsFiniteSet(ErrorsAt(samples)) /\ Cardinality(ErrorsAt(samples)) \in Nat
<1>1. IsFiniteSet(1..Len(samples))
  BY FS_Interval
<1>2. ErrorsAt(samples) \in SUBSET (1..Len(samples))
  BY DEF ErrorsAt
<1> QED
  BY <1>1, <1>2, FS_Subset, FS_CardinalityType

\* One more sample.
LEMMA OneSample ==
  ASSUME NEW samples \in Seq(AllSamples), NEW x \in AllSamples
  PROVE  /\ Append(samples, x) \in Seq(AllSamples)
         /\ ErrorsAt(Append(samples, x)) =
              IF x.verdict = "failed_open" /\ x.limiter # BodyLabel
              THEN ErrorsAt(samples) \cup {Len(samples) + 1} ELSE ErrorsAt(samples)
<1> DEFINE l == Len(samples)
           now == Append(samples, x)
<1>1. /\ now \in Seq(AllSamples) /\ l \in Nat /\ Len(now) = l + 1 /\ now[l + 1] = x
      /\ \A k \in 1..l : now[k] = samples[k]
  OBVIOUS
<1>2. \A k : k \in 1..(l + 1) <=> k \in 1..l \/ k = l + 1
  BY <1>1
<1> HIDE DEF l, now
<1>3. ErrorsAt(now) = IF x.verdict = "failed_open" /\ x.limiter # BodyLabel
                      THEN ErrorsAt(samples) \cup {l + 1} ELSE ErrorsAt(samples)
  BY <1>1, <1>2, Zenon DEF ErrorsAt, l
<1> QED
  BY <1>1, <1>3 DEF l, now

\* A panic's sample is one more error.
LEMMA PanicSample ==
  ASSUME NEW samples \in Seq(AllSamples)
  PROVE  LET now == Append(samples, Sample(PanicLabel, "failed_open"))
         IN  now \in Seq(AllSamples) /\ Cardinality(ErrorsAt(now)) = Cardinality(ErrorsAt(samples)) + 1
<1> DEFINE x == Sample(PanicLabel, "failed_open")
           now == Append(samples, x)
<1>1. x \in AllSamples /\ x.verdict = "failed_open" /\ x.limiter # BodyLabel
  BY DEF Sample, PanicLabel, BodyLabel, AllSamples, Verdicts
<1> HIDE DEF x
<1>2. now \in Seq(AllSamples) /\ ErrorsAt(now) = ErrorsAt(samples) \cup {Len(samples) + 1}
  BY <1>1, OneSample
<1>3. Len(samples) + 1 \notin ErrorsAt(samples)
  BY DEF ErrorsAt
<1>4. Cardinality(ErrorsAt(samples) \cup {Len(samples) + 1}) = Cardinality(ErrorsAt(samples)) + 1
  <2> DEFINE E == ErrorsAt(samples)
             p == Len(samples) + 1
  <2>1. IsFiniteSet(E)
    BY FiniteErrors
  <2> HIDE DEF E, p
  <2>2. Cardinality(E \cup {p}) = IF p \in E THEN Cardinality(E) ELSE Cardinality(E) + 1
    BY <2>1, FS_AddElement, Zenon
  <2> QED
    BY <1>3, <2>2 DEF E, p
<1>5. now \in Seq(AllSamples) /\ Cardinality(ErrorsAt(now)) = Cardinality(ErrorsAt(samples)) + 1
  BY <1>2, <1>4
<1> QED
  BY <1>5, Zenon DEF x

\* What the samples of a decision add to samples without errors is the
\* decision's own errors, moved up.
LEMMA RecordSamples ==
  ASSUME NEW samples \in Seq(AllSamples), ErrorsAt(samples) = {}, NEW e \in Decisions
  PROVE  /\ samples \o Samples(e) \in Seq(AllSamples)
         /\ Cardinality(ErrorsAt(samples \o Samples(e))) = Errors(e.evaluations)
         /\ Errors(e.evaluations) \in Nat
         /\ Errors(e.evaluations) > 0 <=> FailedOpen(e)
<1> DEFINE s == Samples(e)
           l == Len(samples)
           now == samples \o s
           f == [k \in ErrorsAt(s) |-> l + k]
<1>0. e.evaluations \in Seq(Evaluations)
  BY DEF Decisions, Evaluations
<1>1. e.evaluations \in Seq(AllSamples)
        /\ \A k \in 1..Len(e.evaluations) : e.evaluations[k].limiter # BodyLabel
  <2> DEFINE q == e.evaluations
  <2> HIDE DEF q
  <2>1. q \in Seq(Evaluations)
    BY <1>0 DEF q
  <2>2. \A k \in 1..Len(q) : q[k] \in Evaluations
    BY <2>1
  <2>3. \A x \in Evaluations : x \in AllSamples /\ x.limiter # BodyLabel
    BY DEF Evaluations, AllSamples, BodyLabel
  <2>4. q \in Seq(AllSamples)
    BY <2>1, <2>2, <2>3
  <2> QED
    BY <2>2, <2>3, <2>4 DEF q
<1>2. ErrorsAt(e.evaluations)
        = {k \in 1..Len(e.evaluations) : e.evaluations[k].verdict = "failed_open"}
  BY <1>1, Zenon DEF ErrorsAt
<1>3. Errors(e.evaluations) = Cardinality(ErrorsAt(e.evaluations))
  BY <1>2 DEF Errors
<1>4. s \in Seq(AllSamples) /\ ErrorsAt(s) = ErrorsAt(e.evaluations)
  <2>1. CASE e.evaluations = <<>>
    <3>1. s = <<Sample(NoLimiter, "allowed")>>
      BY <2>1 DEF Samples
    <3>2. Sample(NoLimiter, "allowed") \in AllSamples /\ Sample(NoLimiter, "allowed").verdict = "allowed"
      BY DEF Sample, NoLimiter, AllSamples, Verdicts
    <3>3. s \in Seq(AllSamples) /\ Len(s) = 1 /\ s[1].verdict = "allowed"
      BY <3>1, <3>2
    <3>4. ErrorsAt(s) = {}
      BY <3>3 DEF ErrorsAt
    <3>5. ErrorsAt(e.evaluations) = {}
      BY <2>1 DEF ErrorsAt
    <3> QED
      BY <3>3, <3>4, <3>5
  <2>2. CASE e.evaluations # <<>>
    BY <1>1, <2>2 DEF Samples
  <2> QED
    BY <2>1, <2>2
<1> HIDE DEF s
<1>5. /\ now \in Seq(AllSamples) /\ l \in Nat /\ Len(s) \in Nat /\ Len(now) = l + Len(s)
      /\ \A k \in 1..l : now[k] = samples[k]
      /\ \A k \in 1..Len(s) : now[l + k] = s[k]
  BY <1>4
<1> HIDE DEF l, now
<1>6. \A k \in ErrorsAt(now) : k - l \in ErrorsAt(s)
  <2> SUFFICES ASSUME NEW k \in ErrorsAt(now)
               PROVE  k - l \in ErrorsAt(s)
    OBVIOUS
  <2>1. k \in 1..Len(now) /\ now[k].verdict = "failed_open" /\ now[k].limiter # BodyLabel
    BY DEF ErrorsAt
  <2>2. k \notin 1..l
    <3>1. ASSUME k \in 1..l
          PROVE  FALSE
      <4>1. k \in ErrorsAt(samples)
        BY <1>5, <2>1, <3>1, Zenon DEF ErrorsAt, l
      <4> QED
        BY <4>1
    <3> QED
      BY <3>1
  <2>3. k - l \in 1..Len(s) /\ l + (k - l) = k
    BY <1>5, <2>1, <2>2
  <2>4. s[k - l] = now[k]
    BY <1>5, <2>3, Zenon
  <2> QED
    BY <2>1, <2>3, <2>4, Zenon DEF ErrorsAt
<1>7. \A k \in ErrorsAt(s) : k \in Nat /\ l + k \in ErrorsAt(now)
  BY <1>5 DEF ErrorsAt
<1>8. f \in Bijection(ErrorsAt(s), ErrorsAt(now))
  <2>1. f \in [ErrorsAt(s) -> ErrorsAt(now)]
    BY <1>7
  <2>2. \A a, b \in ErrorsAt(s) : f[a] = f[b] => a = b
    BY <1>5, <1>7
  <2>3. \A t \in ErrorsAt(now) : \E k \in ErrorsAt(s) : f[k] = t
    <3> SUFFICES ASSUME NEW t \in ErrorsAt(now)
                 PROVE  \E k \in ErrorsAt(s) : f[k] = t
      OBVIOUS
    <3>1. t - l \in ErrorsAt(s) /\ t \in Int
      BY <1>5, <1>6 DEF ErrorsAt
    <3>2. f[t - l] = t
      BY <1>5, <3>1
    <3> QED
      BY Zenon, <3>1, <3>2
  <2> QED
    BY <2>1, <2>2, <2>3 DEF Bijection, Injection, Surjection, IsInjective
<1>9. Cardinality(ErrorsAt(now)) = Cardinality(ErrorsAt(s)) /\ IsFiniteSet(ErrorsAt(s))
  <2>1. ExistsBijection(ErrorsAt(s), ErrorsAt(now))
    BY <1>8 DEF ExistsBijection
  <2> QED
    BY <1>4, <2>1, FiniteErrors, FS_Bijection
<1>10. Errors(e.evaluations) \in Nat
  BY <1>1, <1>3, FiniteErrors
<1>11. Errors(e.evaluations) > 0 <=> FailedOpen(e)
  <2>1. Cardinality(ErrorsAt(e.evaluations)) = 0 <=> ErrorsAt(e.evaluations) = {}
    BY <1>4, <1>9, FS_EmptySet
  <2>2. ErrorsAt(e.evaluations) # {} <=> FailedOpen(e)
    BY <1>2, Zenon DEF FailedOpen
  <2> QED
    BY <1>3, <1>10, <2>1, <2>2
<1> QED
  BY <1>3, <1>4, <1>5, <1>9, <1>10, <1>11 DEF now, s

----------------------------------------------------------------------------
\* What the handler knows of the decision at each stage.
Stages ==
  /\ pc \in {"read", "evaluate", "respond"} => status = "none" /\ panicked = "no"
  /\ pc = "respond" => Returned
  /\ pc = "write" =>
        /\ Returned /\ Rejected(d) /\ panicked = "no"
        /\ status = "rejected" /\ response = BlockedResponse(d)
  /\ pc = "done" /\ panicked \in {"no", "write"} =>
        /\ Returned
        /\ status = "rejected" <=> Rejected(d)
        /\ Rejected(d) => response = BlockedResponse(d)
  /\ pc = "done" /\ panicked \notin {"no", "write"} => status = "ok"
  /\ pc \in {"read", "evaluate", "respond", "write", "done"}

\* What the metrics say of store errors at each stage.
Ledger ==
  /\ decisions \in Seq(AllSamples)
  /\ storeErrors = Cardinality(ErrorsAt(decisions))
  /\ pc = "read" => decisions = <<>>
  /\ pc \in {"read", "evaluate"} => ErrorsAt(decisions) = {}
  /\ pc \in {"respond", "write"} \/ (pc = "done" /\ panicked = "no") =>
        (storeErrors > 0 <=> FailedOpen(d))
  /\ pc = "done" /\ panicked # "no" => storeErrors > 0

IInv == Typed /\ LoopInv /\ Stages /\ Booked(calls, d.evaluations, Visited) /\ Ledger

\* Before the request is read.
LEMMA LedgerStart == Init => Ledger
<1>1. <<>> \in Seq(AllSamples) /\ ErrorsAt(<<>>) = {}
  BY DEF ErrorsAt
<1> QED
  BY <1>1, FS_EmptySet DEF Init, Ledger

\* A panic leaves at least one error.
LEMMA PanicLedger ==
  ASSUME Ledger, Stages, Panic
  PROVE  Ledger'
<1>1. /\ decisions' = Append(decisions, Sample(PanicLabel, "failed_open"))
      /\ storeErrors' = storeErrors + 1 /\ pc' = "done" /\ panicked' = pc /\ pc # "done"
  BY DEF Panic
<1>2. decisions' \in Seq(AllSamples)
      /\ Cardinality(ErrorsAt(decisions')) = Cardinality(ErrorsAt(decisions)) + 1
  BY <1>1, PanicSample DEF Ledger
<1>3. storeErrors \in Nat /\ storeErrors = Cardinality(ErrorsAt(decisions))
  BY FiniteErrors DEF Ledger
<1>4. storeErrors' = Cardinality(ErrorsAt(decisions')) /\ storeErrors' > 0
  BY <1>1, <1>2, <1>3
<1>5. panicked' # "no"
  BY <1>1 DEF Stages
<1> QED
  BY Zenon, <1>1, <1>2, <1>4, <1>5 DEF Ledger, ErrorsAt, BodyLabel

\* Recording a decision books its errors.
LEMMA RecordLedger ==
  ASSUME Ledger, d \in Decisions, Record
  PROVE  Ledger'
<1>1. /\ decisions' = decisions \o Samples(d) /\ storeErrors' = storeErrors + Errors(d.evaluations)
      /\ pc = "evaluate" /\ pc' = "respond" /\ d' = d
  BY DEF Record, engineVars
<1>2. ErrorsAt(decisions) = {} /\ decisions \in Seq(AllSamples)
  BY <1>1 DEF Ledger
<1>3. storeErrors = 0
  BY <1>2, FS_EmptySet DEF Ledger
<1>4. /\ decisions' \in Seq(AllSamples)
      /\ Cardinality(ErrorsAt(decisions')) = Errors(d.evaluations)
      /\ Errors(d.evaluations) \in Nat
      /\ Errors(d.evaluations) > 0 <=> FailedOpen(d)
  BY <1>1, <1>2, RecordSamples
<1>5. storeErrors' = Errors(d.evaluations)
  BY <1>1, <1>3, <1>4
<1>6. FailedOpen(d)' <=> FailedOpen(d)
  BY <1>1 DEF FailedOpen
<1>7. ErrorsAt(decisions)' = ErrorsAt(decisions')
  BY DEF ErrorsAt, BodyLabel
<1> QED
  BY <1>1, <1>4, <1>5, <1>6, <1>7 DEF Ledger

\* The metrics stay true through every step.
LEMMA LedgerStep ==
  ASSUME IInv, [Next]_vars
  PROVE  Ledger'
<1>0. ErrorsAt(decisions)' = ErrorsAt(decisions')
  BY DEF ErrorsAt, BodyLabel
<1>1. CASE ReadBody
  <2>1. decisions = <<>> /\ pc' = "evaluate" /\ storeErrors' = storeErrors
    BY <1>1 DEF ReadBody, IInv, Ledger
  <2>2. decisions' = decisions \/ decisions' = Append(decisions, Sample(BodyLabel, "failed_open"))
    BY <1>1 DEF ReadBody
  <2>3. Sample(BodyLabel, "failed_open") \in AllSamples
        /\ Sample(BodyLabel, "failed_open").limiter = BodyLabel
    BY DEF Sample, BodyLabel, AllSamples, Verdicts
  <2>4. decisions \in Seq(AllSamples) /\ ErrorsAt(decisions) = {}
        /\ storeErrors = Cardinality(ErrorsAt(decisions))
    BY <1>1 DEF ReadBody, IInv, Ledger
  <2>5. decisions' \in Seq(AllSamples) /\ ErrorsAt(decisions') = ErrorsAt(decisions)
    BY <2>2, <2>3, <2>4, OneSample, Zenon
  <2> QED
    BY <1>0, <2>1, <2>4, <2>5 DEF Ledger
<1>2. CASE Evaluate
  <2>1. pc = "evaluate" /\ pc' = pc /\ decisions' = decisions /\ storeErrors' = storeErrors
    BY <1>2 DEF Evaluate, handlerVars
  <2> QED
    BY <1>0, <2>1 DEF IInv, Ledger
<1>3. CASE Record
  BY <1>3, RecordLedger DEF IInv, Typed
<1>4. CASE Panic
  BY <1>4, PanicLedger DEF IInv
<1>5. CASE WriteBlocked \/ WriteBody \/ WriteAllowed
  <2>1. /\ decisions' = decisions /\ storeErrors' = storeErrors /\ d' = d /\ panicked' = panicked
        /\ pc \in {"respond", "write"} /\ pc' \in {"write", "done"} /\ panicked = "no"
    BY <1>5 DEF WriteBlocked, WriteBody, WriteAllowed, engineVars, IInv, Stages
  <2>2. FailedOpen(d)' <=> FailedOpen(d)
    BY <2>1 DEF FailedOpen
  <2> QED
    BY <1>0, <2>1, <2>2 DEF IInv, Ledger
<1>6. CASE UNCHANGED vars
  <2>1. /\ decisions' = decisions /\ storeErrors' = storeErrors /\ d' = d /\ panicked' = panicked
        /\ pc' = pc
    BY <1>6 DEF vars, handlerVars, engineVars
  <2>2. FailedOpen(d)' <=> FailedOpen(d)
    BY <2>1 DEF FailedOpen
  <2> QED
    BY <1>0, <2>1, <2>2 DEF IInv, Ledger
<1> QED
  BY <1>1, <1>2, <1>3, <1>4, <1>5, <1>6 DEF Next

\* A step of the handler proper leaves the engine's state.
LEMMA EngineFrame ==
  ASSUME Typed, LoopInv, UNCHANGED engineVars
  PROVE  Typed' /\ LoopInv' /\ (Returned' <=> Returned) /\ (Rejected(d)' <=> Rejected(d))
         /\ BlockedResponse(d)' = BlockedResponse(d)
         /\ Booked(calls, d.evaluations, Visited)' = Booked(calls, d.evaluations, Visited)
<1>1. limiters' = limiters /\ world' = world /\ next' = next /\ d' = d /\ calls' = calls
  BY DEF engineVars
<1>2. Booked(calls, d.evaluations, Visited)' = Booked(calls, d.evaluations, Visited)
  BY <1>1 DEF Booked, Visited, Rejected, Counts, Active, Algorithm
<1> QED
  BY <1>1, <1>2, Zenon DEF Typed, LoopInv, Returned, Rejected, BlockedResponse, Refuses, Enforced, Counts, Active

\* Each step of the handler.
LEMMA HandlerStep ==
  ASSUME IInv, [Next]_vars
  PROVE  IInv'
<1>0. Ledger'
  BY LedgerStep
<1>1. CASE Evaluate
  <2>1. /\ pc = "evaluate" /\ pc' = pc /\ status' = status /\ response' = response
        /\ panicked' = panicked
    BY <1>1 DEF Evaluate, handlerVars
  <2>2. Typed' /\ LoopInv'
    BY <1>1, EngineStep DEF IInv, Evaluate
  <2>3. Stages'
    BY <2>1 DEF IInv, Stages
  <2>4. Booked(calls, d.evaluations, Visited)'
    BY <1>1, BookStep DEF IInv, Evaluate
  <2> QED
    BY <1>0, <2>2, <2>3, <2>4 DEF IInv
<1>2. CASE UNCHANGED engineVars
  <2>1. Typed' /\ LoopInv' /\ (Returned' <=> Returned) /\ (Rejected(d)' <=> Rejected(d))
        /\ BlockedResponse(d)' = BlockedResponse(d)
        /\ Booked(calls, d.evaluations, Visited)'
    BY Zenon, <1>2, EngineFrame DEF IInv
  <2>2. CASE ReadBody
    BY <1>0, <2>1, <2>2, Zenon DEF IInv, Stages, ReadBody
  <2>3. CASE Record
    BY <1>0, <2>1, <2>3, Zenon DEF IInv, Stages, Record
  <2>4. CASE WriteBlocked
    BY <1>0, <2>1, <2>4, Zenon DEF IInv, Stages, WriteBlocked, Rejects
  <2>5. CASE WriteBody
    BY <1>0, <2>1, <2>5, Zenon DEF IInv, Stages, WriteBody
  <2>6. CASE WriteAllowed
    BY <1>0, <2>1, <2>6, Zenon DEF IInv, Stages, WriteAllowed, Rejects
  <2>7. CASE Panic
    BY <1>0, <2>1, <2>7, Zenon DEF IInv, Stages, Panic, Recovered
  <2>8. CASE UNCHANGED vars
    BY <1>0, <2>1, <2>8, Zenon DEF IInv, Stages, vars, handlerVars
  <2>9. CASE Evaluate
    BY <1>1, <2>9
  <2> QED
    BY <2>2, <2>3, <2>4, <2>5, <2>6, <2>7, <2>8, <2>9 DEF Next
<1> QED
  BY <1>1, <1>2 DEF Next, vars, ReadBody, Record, WriteBlocked, WriteBody, WriteAllowed, Panic

\* Whatever the limiters, the request, the store and a panic do.
THEOREM Invariance == Spec => []IInv
<1>1. Init => IInv
  BY EngineStart, BookStart, LedgerStart DEF Init, IInv, Stages
<1> QED
  BY <1>1, HandlerStep, PTL DEF Spec

\* First enforced refusal wins, dry-run limiters decide nothing, and a dry-run
\* verdict is the first refusal, told of the limiter that made it.
THEOREM DecisionCorrect == Spec => []DecisionMatchesReference
<1>1. IInv => DecisionMatchesReference
  <2>1. ASSUME IInv, Returned, d.blocked, d.dryRun
        PROVE  /\ d.source = d.limiter
               /\ \A i \in 1..(d.limiter - 1) : Counts(i) => world[i] # "refused"
    BY <2>1, Zenon DEF IInv, LoopInv, Refuses
  <2> QED
    BY <2>1, DeciderFound DEF IInv, DecisionMatchesReference
<1> QED
  BY <1>1, Invariance, PTL

\* Fail open: a request is rejected exactly when an enforced limiter's store
\* call refused it and nothing panicked before the status went out.
THEOREM FailsOpen == Spec => []RejectsOnlyOnRefusal
<1>1. IInv => RejectsOnlyOnRefusal
  <2> SUFFICES ASSUME IInv, pc = "done"
               PROVE  status = "rejected" <=> Decider # NoLimiter /\ panicked \in {"no", "write"}
    BY DEF RejectsOnlyOnRefusal
  <2>1. CASE panicked \in {"no", "write"}
    <3>1. Returned /\ (status = "rejected" <=> Rejected(d))
      BY <2>1 DEF IInv, Stages
    <3>2. Rejected(d) <=> Decider # NoLimiter
      BY <3>1, DeciderFound DEF IInv
    <3> QED
      BY <2>1, <3>1, <3>2
  <2>2. CASE panicked \notin {"no", "write"}
    BY <2>2 DEF IInv, Stages
  <2> QED
    BY <2>1, <2>2
<1> QED
  BY <1>1, Invariance, PTL

\* A rejection carries the deciding limiter's response.
THEOREM RightResponse == Spec => []ResponseIsDeciders
<1>1. IInv => ResponseIsDeciders
  <2> SUFFICES ASSUME IInv, pc = "done", status = "rejected"
               PROVE  response = [limiter |-> Decider, retryAfter |-> limiters[Decider].advise]
    BY DEF ResponseIsDeciders
  <2>1. Returned /\ Rejected(d) /\ response = BlockedResponse(d)
    BY DEF IInv, Stages
  <2>2. d.limiter = Decider /\ d.advise = limiters[Decider].advise
    BY <2>1, DeciderFound DEF IInv
  <2> QED
    BY <2>1, <2>2 DEF BlockedResponse
<1> QED
  BY <1>1, Invariance, PTL

\* The store is put every limiter that takes part exactly once, in order, with
\* the algorithm valid for it, and none after the one that rejects.
THEOREM ConsultedOnce == Spec => []StoreConsultedOnce
<1>1. IInv => StoreConsultedOnce
  <2> SUFFICES ASSUME IInv, Returned
               PROVE  StoreConsultedOnce
    BY DEF StoreConsultedOnce
  <2>1. Consulted = {i \in 1..Visited : Counts(i)}
    BY AllVisited DEF IInv
  <2>2. Booked(calls, d.evaluations, Visited)
    BY DEF IInv
  <2>3. {calls[p].limiter : p \in 1..Len(calls)} = Consulted
    <3>1. \A p \in 1..Len(calls) : calls[p].limiter \in 1..Visited /\ Counts(calls[p].limiter)
      BY <2>2, Zenon DEF Booked
    <3>2. \A i \in 1..Visited : Counts(i) => \E p \in 1..Len(calls) : calls[p].limiter = i
      BY <2>2, Zenon DEF Booked
    <3> QED
      BY <2>1, <3>1, <3>2
  <2>4. \A m, p \in 1..Len(calls) : m < p => calls[m].limiter < calls[p].limiter
    BY <2>2, Zenon DEF Booked
  <2>5. \A p \in 1..Len(calls) : calls[p].algorithm = "Take" <=> limiters[calls[p].limiter].bucket
    BY <2>2 DEF Booked, Algorithm
  <2>6. [p \in 1..Len(calls) |-> calls[p].limiter]
          = [p \in 1..Len(d.evaluations) |-> d.evaluations[p].limiter]
    BY <2>2 DEF Booked
  <2> QED
    BY <2>3, <2>4, <2>5, <2>6, ZenonT(30) DEF StoreConsultedOnce
<1> QED
  BY <1>1, Invariance, PTL

\* Nothing fails open unseen, and the store errors are exactly the failed_open
\* samples other than the truncated body's.
THEOREM NothingUnseen == Spec => []FailOpenIsVisible
<1>1. IInv => FailOpenIsVisible
  <2> SUFFICES ASSUME IInv, pc = "done"
               PROVE  FailOpenIsVisible
    BY DEF FailOpenIsVisible
  <2>1. panicked # "no" => storeErrors > 0
    BY DEF IInv, Ledger
  <2>2. ASSUME panicked = "no"
        PROVE  /\ FailedOpen(d) <=> storeErrors > 0
               /\ FailedOpen(d) <=> \E i \in Consulted : world[i] = "error"
    <3>1. Returned
      BY <2>2 DEF IInv, Stages
    <3>2. Consulted = {i \in 1..Visited : Counts(i)}
      BY <3>1, AllVisited DEF IInv
    <3>3. Booked(calls, d.evaluations, Visited)
      BY DEF IInv
    <3>4. FailedOpen(d) <=> \E i \in Consulted : world[i] = "error"
      <4>1. /\ Len(calls) = Len(d.evaluations)
            /\ \A p \in 1..Len(calls) :
                  /\ calls[p].limiter \in 1..Visited /\ Counts(calls[p].limiter)
                  /\ d.evaluations[p].verdict = "failed_open" <=> world[calls[p].limiter] = "error"
        BY <3>3, Zenon DEF Booked
      <4>2. \A i \in 1..Visited : Counts(i) => \E p \in 1..Len(calls) : calls[p].limiter = i
        BY <3>3, Zenon DEF Booked
      <4> QED
        BY <3>2, <4>1, <4>2 DEF FailedOpen
    <3>5. FailedOpen(d) <=> storeErrors > 0
      BY <2>2 DEF IInv, Ledger
    <3> QED
      BY <3>4, <3>5, Zenon
  <2>3. storeErrors = Cardinality(ErrorsAt(decisions))
    BY DEF IInv, Ledger
  <2> QED
    BY <2>1, <2>2, <2>3, Zenon DEF FailOpenIsVisible, ErrorsAt
<1> QED
  BY <1>1, Invariance, PTL

----------------------------------------------------------------------------
(***************************************************************************)
(* The token bucket for every rate, burst and slack: the rate bound, the   *)
(* types, the advised wait, and that the lazily refilled, expiring hash    *)
(* implements a bucket that refills all the time.                          *)
(***************************************************************************)
\* What \div computes.
LEMMA DivBounds ==
  \A a \in Int, b \in Nat \ {0} :
    /\ a \div b \in Int
    /\ (a \div b) * b <= a
    /\ a < (a \div b) * b + b
  OBVIOUS

\* Ceil rounds up, and by less than one.
LEMMA CeilBounds ==
  ASSUME NEW a \in Nat, NEW b \in Nat \ {0}
  PROVE  /\ Ceil(a, b) \in Nat
         /\ Ceil(a, b) * b >= a
         /\ Ceil(a, b) * b < a + b
  BY DivBounds DEF Ceil

\* Multiplication by a rate, one tick at a time.
LEMMA MulStep ==
  \A x \in Int, r \in Nat : (x + 1) * r = x * r + r /\ x * r \in Int
  OBVIOUS

\* Multiplication by a rate is monotonic.
LEMMA MulMono ==
  \A x, y, r \in Nat : x <= y => x * r <= y * r /\ x * r \in Int /\ y * r \in Int
  OBVIOUS

\* The same for a count that grows by at most one.
LEMMA MulNext ==
  \A x, y, r \in Nat : x <= y + 1 => x * r <= y * r + r /\ x * r \in Int /\ y * r \in Int
<1> SUFFICES ASSUME NEW x \in Nat, NEW y \in Nat, NEW r \in Nat, x <= y + 1
             PROVE  x * r <= y * r + r /\ x * r \in Int /\ y * r \in Int
  OBVIOUS
<1>1. x * r <= (y + 1) * r
  BY MulMono
<1> QED
  BY <1>1, MulStep

----------------------------------------------------------------------------
\* The stored age and time to live always add up to the idle time, so the key
\* expires at a known age.
Clocked ==
    ttl > 0 => age + ttl = IdleTTL

\* What is in the bucket and what was taken in excess of the refill together
\* never exceed its capacity.
Conserved ==
    Refilled + load <= Capacity

IndInv ==
    /\ n \in Nat /\ n <= Capacity
    /\ age \in Int /\ ttl \in Nat /\ load \in Nat
    /\ Clocked
    /\ Conserved

\* The derived constants are natural numbers, and an idle key is kept until
\* the bucket would be full.
LEMMA ConstantFacts ==
  /\ Capacity \in Nat
  /\ IdleTTL \in Nat \ {0}
  /\ IdleTTL * Rate >= Capacity
<1>1. Capacity \in Nat \ {0}
  BY BucketValid DEF Capacity
<1>2. Ceil(Capacity, Rate) \in Nat /\ Ceil(Capacity, Rate) * Rate >= Capacity
  BY <1>1, BucketValid, CeilBounds
<1>3. Ceil(Capacity, Rate) # 0
  BY <1>1, <1>2, BucketValid
<1>4. IdleTTL \in Nat \ {0} /\ Ceil(Capacity, Rate) <= IdleTTL
  BY <1>2, <1>3, BucketValid DEF IdleTTL
<1>5. IdleTTL * Rate >= Ceil(Capacity, Rate) * Rate
  BY <1>2, <1>4, BucketValid, MulMono
<1> QED
  BY <1>1, <1>2, <1>4, <1>5, MulStep, BucketValid

\* The refilled content is between 0 and the capacity.
LEMMA RefilledType ==
  ASSUME IndInv
  PROVE  Refilled \in Nat /\ Refilled <= Capacity
<1>1. Elapsed \in Nat
  BY DEF IndInv, Elapsed
<1>2. Elapsed * Rate \in Nat
  BY <1>1, BucketValid
<1> QED
  BY <1>2, ConstantFacts DEF IndInv, Refilled

\* After the script has run, the bucket holds exactly what it stored.
LEMMA StoredRefilled ==
  ASSUME NEW tokens \in Nat, tokens <= Capacity, Store(tokens)
  PROVE  Refilled' = tokens
<1>1. ttl' # 0 /\ Elapsed' = 0 /\ n' = tokens
  BY ConstantFacts DEF Store, Elapsed
<1>2. 0 * Rate = 0
  BY BucketValid
<1>3. n' + Elapsed' * Rate = tokens
  BY <1>1, <1>2
<1> QED
  BY <1>1, <1>3, ConstantFacts DEF Refilled, Capacity

\* The empty Redis satisfies the invariant.
LEMMA InitIndInv == BucketInit => IndInv
  BY ConstantFacts DEF BucketInit, IndInv, Clocked, Conserved, Refilled

\* A call of the script preserves the invariant: a grant moves one token from
\* the bucket to the load.
LEMMA TakeStep == IndInv /\ Take => IndInv'
<1> SUFFICES ASSUME IndInv, Take PROVE IndInv'
  OBVIOUS
<1>1. Refilled \in Nat /\ Refilled <= Capacity
  BY RefilledType
<1>2. ASSUME NEW tokens \in Nat, tokens <= Capacity, Store(tokens),
             load' \in Nat, tokens + load' <= Capacity
      PROVE  IndInv'
  <2>1. Refilled' = tokens
    BY <1>2, StoredRefilled
  <2>2. Conserved'
    BY <1>2, <2>1 DEF Conserved, Capacity
  <2>3. Clocked'
    BY <1>2, ConstantFacts DEF Store, Clocked, IdleTTL
  <2> QED
    BY <1>2, <2>2, <2>3, ConstantFacts DEF IndInv, Store, Capacity
<1>3. CASE Grant
  <2>1. Refilled - Milli \in Nat /\ load + Milli \in Nat
    BY <1>1, <1>3, BucketValid DEF Grant, IndInv
  <2>2. (Refilled - Milli) + (load + Milli) <= Capacity
    BY <1>1, BucketValid, ConstantFacts DEF IndInv, Conserved
  <2> QED
    BY <1>1, <1>2, <1>3, <2>1, <2>2, BucketValid, ConstantFacts DEF Grant
<1>4. CASE Refuse
  BY <1>1, <1>2, <1>4 DEF Refuse, IndInv, Conserved
<1> QED
  BY <1>3, <1>4 DEF Take

\* If the time that counts grows by at most one tick, the bucket gains at most
\* one tick's refill.
LEMMA RefillStep ==
  ASSUME IndInv, ttl # 0, ttl' # 0, n' = n, age' \in Int,
         Elapsed' <= Elapsed + 1
  PROVE  /\ Refilled' \in Int
         /\ Refilled' <= Refilled + Rate
         /\ Refilled' <= Capacity
<1>1. Elapsed \in Nat /\ Elapsed' \in Nat
  BY DEF IndInv, Elapsed
<1>3. Elapsed' * Rate <= Elapsed * Rate + Rate /\ Elapsed' * Rate \in Int /\ Elapsed * Rate \in Int
  BY Zenon, <1>1, MulNext, BucketValid
<1> DEFINE e == Elapsed * Rate
           f == Elapsed' * Rate
<1>4. /\ Refilled = IF n + e < Capacity THEN n + e ELSE Capacity
      /\ Refilled' = IF n + f < Capacity THEN n + f ELSE Capacity
  BY DEF Refilled, Capacity
<1>5. e \in Int /\ f \in Int /\ f <= e + Rate
  BY <1>3
<1> HIDE DEF e, f
<1> QED
  BY <1>4, <1>5, ConstantFacts, BucketValid DEF IndInv

\* A tick preserves the invariant.  When it expires the key, the bucket was at
\* most one tick short of full, so nothing is owed any more.
LEMMA TickStep == IndInv /\ BucketTick => IndInv'
<1> SUFFICES ASSUME IndInv, BucketTick PROVE IndInv'
  OBVIOUS
<1>1. Refilled \in Nat /\ Refilled <= Capacity
  BY RefilledType
<1>2. load' \in Nat /\ (load <= Rate => load' = 0) /\ (load > Rate => load' = load - Rate)
  BY BucketValid DEF BucketTick, IndInv
<1>3. CASE ttl <= 1
  <2>1. n' = 0 /\ age' = 0 /\ ttl' = 0
    BY <1>3 DEF BucketTick, Expire
  <2>2. Refilled' = Capacity
    BY <2>1 DEF Refilled, Capacity
  <2>3. load <= Rate
    <3>1. CASE ttl = 0
      BY <3>1, ConstantFacts, BucketValid DEF IndInv, Conserved, Refilled
    <3>2. CASE ttl = 1
      <4>1. age = IdleTTL - 1 /\ Elapsed = IdleTTL - 1
        BY <3>2, ConstantFacts DEF IndInv, Clocked, Elapsed
      <4>2. (IdleTTL - 1) * Rate + Rate = IdleTTL * Rate /\ (IdleTTL - 1) * Rate \in Int
        BY ConstantFacts, BucketValid, MulStep
      <4>3. Elapsed * Rate + Rate >= Capacity /\ Elapsed * Rate \in Int
        BY <4>1, <4>2, ConstantFacts
      <4>4. Refilled + Rate >= Capacity
        BY <3>2, <4>3, ConstantFacts, BucketValid DEF IndInv, Refilled
      <4> QED
        BY <1>1, <4>4, ConstantFacts, BucketValid DEF IndInv, Conserved
    <3> QED
      BY <1>3, <3>1, <3>2 DEF IndInv
  <2>4. Capacity + load' <= Capacity
    BY <1>2, <2>3, ConstantFacts
  <2>5. Conserved'
    BY <2>2, <2>4 DEF Conserved, Capacity
  <2> QED
    BY <1>2, <2>1, <2>5, ConstantFacts DEF IndInv, Clocked, Capacity
<1>4. CASE ttl > 1
  <2>1. n' = n /\ age' = age + 1 /\ ttl' = ttl - 1
    BY <1>4 DEF BucketTick, IndInv
  <2>2. Elapsed' <= Elapsed + 1 /\ age' \in Int /\ ttl' \in Nat /\ ttl' # 0
    BY <1>4, <2>1 DEF IndInv, Elapsed
  <2>3. Refilled' \in Int /\ Refilled' <= Refilled + Rate /\ Refilled' <= Capacity
    BY <1>4, <2>1, <2>2, RefillStep DEF IndInv
  <2>4. Refilled' + load' <= Capacity
    <3>1. \A r \in Int, l \in Nat :
             /\ r <= Refilled + Rate /\ r <= Capacity
             /\ load <= Rate => l = 0
             /\ load > Rate => l = load - Rate
             => r + l <= Capacity
      BY <1>1, ConstantFacts, BucketValid DEF IndInv, Conserved
    <3> QED
      BY <1>2, <2>3, <3>1
  <2>5. Clocked'
    BY <1>4, <2>1, ConstantFacts DEF IndInv, Clocked, IdleTTL
  <2>6. Conserved'
    BY <2>4 DEF Conserved, Capacity
  <2> QED
    BY <1>2, <2>1, <2>2, <2>5, <2>6 DEF IndInv, Capacity
<1> QED
  BY <1>3, <1>4 DEF IndInv

\* Setting the clock back preserves the invariant: the bucket only looks
\* emptier.
LEMMA ClockBackStep == IndInv /\ ClockBack => IndInv'
<1> SUFFICES ASSUME IndInv, ClockBack PROVE IndInv'
  OBVIOUS
<1>1. Elapsed \in Nat /\ Elapsed' \in Nat /\ Elapsed' <= Elapsed
  BY DEF ClockBack, IndInv, Elapsed
<1>2. Elapsed' * Rate <= Elapsed * Rate /\ Elapsed' * Rate \in Int /\ Elapsed * Rate \in Int
  BY Zenon, <1>1, MulMono, BucketValid
<1>3. /\ n' = n /\ load' = load
      /\ ttl # 0 /\ ttl' \in Nat /\ ttl' # 0 /\ age' \in Int
      /\ age' = age - 1 /\ ttl' = ttl + 1
  BY DEF ClockBack, IndInv
<1> DEFINE e == Elapsed * Rate
           f == Elapsed' * Rate
<1>4. /\ Refilled = IF n + e < Capacity THEN n + e ELSE Capacity
      /\ Refilled' = IF n + f < Capacity THEN n + f ELSE Capacity
  BY <1>3 DEF Refilled, Capacity
<1>5. e \in Int /\ f \in Int /\ f <= e
  BY <1>2
<1> HIDE DEF e, f
<1>6. Refilled' + load' <= Capacity
  BY <1>3, <1>4, <1>5, ConstantFacts DEF IndInv, Conserved
<1>7. Conserved'
  BY <1>6 DEF Conserved, Capacity
<1>8. Clocked'
  BY <1>3, ConstantFacts DEF IndInv, Clocked, IdleTTL
<1> QED
  BY <1>3, <1>7, <1>8 DEF IndInv, Capacity

\* The invariant holds in every reachable state.
THEOREM BucketInvariance == BucketSpec => []IndInv
<1>1. IndInv /\ UNCHANGED bucketVars => IndInv'
  BY DEF IndInv, bucketVars, Clocked, Conserved, Refilled, Elapsed, Capacity, IdleTTL
<1>2. IndInv /\ [BucketNext]_bucketVars => IndInv'
  BY <1>1, TakeStep, TickStep, ClockBackStep DEF BucketNext
<1> QED
  BY InitIndInv, <1>2, PTL DEF BucketSpec

\* Whatever the rate, the burst and the spacing of the calls, the requests
\* granted in any span of D ticks never exceed Burst + Rate * D / Milli, with
\* keys expiring and the clock set back in between.
THEOREM RateBounded == BucketSpec => []RateBound
<1>1. IndInv => RateBound
  <2> SUFFICES ASSUME IndInv PROVE RateBound
    OBVIOUS
  <2>1. Refilled \in Nat
    BY RefilledType
  <2> QED
    BY <2>1, ConstantFacts DEF IndInv, Conserved, RateBound
<1> QED
  BY <1>1, BucketInvariance, PTL

----------------------------------------------------------------------------
\* What a key without content says, and what replies look like.
Shape ==
    /\ ttl = 0 => age = 0
    /\ age >= -MaxBack /\ age <= IdleTTL /\ ttl <= IdleTTL + MaxBack
    /\ reply.allowed \in BOOLEAN
    /\ reply = [allowed |-> reply.allowed, remaining |-> reply.remaining, retry |-> reply.retry]
    /\ reply.remaining \in 0..Burst
    /\ reply.retry \in 0..Ceil(Milli, Rate)

\* The wait for a token, on values: the least that is long enough, at most the
\* time of a whole token.
LEMMA WaitBounds ==
  ASSUME NEW l \in Nat, l < Milli
  PROVE  /\ Retry(l) \in 1..Ceil(Milli, Rate)
         /\ Ceil(Milli, Rate) \in 1..Milli
         /\ l + Retry(l) * Rate >= Milli
         /\ \A v \in 0..(Retry(l) - 1) : l + v * Rate < Milli
<1> DEFINE w == Retry(l)
           m == Ceil(Milli, Rate)
<1>0. Milli - l \in Nat \ {0} /\ Milli - l <= Milli
  BY BucketValid
<1>1. w \in Nat /\ w * Rate >= Milli - l /\ w * Rate < Milli - l + Rate
  BY <1>0, CeilBounds, BucketValid DEF Retry
<1>2. m \in Nat /\ m * Rate >= Milli /\ m * Rate < Milli + Rate
  BY CeilBounds, BucketValid
<1> HIDE DEF w, m
<1>3. w * Rate \in Int /\ m * Rate \in Int
  BY <1>1, <1>2, MulStep, BucketValid
<1>4. w # 0 /\ m # 0
  <2>1. 0 * Rate = 0
    BY BucketValid
  <2> QED
    BY <1>0, <1>1, <1>2, <2>1, BucketValid
<1>5. w <= m
  <2>1. ASSUME w >= m + 1
        PROVE  FALSE
    <3>1. (m + 1) * Rate <= w * Rate /\ (m + 1) * Rate = m * Rate + Rate
      BY <1>1, <1>2, <2>1, MulMono, MulStep, BucketValid
    <3> QED
      BY <1>0, <1>1, <1>2, <1>3, <3>1, BucketValid
  <2> QED
    BY <1>1, <1>2, <2>1
<1>6. m <= Milli
  <2>1. ASSUME m >= Milli + 1
        PROVE  FALSE
    <3>1. (Milli + 1) * Rate <= m * Rate /\ (Milli + 1) * Rate = Milli * Rate + Rate
      BY <1>2, <2>1, MulMono, MulStep, BucketValid
    <3>2. Milli * Rate >= Milli /\ Milli * Rate \in Int
      BY BucketValid
    <3> QED
      BY <1>2, <1>3, <3>1, <3>2, BucketValid
  <2> QED
    BY <1>2, <2>1, BucketValid
<1>7. ASSUME NEW v \in 0..(w - 1)
      PROVE  l + v * Rate < Milli
  <2>1. (v + 1) * Rate <= w * Rate /\ (v + 1) * Rate = v * Rate + Rate /\ v * Rate \in Int
    BY <1>1, MulMono, MulStep, BucketValid
  <2> QED
    BY <1>0, <1>1, <1>3, <2>1, BucketValid
<1>8. l + w * Rate >= Milli
  BY <1>0, <1>1, <1>3, BucketValid
<1> QED
  BY <1>1, <1>2, <1>4, <1>5, <1>6, <1>7, <1>8 DEF w, m

\* The whole tokens in a content.
LEMMA WholeTokens ==
  ASSUME NEW l \in Nat, l <= Capacity
  PROVE  l \div Milli \in 0..Burst /\ (l < Milli => l \div Milli = 0)
<1> DEFINE q == l \div Milli
<1>1. q \in Int /\ q * Milli <= l /\ l < q * Milli + Milli
  BY DivBounds, BucketValid
<1>2. q \in Nat
  BY BucketValid
<1> HIDE DEF q
<1>3. q * Milli \in Int
  BY <1>2, MulStep, BucketValid
<1>4. ASSUME q >= Burst + 1
      PROVE  FALSE
  <2>1. (Burst + 1) * Milli <= q * Milli /\ (Burst + 1) * Milli = Burst * Milli + Milli
    BY <1>2, <1>4, MulMono, MulStep, BucketValid
  <2> QED
    BY <1>1, <1>3, <2>1, ConstantFacts, BucketValid DEF Capacity
<1>5. ASSUME l < Milli, q >= 1
      PROVE  FALSE
  <2>1. 1 * Milli <= q * Milli
    BY <1>2, <1>5, MulMono, BucketValid
  <2> QED
    BY <1>1, <1>3, <1>5, <2>1, BucketValid
<1> QED
  BY <1>2, <1>4, <1>5, BucketValid DEF q

\* A call, in terms of what the bucket held: the two outcomes and their replies.
LEMMA TakeOutcome ==
  ASSUME IndInv, Take
  PROVE  /\ age' = 0 /\ ttl' = IdleTTL
         /\ \/ /\ Refilled >= Milli /\ Refilled' = Refilled - Milli
               /\ reply' = [allowed |-> TRUE, remaining |-> (Refilled - Milli) \div Milli, retry |-> 0]
            \/ /\ Refilled < Milli /\ Refilled' = Refilled
               /\ reply' = [allowed |-> FALSE, remaining |-> Refilled \div Milli, retry |-> Retry(Refilled)]
<1>1. Refilled \in Nat /\ Refilled <= Capacity
  BY RefilledType
<1>2. CASE Grant
  <2>1. Refilled - Milli \in Nat /\ Refilled - Milli <= Capacity /\ Store(Refilled - Milli)
    BY <1>1, <1>2, ConstantFacts, BucketValid DEF Grant
  <2>2. Refilled' = Refilled - Milli
    BY <2>1, StoredRefilled
  <2> QED
    BY Zenon, <1>2, <2>2 DEF Grant, Store
<1>3. CASE Refuse
  <2>1. Refilled' = Refilled
    BY <1>1, <1>3, StoredRefilled DEF Refuse
  <2> QED
    BY <1>3, <2>1 DEF Refuse, Store
<1> QED
  BY <1>2, <1>3 DEF Take

\* The shape of a reply, of either outcome.
LEMMA ReplyShape ==
  ASSUME NEW a \in BOOLEAN, NEW r \in 0..Burst, NEW w \in 0..Ceil(Milli, Rate),
         reply' = [allowed |-> a, remaining |-> r, retry |-> w]
  PROVE  /\ reply'.allowed \in BOOLEAN
         /\ reply' = [allowed |-> reply'.allowed, remaining |-> reply'.remaining, retry |-> reply'.retry]
         /\ reply'.remaining \in 0..Burst
         /\ reply'.retry \in 0..Ceil(Milli, Rate)
<1>1. reply'.allowed = a /\ reply'.remaining = r /\ reply'.retry = w
  BY Zenon
<1> QED
  BY <1>1, Zenon

\* The wait for an empty bucket bounds every wait.
LEMMA LongestWait ==
  Ceil(Milli, Rate) \in Nat /\ Ceil(Milli, Rate) <= Milli
<1>1. 0 \in Nat /\ 0 < Milli
  BY BucketValid
<1>2. Ceil(Milli, Rate) \in 1..Milli
  BY <1>1, WaitBounds
<1> QED
  BY <1>2, BucketValid

\* A call keeps the shape.
LEMMA TakeShape == IndInv /\ Shape /\ Take => Shape'
<1> SUFFICES ASSUME IndInv, Shape, Take PROVE Shape'
  OBVIOUS
<1>1. Refilled \in Nat /\ Refilled <= Capacity
  BY RefilledType
<1>2. /\ ttl' = 0 => age' = 0
      /\ age' >= -MaxBack /\ age' <= IdleTTL /\ ttl' <= IdleTTL + MaxBack
  BY TakeOutcome, ConstantFacts, BucketValid
<1>3. CASE Refilled >= Milli
  <2>1. (Refilled - Milli) \div Milli \in 0..Burst
    BY <1>1, <1>3, WholeTokens, BucketValid, ConstantFacts
  <2>2. reply' = [allowed |-> TRUE, remaining |-> (Refilled - Milli) \div Milli, retry |-> 0]
    BY <1>1, <1>3, TakeOutcome, BucketValid
  <2>3. 0 \in 0..Ceil(Milli, Rate)
    BY LongestWait
  <2>4. TRUE \in BOOLEAN
    BY Zenon
  <2> QED
    BY <1>2, <2>1, <2>2, <2>3, <2>4, ReplyShape, Zenon DEF Shape, Ceil, IdleTTL, Capacity
<1>4. CASE Refilled < Milli
  <2>1. Refilled \div Milli \in 0..Burst
    BY <1>1, WholeTokens
  <2>2. reply' = [allowed |-> FALSE, remaining |-> Refilled \div Milli, retry |-> Retry(Refilled)]
    BY <1>1, <1>4, TakeOutcome, BucketValid
  <2>3. Retry(Refilled) \in 0..Ceil(Milli, Rate)
    BY <1>1, <1>4, WaitBounds, LongestWait
  <2>4. FALSE \in BOOLEAN
    BY Zenon
  <2> QED
    BY <1>2, <2>1, <2>2, <2>3, <2>4, ReplyShape, Zenon DEF Shape, Ceil, IdleTTL, Capacity
<1> QED
  BY <1>1, <1>3, <1>4, BucketValid

\* So do the other steps, which leave the reply.
LEMMA OtherShape == IndInv /\ Shape /\ (BucketTick \/ ClockBack \/ UNCHANGED bucketVars) => Shape'
<1> SUFFICES ASSUME IndInv, Shape, BucketTick \/ ClockBack \/ UNCHANGED bucketVars PROVE Shape'
  OBVIOUS
<1>1. reply' = reply
  BY DEF BucketTick, ClockBack, bucketVars
<1>2. /\ ttl' = 0 => age' = 0
      /\ age' >= -MaxBack /\ age' <= IdleTTL /\ ttl' <= IdleTTL + MaxBack
  <2>1. CASE BucketTick
    BY <2>1, ConstantFacts, BucketValid DEF BucketTick, Expire, IndInv, Shape, Clocked
  <2>2. CASE ClockBack
    BY <2>2, ConstantFacts, BucketValid DEF ClockBack, IndInv, Shape, Clocked
  <2>3. CASE UNCHANGED bucketVars
    BY <2>3 DEF bucketVars, Shape
  <2> QED
    BY <2>1, <2>2, <2>3
<1> QED
  BY <1>1, <1>2, Zenon DEF Shape, Ceil, IdleTTL, Capacity

\* The hash and the replies keep their shape.
THEOREM ShapeInvariance == BucketSpec => [](IndInv /\ Shape)
<1>1. BucketInit => Shape
  <2> SUFFICES ASSUME BucketInit PROVE Shape
    OBVIOUS
  <2>1. ttl = 0 /\ age = 0 /\ reply = [allowed |-> TRUE, remaining |-> Burst, retry |-> 0]
    BY DEF BucketInit
  <2>2. reply.allowed = TRUE /\ reply.remaining = Burst /\ reply.retry = 0
    BY <2>1, Zenon
  <2>3. 0 \in 0..Ceil(Milli, Rate) /\ Burst \in 0..Burst
    BY LongestWait, BucketValid
  <2>4. age >= -MaxBack /\ age <= IdleTTL /\ ttl <= IdleTTL + MaxBack
    BY <2>1, ConstantFacts, BucketValid
  <2> QED
    BY <2>1, <2>2, <2>3, <2>4, Zenon DEF Shape
<1>2. IndInv /\ Shape /\ [BucketNext]_bucketVars => Shape'
  BY TakeShape, OtherShape DEF BucketNext
<1> QED
  BY <1>1, <1>2, BucketInvariance, PTL DEF BucketSpec

\* Types of the hash, the reply and the history.
THEOREM TypeCorrect == BucketSpec => []TypeOK
<1>1. IndInv /\ Shape => TypeOK
  <2> SUFFICES ASSUME IndInv, Shape PROVE TypeOK
    OBVIOUS
  <2>1. n \in 0..Capacity /\ age \in -MaxBack..IdleTTL /\ ttl \in 0..(IdleTTL + MaxBack) /\ load \in Nat
    BY ConstantFacts, BucketValid DEF IndInv, Shape
  <2>2. reply.retry \in 0..Milli
    BY LongestWait, BucketValid DEF Shape
  <2>3. reply \in [allowed : BOOLEAN, remaining : 0..Burst, retry : 0..Milli]
    BY <2>2, Zenon DEF Shape
  <2> QED
    BY <2>1, <2>3 DEF TypeOK
<1> QED
  BY <1>1, ShapeInvariance, PTL

\* A refused caller is never told to wait longer than one token takes.
THEOREM WaitBounded == BucketSpec => []RetryBounded
<1>1. Shape => RetryBounded
  BY LongestWait DEF Shape, RetryBounded
<1> QED
  BY <1>1, ShapeInvariance, PTL

\* A tick of the hash is a tick of a bucket that refills all the time.
LEMMA TickIdeal ==
  ASSUME IndInv, Shape, BucketTick
  PROVE  Ideal!Tick
<1>0. reply' = reply
  BY DEF BucketTick
<1>1. Refilled \in Nat /\ Refilled <= Capacity
  BY RefilledType
<1>2. CASE ttl <= 1
  <2>1. age' = 0 /\ ttl' = 0
    BY <1>2 DEF BucketTick, Expire
  <2>2. Refilled' = Capacity /\ Behind' = 0
    BY <2>1 DEF Refilled, Capacity, Behind
  <2>3. Behind = 0 /\ Refilled + Rate >= Capacity
    <3>1. CASE ttl = 0
      BY <3>1, ConstantFacts, BucketValid DEF Shape, Behind, Refilled
    <3>2. CASE ttl = 1
      <4>1. age = IdleTTL - 1 /\ Elapsed = IdleTTL - 1 /\ Behind = 0
        BY <3>2, ConstantFacts DEF IndInv, Clocked, Elapsed, Behind
      <4>2. (IdleTTL - 1) * Rate + Rate = IdleTTL * Rate /\ (IdleTTL - 1) * Rate \in Int
        BY ConstantFacts, BucketValid, MulStep
      <4>3. Elapsed * Rate + Rate >= Capacity /\ Elapsed * Rate \in Int
        BY <4>1, <4>2, ConstantFacts
      <4> QED
        BY <3>2, <4>1, <4>3, ConstantFacts, BucketValid DEF IndInv, Refilled
    <3> QED
      BY <1>2, <3>1, <3>2 DEF IndInv
  <2>4. Refilled' = IF Refilled + Rate < Capacity THEN Refilled + Rate ELSE Capacity
    BY <1>1, <2>2, <2>3, ConstantFacts, BucketValid
  <2> QED
    BY <1>0, <2>2, <2>3, <2>4 DEF Ideal!Tick, Ideal!Capacity, Capacity
<1>3. CASE ttl > 1 /\ age < 0
  <2>1. n' = n /\ age' = age + 1 /\ ttl' = ttl - 1
    BY <1>3 DEF BucketTick, IndInv
  <2>2. Elapsed = 0 /\ Elapsed' = 0 /\ Behind > 0 /\ Behind' = Behind - 1
    BY <1>3, <2>1 DEF IndInv, Elapsed, Behind
  <2>3. Refilled' = Refilled
    BY <1>3, <2>1, <2>2 DEF Refilled, Capacity, IndInv
  <2> QED
    BY <1>0, <2>2, <2>3 DEF Ideal!Tick
<1>4. CASE ttl > 1 /\ age >= 0
  <2>1. n' = n /\ age' = age + 1 /\ ttl' = ttl - 1
    BY <1>4 DEF BucketTick, IndInv
  <2>2. Elapsed = age /\ Elapsed' = age + 1 /\ Behind = 0 /\ Behind' = 0
    BY <1>4, <2>1 DEF IndInv, Elapsed, Behind
  <2>3. (age + 1) * Rate = age * Rate + Rate /\ age * Rate \in Nat
    BY <1>4, MulStep, BucketValid DEF IndInv
  <2> DEFINE e == age * Rate
  <2>4. ttl # 0 /\ ttl' # 0
    BY <1>4, <2>1 DEF IndInv
  <2>5. /\ Refilled = IF n + e < Capacity THEN n + e ELSE Capacity
        /\ Refilled' = IF n + (e + Rate) < Capacity THEN n + (e + Rate) ELSE Capacity
    BY <2>1, <2>2, <2>3, <2>4 DEF Refilled, Capacity
  <2> HIDE DEF e
  <2>6. e \in Nat
    BY <2>3 DEF e
  <2>7. Refilled' = IF Refilled + Rate < Capacity THEN Refilled + Rate ELSE Capacity
    BY <2>5, <2>6, ConstantFacts, BucketValid DEF IndInv
  <2> QED
    BY <1>0, <2>2, <2>7 DEF Ideal!Tick, Ideal!Capacity, Capacity
<1> QED
  BY <1>2, <1>3, <1>4 DEF IndInv

\* A clock that is set back costs refill, or leaves the bucket further behind.
LEMMA ClockBackIdeal ==
  ASSUME IndInv, ClockBack
  PROVE  Ideal!SetBack
<1>1. Elapsed \in Nat /\ Elapsed' \in Nat /\ Elapsed' <= Elapsed
  BY DEF ClockBack, IndInv, Elapsed
<1>2. Elapsed' * Rate <= Elapsed * Rate /\ Elapsed' * Rate \in Int /\ Elapsed * Rate \in Int
  BY Zenon, <1>1, MulMono, BucketValid
<1>3. n' = n /\ reply' = reply /\ ttl # 0 /\ ttl' # 0 /\ age' = age - 1
  BY DEF ClockBack, IndInv
<1> DEFINE e == Elapsed * Rate
           f == Elapsed' * Rate
<1>4. /\ Refilled = IF n + e < Capacity THEN n + e ELSE Capacity
      /\ Refilled' = IF n + f < Capacity THEN n + f ELSE Capacity
  BY <1>3 DEF Refilled, Capacity
<1>5. e \in Int /\ f \in Int /\ f <= e
  BY <1>2
<1> HIDE DEF e, f
<1>6. Refilled' <= Refilled
  BY <1>4, <1>5, ConstantFacts DEF IndInv
<1>7. Behind' \in {Behind, Behind + 1}
  BY <1>3 DEF IndInv, Behind
<1> QED
  BY <1>3, <1>6, <1>7 DEF Ideal!SetBack

\* A call takes from the ideal bucket what it takes from the hash, and advises
\* the least wait that is long enough.
LEMMA TakeIdeal ==
  ASSUME IndInv, Take
  PROVE  Ideal!Take
<1>1. Refilled \in Nat /\ Refilled <= Capacity
  BY RefilledType
<1>2. Behind' = 0
  BY TakeOutcome DEF Behind
<1>3. CASE Refilled >= Milli
  <2>1. /\ Refilled' = Refilled - Milli
        /\ reply' = [allowed |-> TRUE, remaining |-> (Refilled - Milli) \div Milli, retry |-> 0]
    BY <1>1, <1>3, TakeOutcome, BucketValid
  <2>2. reply' = [allowed |-> TRUE, remaining |-> Refilled' \div Milli, retry |-> 0]
    BY <2>1
  <2> QED
    BY <1>2, <1>3, <2>1, <2>2, Zenon DEF Ideal!Take
<1>4. CASE Refilled < Milli
  <2> DEFINE w == Retry(Refilled)
  <2>1. /\ Refilled' = Refilled
        /\ reply' = [allowed |-> FALSE, remaining |-> Refilled \div Milli, retry |-> w]
    BY <1>1, <1>4, TakeOutcome, BucketValid
  <2>2. Refilled \div Milli = 0
    BY <1>1, <1>4, WholeTokens
  <2>3. w \in 1..Milli /\ Ideal!IsWait(Refilled, w)
    <3>1. /\ w \in 1..Ceil(Milli, Rate) /\ Refilled + w * Rate >= Milli
          /\ \A v \in 0..(w - 1) : Refilled + v * Rate < Milli
      BY <1>1, <1>4, WaitBounds
    <3>2. w \in 1..Milli
      BY <3>1, LongestWait, BucketValid
    <3> QED
      BY <3>1, <3>2, Zenon DEF Ideal!IsWait
  <2>4. reply' = [allowed |-> FALSE, remaining |-> 0, retry |-> w]
    BY <2>1, <2>2, Zenon
  <2> HIDE DEF w
  <2> QED
    BY <1>2, <1>4, <2>1, <2>3, <2>4, Zenon DEF Ideal!Take
<1> QED
  BY <1>1, <1>3, <1>4, BucketValid

\* The hash, refilled by the next call only and expiring when idle, implements
\* a bucket that refills all the time, for every rate, burst and slack.
THEOREM Refinement == BucketSpec => RefinesIdeal
<1>1. BucketInit => Ideal!Init
  BY DEF BucketInit, Ideal!Init, Refilled, Behind, Capacity, Ideal!Capacity
<1>2. IndInv /\ Shape /\ [BucketNext]_bucketVars => [Ideal!Next]_<<Refilled, Behind, reply>>
  <2> SUFFICES ASSUME IndInv, Shape, [BucketNext]_bucketVars
               PROVE  [Ideal!Next]_<<Refilled, Behind, reply>>
    OBVIOUS
  <2>1. CASE UNCHANGED bucketVars
    BY <2>1 DEF bucketVars, Refilled, Elapsed, Behind, Capacity
  <2>2. CASE BucketNext
    BY <2>2, TakeIdeal, TickIdeal, ClockBackIdeal DEF BucketNext, Ideal!Next
  <2> QED
    BY <2>1, <2>2
<1> QED
  BY <1>1, <1>2, ShapeInvariance, PTL DEF BucketSpec, RefinesIdeal, Ideal!Spec
=============================================================================
