------------------------------- MODULE Engine -------------------------------
(***************************************************************************)
(* internal/limiter: Engine.Evaluate runs a request through the limiters   *)
(* in order.  A limiter is known by its position, which also stands for    *)
(* its (unique) name.  What the request and the store will do at each      *)
(* limiter (out of scope, no key, a keyer or store that panics, an error,  *)
(* a refusal) is drawn once, in Init, as `world`, so that the same world   *)
(* can be put to a reference definition.                                   *)
(***************************************************************************)
EXTENDS Integers, Sequences

CONSTANTS
    Kinds,       \* limiter configurations: [rule, bucket, dryRun, advise]
    MaxLimiters  \* bound: length of the configured list

ASSUME EngineAssumption ==
    /\ Kinds \subseteq [rule : BOOLEAN, bucket : BOOLEAN, dryRun : BOOLEAN, advise : BOOLEAN]
    /\ MaxLimiters \in Nat

\* What a limiter meets: Applies is false; the keyer has no opinion; the keyer
\* panics; the store fails (or panics), refuses or allows.
Fate == {"unscoped", "unkeyed", "keyerPanic", "error", "refused", "allowed"}

VARIABLES
    limiters,  \* Engine.limiters; rule and bucket say whether each is Valid
    world,     \* what the request and the store do at each limiter
    next,      \* position of the loop, beyond the list when it has returned
    d,         \* the Decision; source is the limiter Count and RetryAfter
               \* came from
    calls      \* history: the store calls made, [limiter, algorithm]

engineVars == <<limiters, world, next, d, calls>>

NoLimiter == 0

NoDecision ==
    [blocked |-> FALSE, dryRun |-> FALSE, limiter |-> NoLimiter, source |-> NoLimiter,
     advise |-> FALSE, evaluations |-> <<>>]

EngineInit ==
    /\ \E len \in 0..MaxLimiters :
          /\ limiters \in [1..len -> Kinds]
          /\ world \in [1..len -> Fate]
    /\ next = 1
    /\ d = NoDecision
    /\ calls = <<>>

Active(l) == l.rule \/ l.bucket

Returned == next > Len(limiters)

Skipped(i) == world[i] = "unscoped" \/ ~Active(limiters[i])

\* e.bucket: a keyer's panic is recovered into "does not apply".
Keyed(i) == world[i] \notin {"unkeyed", "keyerPanic"}

Algorithm(l) == IF l.bucket THEN "Take" ELSE "Consume"

\* e.apply: the store is called with the limiter's algorithm.
Apply(i) ==
    /\ calls' = Append(calls, [limiter |-> i, algorithm |-> Algorithm(limiters[i])])
    /\ UNCHANGED <<limiters, world>>

Evaluated(dec, i, verdict) ==
    [dec EXCEPT !.evaluations = Append(@, [limiter |-> i, verdict |-> verdict])]

Continue ==
    /\ ~Returned
    /\ Skipped(next) \/ ~Keyed(next)
    /\ next' = next + 1
    /\ UNCHANGED <<limiters, world, d, calls>>

Reaches(fate) ==
    /\ ~Returned
    /\ ~Skipped(next) /\ Keyed(next) /\ world[next] = fate
    /\ Apply(next)

StoreError ==
    /\ Reaches("error")
    /\ d' = Evaluated(d, next, "failed_open")
    /\ next' = next + 1

WouldBlock(dec, i) ==
    IF dec.blocked THEN dec
    ELSE [dec EXCEPT !.blocked = TRUE, !.dryRun = TRUE, !.limiter = i, !.source = i]

\* Mutant: a dry-run refusal ends the evaluation like an enforced one.
AfterDryRunStop(i) == Len(limiters) + 1
AfterDryRun(i) == i + 1

DryRunRefused ==
    /\ Reaches("refused") /\ limiters[next].dryRun
    /\ d' = WouldBlock(Evaluated(d, next, "would_block"), next)
    /\ next' = AfterDryRun(next)

\* Mutant: an enforced block keeps the mark of an earlier dry-run verdict.
EnforceKeepDryRun(dec, i) ==
    [dec EXCEPT !.blocked = TRUE, !.limiter = i, !.source = i, !.advise = limiters[i].advise]
Enforce(dec, i) ==
    [dec EXCEPT !.blocked = TRUE, !.dryRun = FALSE, !.limiter = i, !.source = i,
                !.advise = limiters[i].advise]

Refused ==
    /\ Reaches("refused") /\ ~limiters[next].dryRun
    /\ d' = Evaluated(Enforce(d, next), next, "blocked")
    /\ next' = Len(limiters) + 1

StoreAllowed ==
    /\ Reaches("allowed")
    /\ d' = Evaluated(d, next, "allowed")
    /\ next' = next + 1

EvaluateStep == Continue \/ StoreError \/ DryRunRefused \/ Refused \/ StoreAllowed

\* Decision.Rejected
Rejected(dec) == dec.blocked /\ ~dec.dryRun

\* Decision.FailedOpen
FailedOpen(dec) ==
    \E i \in 1..Len(dec.evaluations) : dec.evaluations[i].verdict = "failed_open"

----------------------------------------------------------------------------
(***************************************************************************)
(* The reference: what the configured list should decide, stated without   *)
(* the loop and without any dry-run limiter.                               *)
(***************************************************************************)
Counts(i) == Active(limiters[i]) /\ world[i] \in {"error", "refused", "allowed"}

Refusers == {i \in 1..Len(limiters) :
                Counts(i) /\ ~limiters[i].dryRun /\ world[i] = "refused"}

\* The limiter that should reject the request, or none.
Decider ==
    IF Refusers = {} THEN NoLimiter
    ELSE CHOOSE i \in Refusers : \A j \in Refusers : i <= j

\* The limiters that should be put to the store.
Consulted ==
    {i \in 1..Len(limiters) : Counts(i) /\ (Decider = NoLimiter \/ i <= Decider)}

\* First enforced refusal wins, and dry-run limiters decide nothing: the
\* request is rejected exactly when some enforced limiter's store call refused
\* it, by the first such limiter, with its own count, wait and Retry-After
\* policy, as if the dry-run limiters were not configured.  A dry-run verdict
\* does not mix limiters either, and is the first refusal of the request.
DecisionMatchesReference ==
    Returned =>
        /\ Rejected(d) <=> Decider # NoLimiter
        /\ Rejected(d) => /\ d.limiter = Decider /\ d.source = Decider
                          /\ d.advise = limiters[Decider].advise
        /\ d.blocked /\ d.dryRun =>
              /\ d.source = d.limiter
              /\ \A i \in 1..(d.limiter - 1) : Counts(i) => world[i] # "refused"

\* Every limiter that takes part is put to the store exactly once, in order,
\* with the algorithm that is valid for it, and none after the one that
\* rejects; each leaves one evaluation.
StoreConsultedOnce ==
    Returned =>
        /\ {calls[n].limiter : n \in 1..Len(calls)} = Consulted
        /\ \A m, n \in 1..Len(calls) : m < n => calls[m].limiter < calls[n].limiter
        /\ \A n \in 1..Len(calls) :
              LET l == limiters[calls[n].limiter]
              IN  calls[n].algorithm = "Take" <=> l.bucket
        /\ [n \in 1..Len(calls) |-> calls[n].limiter]
              = [n \in 1..Len(d.evaluations) |-> d.evaluations[n].limiter]
=============================================================================
