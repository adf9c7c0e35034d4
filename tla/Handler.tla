------------------------------ MODULE Handler ------------------------------
(***************************************************************************)
(* internal/httpapi: one request to /check, from the body to the response  *)
(* and the metrics, around the engine's Evaluate.  The handler runs inside *)
(* recoverAndAllow, so a panic at any point outside the engine's own       *)
(* recovery turns into an allow, unless a status has gone out already.     *)
(***************************************************************************)
EXTENDS Engine, FiniteSets

VARIABLES
    pc,           \* "read", "evaluate", "respond", "write" or "done"
    status,       \* the status sent: "none", "ok" or "rejected"
    response,     \* whose response was sent, and whether with Retry-After
    decisions,    \* metrics: the (limiter, verdict) samples recorded
    storeErrors,  \* metrics: forwardlimit_store_errors_total
    observed,     \* metrics: latency samples
    panicked      \* history: where the handler panicked, or "no"

handlerVars == <<pc, status, response, decisions, storeErrors, observed, panicked>>
vars == <<engineVars, handlerVars>>

NoResponse == [limiter |-> NoLimiter, retryAfter |-> FALSE]

Init ==
    /\ EngineInit
    /\ pc = "read"
    /\ status = "none"
    /\ response = NoResponse
    /\ decisions = <<>>
    /\ storeErrors = 0
    /\ observed = 0
    /\ panicked = "no"

\* The labels of samples that belong to no limiter.
BodyLabel  == -1
PanicLabel == -2

Sample(limiter, verdict) == [limiter |-> limiter, verdict |-> verdict]

\* readBody: the body is absent, read in full, unreadable (and then treated as
\* absent), or longer than maxBody.
BodyRead == {"absent", "full", "unreadable", "truncated"}

ReadBody ==
    /\ pc = "read"
    /\ pc' = "evaluate"
    /\ \E body \in BodyRead :
          decisions' = IF body = "truncated"
                       THEN Append(decisions, Sample(BodyLabel, "failed_open"))
                       ELSE decisions
    /\ UNCHANGED <<engineVars, status, response, storeErrors, observed, panicked>>

Evaluate ==
    /\ pc = "evaluate"
    /\ EvaluateStep
    /\ UNCHANGED handlerVars

\* Mutant: a store error is not counted among the decisions.
SamplesWithoutErrors(dec) ==
    IF dec.evaluations = <<>> THEN <<Sample(NoLimiter, "allowed")>>
    ELSE SelectSeq(dec.evaluations, LAMBDA e : e.verdict # "failed_open")

Samples(dec) ==
    IF dec.evaluations = <<>> THEN <<Sample(NoLimiter, "allowed")>>
    ELSE dec.evaluations

Errors(samples) ==
    Cardinality({k \in 1..Len(samples) : samples[k].verdict = "failed_open"})

\* h.record(d)
Record ==
    /\ pc = "evaluate" /\ Returned
    /\ pc' = "respond"
    /\ decisions' = decisions \o Samples(d)
    /\ storeErrors' = storeErrors + Errors(d.evaluations)
    /\ UNCHANGED <<engineVars, status, response, observed, panicked>>

\* Mutant: the response is built from Blocked.
RejectsBlocked(dec) == dec.blocked

Rejects(dec) == Rejected(dec)

\* Mutant: Retry-After is always sent.
BlockedResponseAdvising(dec) == [limiter |-> dec.limiter, retryAfter |-> TRUE]

BlockedResponse(dec) == [limiter |-> dec.limiter, retryAfter |-> dec.advise]

\* writeBlocked up to WriteHeader
WriteBlocked ==
    /\ pc = "respond" /\ Rejects(d)
    /\ status' = "rejected"
    /\ response' = BlockedResponse(d)
    /\ pc' = "write"
    /\ UNCHANGED <<engineVars, decisions, storeErrors, observed, panicked>>

\* The body is written; handleCheck returns and its deferred ObserveCheck runs.
WriteBody ==
    /\ pc = "write"
    /\ pc' = "done"
    /\ observed' = observed + 1
    /\ UNCHANGED <<engineVars, status, response, decisions, storeErrors, panicked>>

WriteAllowed ==
    /\ pc = "respond" /\ ~Rejects(d)
    /\ status' = "ok"
    /\ pc' = "done"
    /\ observed' = observed + 1
    /\ UNCHANGED <<engineVars, response, decisions, storeErrors, panicked>>

\* Mutant: recovery sends no status.
RecoveredSilently == status

Recovered == IF status = "none" THEN "ok" ELSE status

\* A panic in the handler: ObserveCheck runs while it unwinds, then recovery.
Panic ==
    /\ pc # "done"
    /\ pc' = "done"
    /\ panicked' = pc
    /\ observed' = observed + 1
    /\ decisions' = Append(decisions, Sample(PanicLabel, "failed_open"))
    /\ storeErrors' = storeErrors + 1
    /\ status' = Recovered
    /\ UNCHANGED <<engineVars, response>>

Next == ReadBody \/ Evaluate \/ Record \/ WriteBlocked \/ WriteBody \/ WriteAllowed \/ Panic

\* net/http runs the handler to its end.
Spec == Init /\ [][Next]_vars /\ WF_vars(Next)

----------------------------------------------------------------------------
\* Fail open: a request is rejected exactly when an enforced limiter's store
\* call refused it and nothing panicked before the status went out; never
\* because of a body, a keyer, a store error or a dry-run limiter.
RejectsOnlyOnRefusal ==
    pc = "done" =>
        (status = "rejected" <=> Decider # NoLimiter /\ panicked \in {"no", "write"})

\* What the client sees of a rejection is the deciding limiter's response,
\* with Retry-After only if that limiter advises it.
ResponseIsDeciders ==
    pc = "done" /\ status = "rejected" =>
        response = [limiter |-> Decider, retryAfter |-> limiters[Decider].advise]

\* Nothing fails open unseen: if a store call failed or the handler panicked,
\* a failed_open sample and a store error say so, and the store errors are
\* exactly the failed_open samples other than the truncated body's.
FailOpenIsVisible ==
    pc = "done" =>
        /\ panicked # "no" => storeErrors > 0
        /\ panicked = "no" => /\ FailedOpen(d) <=> storeErrors > 0
                             /\ FailedOpen(d) <=> \E i \in Consulted : world[i] = "error"
        /\ storeErrors = Cardinality({k \in 1..Len(decisions) :
              decisions[k].verdict = "failed_open" /\ decisions[k].limiter # BodyLabel})

\* What docs/architecture.md says of a panic in a keyer: recorded as
\* failed_open.
KeyerPanicRecorded ==
    pc = "done" /\ panicked = "no" =>
        \A i \in 1..Len(limiters) :
            /\ Active(limiters[i]) /\ world[i] = "keyerPanic"
            /\ Decider = NoLimiter \/ i < Decider
            => \E k \in 1..Len(decisions) : decisions[k] = Sample(i, "failed_open")

\* Every request is answered and its latency observed once, also when the
\* handler panics.
Answered ==
    <>(pc = "done" /\ status # "none" /\ observed = 1)
=============================================================================
