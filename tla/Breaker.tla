------------------------------ MODULE Breaker ------------------------------
(***************************************************************************)
(* The circuit breaker of internal/store/breaker: a decorator that stops   *)
(* calling a failing store.  Each request goroutine (a Caller) runs        *)
(*                                                                         *)
(*     allow()  ->  inner.Consume / inner.Take  ->  record(err == nil)     *)
(*                                                                         *)
(* and only allow() and record() hold the mutex, so calls overlap freely.  *)
(*                                                                         *)
(* Time passes in ticks.  openUntil is kept as the ticks still to wait,    *)
(* or Zero for the zero time.Time (circuit closed), so that time is        *)
(* unbounded and the state space is not.                                   *)
(***************************************************************************)
EXTENDS Integers, FiniteSets

CONSTANTS
    Caller,     \* request goroutines
    Threshold,  \* Options.Threshold; 0 disables the breaker
    Cooldown,   \* Options.Cooldown, in ticks
    MaxCall     \* bound: ticks an inner call may take (the client's timeouts)

ASSUME BreakerAssumption ==
    /\ Threshold \in Nat
    /\ Cooldown \in Nat
    /\ MaxCall \in Nat

VARIABLES
    failures,   \* consecutive failures, saturating at Threshold: the code
                \* only ever compares it with the threshold
    openUntil,  \* ticks until a probe may be admitted, or Zero
    probing,    \* a probe has been admitted and nothing recorded since
    pc,         \* where each caller is in Consume / Take
    running,    \* ticks since each caller's inner call was admitted
    health,     \* the inner store: "up", "flaky" or "down"
    probes,     \* history: callers whose call in progress is a probe
    sinceProbe, \* history: ticks since a probe was admitted, up to Cooldown
    leaked      \* history: the probe panicked and nothing was recorded since

state       == <<failures, openUntil, probing>>
breakerVars == <<state, pc, running, health, probes, sinceProbe, leaked>>

Zero == -1

Upto(n, cap) == IF n < cap THEN n + 1 ELSE cap

BreakerInit ==
    /\ failures = 0
    /\ openUntil = Zero
    /\ probing = FALSE
    /\ pc = [c \in Caller |-> "idle"]
    /\ running = [c \in Caller |-> 0]
    /\ health = "up"
    /\ probes = {}
    /\ sinceProbe = Cooldown
    /\ leaked = FALSE

\* Mutant: the circuit counts as closed once the cooldown is over.
isOpenCoolingDown == openUntil > 0

isOpenLocked == openUntil # Zero

(***************************************************************************)
(* allow(): the call goes through, goes through as the probe, or is        *)
(* answered ErrOpen.                                                       *)
(***************************************************************************)
Begin(c) ==
    /\ pc' = [pc EXCEPT ![c] = "inner"]
    /\ running' = [running EXCEPT ![c] = 0]

Admit(c) ==
    /\ pc[c] = "idle"
    /\ Threshold = 0 \/ ~isOpenLocked
    /\ Begin(c)
    /\ UNCHANGED <<state, health, probes, sinceProbe, leaked>>

\* Mutant: the cooldown is not awaited.
MayProbeEarly == ~probing
\* Mutant: several probes at once.
MayProbeAgain == openUntil = 0

MayProbe == ~probing /\ openUntil = 0

Probe(c) ==
    /\ pc[c] = "idle"
    /\ Threshold > 0 /\ isOpenLocked /\ MayProbe
    /\ probing' = TRUE
    /\ Begin(c)
    /\ probes' = probes \union {c}
    /\ sinceProbe' = 0
    /\ UNCHANGED <<failures, openUntil, health, leaked>>

Suppress(c) ==
    /\ pc[c] = "idle"
    /\ Threshold > 0 /\ isOpenLocked /\ ~MayProbe
    /\ pc' = [pc EXCEPT ![c] = "errOpen"]
    /\ UNCHANGED <<state, running, health, probes, sinceProbe, leaked>>

Return(c) ==
    /\ pc[c] = "errOpen"
    /\ pc' = [pc EXCEPT ![c] = "idle"]
    /\ UNCHANGED <<state, running, health, probes, sinceProbe, leaked>>

(***************************************************************************)
(* The inner call, seen from here: it returns a result, returns an error   *)
(* (an outage, a timeout, a client that went away) or, of a flaky store,   *)
(* panics.  The engine recovers the panic above the breaker, so record is  *)
(* skipped.                                                                *)
(***************************************************************************)
InnerOk(c) ==
    /\ pc[c] = "inner" /\ health # "down"
    /\ pc' = [pc EXCEPT ![c] = "ok"]
    /\ UNCHANGED <<state, running, health, probes, sinceProbe, leaked>>

InnerErr(c) ==
    /\ pc[c] = "inner" /\ health # "up"
    /\ pc' = [pc EXCEPT ![c] = "err"]
    /\ UNCHANGED <<state, running, health, probes, sinceProbe, leaked>>

InnerPanic(c) ==
    /\ pc[c] = "inner" /\ health = "flaky"
    /\ pc' = [pc EXCEPT ![c] = "idle"]
    /\ running' = [running EXCEPT ![c] = 0]
    /\ probes' = probes \ {c}
    /\ leaked' = (leaked \/ c \in probes)
    /\ UNCHANGED <<state, health, sinceProbe>>

(***************************************************************************)
(* record(success)                                                         *)
(***************************************************************************)
\* Mutant: a success restarts the count and leaves the circuit open.
RecordSuccessStayOpen ==
    /\ failures' = 0
    /\ UNCHANGED openUntil

RecordSuccess ==
    /\ failures' = 0
    /\ openUntil' = Zero

RecordFailure ==
    /\ failures' = Upto(failures, Threshold)
    /\ openUntil' = IF failures' >= Threshold THEN Cooldown ELSE openUntil

\* Mutant: only a success ends the probe.
RecordKeepProbing(success) ==
    IF Threshold = 0 THEN UNCHANGED state
    ELSE /\ probing' = (probing /\ ~success)
         /\ IF success THEN RecordSuccess ELSE RecordFailure

record(success) ==
    IF Threshold = 0 THEN UNCHANGED state
    ELSE /\ probing' = FALSE
         /\ IF success THEN RecordSuccess ELSE RecordFailure

Record(c) ==
    /\ pc[c] \in {"ok", "err"}
    /\ record(pc[c] = "ok")
    /\ pc' = [pc EXCEPT ![c] = "idle"]
    /\ running' = [running EXCEPT ![c] = 0]
    /\ probes' = probes \ {c}
    /\ leaked' = FALSE
    /\ UNCHANGED <<health, sinceProbe>>

(***************************************************************************)
(* The environment: the store's health changes, time passes.  A call that  *)
(* has used up MaxCall ends before the clock moves on.                     *)
(***************************************************************************)
InFlight(c) == pc[c] \in {"inner", "ok", "err"}

HealthChange ==
    /\ health' \in {"up", "flaky", "down"} \ {health}
    /\ UNCHANGED <<state, pc, running, probes, sinceProbe, leaked>>

BreakerTick ==
    /\ \A c \in Caller : InFlight(c) => running[c] < MaxCall
    /\ openUntil' = IF openUntil > 0 THEN openUntil - 1 ELSE openUntil
    /\ running' = [c \in Caller |-> IF InFlight(c) THEN running[c] + 1 ELSE 0]
    /\ sinceProbe' = Upto(sinceProbe, Cooldown)
    /\ UNCHANGED <<failures, probing, pc, health, probes, leaked>>

BreakerNext ==
    \/ \E c \in Caller :
          \/ Admit(c) \/ Probe(c) \/ Suppress(c) \/ Return(c)
          \/ InnerOk(c) \/ InnerErr(c) \/ InnerPanic(c) \/ Record(c)
    \/ HealthChange
    \/ BreakerTick

BreakerSpec == BreakerInit /\ [][BreakerNext]_breakerVars

(***************************************************************************)
(* Fairness: the scheduler runs every goroutine that can run, the inner    *)
(* call returns (its timeouts see to that), time passes, and requests keep *)
(* arriving.  Nothing is assumed about the store's health or about panics. *)
(***************************************************************************)
Answer(c) == InnerOk(c) \/ InnerErr(c) \/ InnerPanic(c) \/ Record(c) \/ Return(c)
Arrive(c) == Admit(c) \/ Probe(c) \/ Suppress(c)

Fairness ==
    /\ WF_breakerVars(BreakerTick)
    /\ \A c \in Caller : WF_breakerVars(Answer(c)) /\ WF_breakerVars(Arrive(c))

FairSpec == BreakerSpec /\ Fairness

----------------------------------------------------------------------------
(***************************************************************************)
(* Properties                                                              *)
(***************************************************************************)

\* Types of the breaker's state, the callers and the history variables.
BreakerTypeOK ==
    /\ failures \in 0..Threshold
    /\ openUntil \in Zero..Cooldown
    /\ probing \in BOOLEAN
    /\ pc \in [Caller -> {"idle", "inner", "ok", "err", "errOpen"}]
    /\ running \in [Caller -> 0..MaxCall]
    /\ health \in {"up", "flaky", "down"}
    /\ probes \in SUBSET Caller
    /\ sinceProbe \in 0..Cooldown
    /\ leaked \in BOOLEAN

\* The circuit is open exactly when the failure count has reached the
\* threshold: however calls overlap, allow (which looks at openUntil) and
\* record (which looks at failures) never disagree on whether it is open, and
\* a disabled breaker never opens.
OpenIffTripped ==
    isOpenLocked <=> Threshold > 0 /\ failures >= Threshold

\* While `probing` refuses everyone, some caller that will clear it is still
\* in its call, unless the probe panicked: a flag without an owner would keep
\* the circuit open for good.
ProbingHasOwner ==
    probing => leaked \/ \E c \in probes : InFlight(c)

\* While calls end sooner than the cooldown, at most one probe is at the store
\* (allow: "admitting exactly one probe once the cooldown has elapsed"), even
\* though a call admitted before the trip may clear `probing` under it.
AtMostOneProbe ==
    \A c, d \in probes : c = d

\* A probe is admitted only when the previous one was admitted at least a
\* cooldown ago, whatever earlier calls record in between.
ProbesSpaced ==
    [][\A c \in Caller : c \in probes' \ probes => sinceProbe >= Cooldown]_breakerVars

\* Once the store is healthy for good the circuit closes for good, without
\* intervention (docs/operations.md: "recovery is automatic").
Recovers ==
    <>[](health = "up") => <>[]~isOpenLocked

\* The same, with the one exception: a probe panicked and its flag stayed.
RecoversUnlessLeaked ==
    <>[](health = "up") => <>[]~isOpenLocked \/ <>[]leaked

\* Once the store is down for good the circuit opens for good (unless
\* disabled): no call that was under way when it tripped can close it again.
Trips ==
    <>[](health = "down") => <>[](isOpenLocked \/ Threshold = 0)

=============================================================================
