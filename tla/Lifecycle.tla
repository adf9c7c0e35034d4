----------------------------- MODULE Lifecycle -----------------------------
(***************************************************************************)
(* The process of cmd/forwardlimit: run() loads, builds the store chain,   *)
(* serves until a signal or a server failure, drains, closes the store and *)
(* exits, while the listener, the request handlers, the metrics publisher  *)
(* and the cache's sweeper run as goroutines of their own.                 *)
(*                                                                         *)
(* net/http and the signal handling of the runtime are modelled from how   *)
(* run and serve use them.  A handler may take for ever: the server sets   *)
(* no limit on reading a body.                                             *)
(***************************************************************************)
EXTENDS Integers

CONSTANT Request  \* connections the proxy may open

VARIABLES
    main,       \* run's progress
    result,     \* what run returns, or how the process ends
    store,      \* "none", "noop", "open" or "closed"
    closes,     \* how often the chain was closed
    chain,      \* [breaker, cache]: which decorators buildStore added
    server,     \* the listening goroutine
    notified,   \* signals are delivered to the context
    cancelled,  \* the context is done
    request,    \* each connection's check
    metClosed,  \* history: checks whose store call found the store closed
    publisher,  \* the goroutine of publishStoreMetrics
    sweeper,    \* the goroutine of blockcache.New
    open,       \* the breaker's state, as Open() reports it
    gauge       \* the published gauge

process == <<main, result>>
storage == <<store, closes, chain, sweeper>>
signals == <<notified, cancelled>>
checks  == <<request, metClosed>>
metrics == <<publisher, open, gauge>>
vars    == <<process, storage, server, signals, checks, metrics>>

Init ==
    /\ main = "load" /\ result = "none"
    /\ store = "none" /\ closes = 0 /\ sweeper = "off"
    /\ chain = [breaker |-> FALSE, cache |-> FALSE]
    /\ server = "off"
    /\ notified = FALSE /\ cancelled = FALSE
    /\ request = [r \in Request |-> "none"] /\ metClosed = {}
    /\ publisher = "off" /\ open = FALSE /\ gauge = FALSE

Running(r) == request[r] \in {"evaluating", "responding"}

(***************************************************************************)
(* run, up to the store                                                    *)
(***************************************************************************)
\* -healthcheck: another instance answers 200 or it does not.
probeHealth == {"ok", "error"}

\* The environment, the flags or the file are wrong; or the command line asks
\* for something else than serving.
LoadEnds ==
    /\ main = "load"
    /\ main' = "exited"
    /\ result' \in {"error"} \union probeHealth
    /\ UNCHANGED <<storage, server, signals, checks, metrics>>

Loaded ==
    /\ main = "load"
    /\ main' = "build"
    /\ UNCHANGED <<result, storage, server, signals, checks, metrics>>

\* A disabled store, or one that cannot be built, leaves the no-op store; an
\* unreachable one is only logged.
BuildNoop ==
    /\ main = "build"
    /\ main' = "start"
    /\ store' = "noop"
    /\ UNCHANGED <<result, closes, chain, sweeper, server, signals, checks, metrics>>

BuildStore ==
    /\ main = "build"
    /\ main' = "start"
    /\ store' = "open"
    /\ chain' \in [breaker : BOOLEAN, cache : BOOLEAN]
    /\ sweeper' = IF chain'.cache THEN "running" ELSE "off"
    /\ UNCHANGED <<result, closes, server, signals, checks, metrics>>

\* NotifyContext, the publisher, and serve's own goroutine.
Start ==
    /\ main = "start"
    /\ main' = "serving"
    /\ notified' = TRUE
    /\ publisher' = "starting"
    /\ server' = "starting"
    /\ UNCHANGED <<result, storage, cancelled, checks, open, gauge>>

(***************************************************************************)
(* The goroutine of ListenAndServe.  A failure goes to errCh; the server   *)
(* closed by Shutdown, possibly before it listened, sends nothing.         *)
(***************************************************************************)
Listen ==
    /\ server = "starting"
    /\ server' = "listening"
    /\ UNCHANGED <<process, storage, signals, checks, metrics>>

ListenFails ==
    /\ server \in {"starting", "listening"}
    /\ server' = "failed"
    /\ UNCHANGED <<process, storage, signals, checks, metrics>>

(***************************************************************************)
(* A check: accepted, put to the store, answered.  A closed store is an    *)
(* error to the engine, which fails open.                                  *)
(***************************************************************************)
Accept(r) ==
    /\ server = "listening" /\ request[r] = "none"
    /\ request' = [request EXCEPT ![r] = "evaluating"]
    /\ UNCHANGED <<process, storage, server, signals, metClosed, metrics>>

Evaluate(r) ==
    /\ main # "exited" /\ request[r] = "evaluating"
    /\ request' = [request EXCEPT ![r] = "responding"]
    /\ metClosed' = IF store = "closed" THEN metClosed \union {r} ELSE metClosed
    /\ UNCHANGED <<process, storage, server, signals, metrics>>

Respond(r) ==
    /\ main # "exited" /\ request[r] = "responding"
    /\ request' = [request EXCEPT ![r] = "answered"]
    /\ UNCHANGED <<process, storage, server, signals, metClosed, metrics>>

(***************************************************************************)
(* serve's select, and Shutdown                                            *)
(***************************************************************************)
ErrReceived == server = "failed"

ServeFails ==
    /\ main = "serving" /\ ErrReceived
    /\ main' = "stop"
    /\ result' = "error"
    /\ UNCHANGED <<storage, server, signals, checks, metrics>>

\* Shutdown stops the listener at once.  When a failure and the signal are
\* both there, select takes either.
ShutdownStart ==
    /\ main = "serving" /\ cancelled
    /\ main' = "draining"
    /\ server' = IF server = "failed" THEN server ELSE "closed"
    /\ UNCHANGED <<result, storage, signals, checks, metrics>>

\* Mutant: the listener is closed, and no one is waited for.
DrainedAlways == TRUE

Drained == \A r \in Request : ~Running(r)

ShutdownDone ==
    /\ main = "draining" /\ Drained
    /\ main' = "stop"
    /\ result' = "ok"
    /\ UNCHANGED <<storage, server, signals, checks, metrics>>

\* Mutant: Shutdown has no deadline.
ShutdownExpiresNever == FALSE

ShutdownExpires == main = "draining"

ShutdownFails ==
    /\ ShutdownExpires
    /\ main' = "stop"
    /\ result' = "error"
    /\ UNCHANGED <<storage, server, signals, checks, metrics>>

(***************************************************************************)
(* run's deferred calls, last one first, and the exit                      *)
(***************************************************************************)
StopNotify ==
    /\ main = "stop"
    /\ main' = "close"
    /\ notified' = FALSE
    /\ cancelled' = TRUE
    /\ UNCHANGED <<result, storage, server, checks, metrics>>

CloseChain == closes + 1

CloseStore ==
    /\ main = "close"
    /\ main' = "returned"
    /\ store' = IF store = "open" THEN "closed" ELSE store
    /\ closes' = CloseChain
    /\ sweeper' = IF sweeper = "running" THEN "stopping" ELSE sweeper
    /\ UNCHANGED <<result, chain, server, signals, checks, metrics>>

\* Whatever is still running ends with the process.
Cut == [r \in Request |-> IF Running(r) THEN "cut" ELSE request[r]]

Exit ==
    /\ main = "returned"
    /\ main' = "exited"
    /\ request' = Cut
    /\ UNCHANGED <<result, storage, server, signals, metClosed, metrics>>

\* SIGTERM or SIGINT: delivered to the context, or else the end.
Signal ==
    /\ main # "exited"
    /\ IF notified
       THEN /\ cancelled' = TRUE
            /\ UNCHANGED <<process, request>>
       ELSE /\ main' = "exited" /\ result' = "killed"
            /\ request' = Cut
            /\ UNCHANGED cancelled
    /\ UNCHANGED <<storage, server, notified, metClosed, metrics>>

(***************************************************************************)
(* publishStoreMetrics, the sweeper's end, and the breaker changing state  *)
(***************************************************************************)
\* publish: the hit count is left out.
Published == IF chain.breaker THEN open ELSE gauge

PublishFirst ==
    /\ main # "exited" /\ publisher = "starting"
    /\ publisher' = "ticking"
    /\ gauge' = Published
    /\ UNCHANGED <<process, storage, server, signals, checks, open>>

\* Mutant: the gauges are published once.
PublishTickNever == FALSE

PublishTick == publisher = "ticking"

Publish ==
    /\ main # "exited" /\ PublishTick
    /\ gauge' = Published
    /\ UNCHANGED <<process, storage, server, signals, checks, publisher, open>>

PublisherStops ==
    /\ main # "exited" /\ publisher = "ticking" /\ cancelled
    /\ publisher' = "stopped"
    /\ UNCHANGED <<process, storage, server, signals, checks, open, gauge>>

SweeperStops ==
    /\ main # "exited" /\ sweeper = "stopping"
    /\ sweeper' = "stopped"
    /\ UNCHANGED <<process, store, closes, chain, server, signals, checks, metrics>>

BreakerFlips ==
    /\ main # "exited" /\ chain.breaker
    /\ open' = ~open
    /\ UNCHANGED <<process, storage, server, signals, checks, publisher, gauge>>

Main ==
    \/ LoadEnds \/ Loaded \/ BuildNoop \/ BuildStore \/ Start
    \/ ServeFails \/ ShutdownStart \/ ShutdownDone \/ ShutdownFails
    \/ StopNotify \/ CloseStore \/ Exit

Next ==
    \/ Main
    \/ Listen \/ ListenFails
    \/ \E r \in Request : Accept(r) \/ Evaluate(r) \/ Respond(r)
    \/ PublishFirst \/ Publish \/ PublisherStops \/ SweeperStops
    \/ Signal \/ BreakerFlips

(***************************************************************************)
(* Fairness: run makes progress, its waits being bounded by the ping's and *)
(* Shutdown's deadlines, and the publisher's ticker fires.  Nothing is     *)
(* assumed of the handlers, which wait for their clients.                  *)
(***************************************************************************)
Spec ==
    /\ Init /\ [][Next]_vars
    /\ WF_vars(Main)
    /\ WF_vars(PublishFirst) /\ WF_vars(Publish)

----------------------------------------------------------------------------
\* Types of the process, its goroutines and the checks; the store is closed
\* at most once.
TypeOK ==
    /\ main \in {"load", "build", "start", "serving", "draining", "stop", "close",
                 "returned", "exited"}
    /\ result \in {"none", "ok", "error", "killed"}
    /\ store \in {"none", "noop", "open", "closed"} /\ closes \in 0..1
    /\ chain \in [breaker : BOOLEAN, cache : BOOLEAN]
    /\ server \in {"off", "starting", "listening", "failed", "closed"}
    /\ notified \in BOOLEAN /\ cancelled \in BOOLEAN
    /\ request \in [Request -> {"none", "evaluating", "responding", "answered", "cut"}]
    /\ metClosed \in SUBSET Request
    /\ publisher \in {"off", "starting", "ticking", "stopped"}
    /\ sweeper \in {"off", "running", "stopping", "stopped"}
    /\ open \in BOOLEAN /\ gauge \in BOOLEAN

\* A process that exits with success has lost nothing: every check it accepted
\* was answered, none of them on a closed store, and the store was closed.
CleanExitLosesNothing ==
    main = "exited" /\ result = "ok" =>
        /\ \A r \in Request : request[r] \in {"none", "answered"}
        /\ metClosed = {}
        /\ store # "open"

\* A signal ends the process, however long a handler takes, and so does a
\* server that cannot listen or stops accepting: the process does not stay
\* behind with its port closed and its health unknown.
ProcessStops ==
    (cancelled \/ server = "failed") ~> main = "exited"

\* The gauge follows the breaker while the process serves: a circuit that
\* stays open, or closed, is eventually published as such for good.
GaugeFollowsBreaker ==
    \A b \in BOOLEAN :
        <>[](main = "serving" /\ chain.breaker /\ open = b) => <>[](gauge = b)
=============================================================================
