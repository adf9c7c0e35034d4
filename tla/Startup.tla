------------------------------ MODULE Startup ------------------------------
(***************************************************************************)
(* main.go's run, from the environment and the limiter file to a process   *)
(* that answers checks, or to one that refuses to start: Settings,         *)
(* LimiterFile and RequestKey put together.  A trial is one start: an      *)
(* environment, a file, the -validate flag, and which requests arrive.     *)
(***************************************************************************)
EXTENDS RequestKey

CONSTANTS
    Trials,   \* the starts examined
    Requests  \* the requests of each kind of trial

VARIABLES
    trial,   \* the start under way; never changes
    phase,   \* how far run has come
    conf,    \* config.Config, <<>> before Load
    built,   \* config.Built, <<>> before Build
    at,      \* position of Build's loop, 0 before it
    layers,  \* the layers of the store, outermost first
    said,    \* the warnings and errors printed or logged
    asked,   \* the last request, <<>> before the first
    charged  \* the bucket of each limiter for it, <<>> where it does not apply

startVars == <<trial, phase, conf, built, at, layers, said, asked, charged>>

\* What is said of the process rather than of a limiter; nameRe accepts no blank.
Remarks == {"redis disabled", "large TTL", "skip verify", "no limiters",
            "store disabled", "cannot build store"}

ASSUME NamesAssumption == Names \intersect Remarks = {}

ASSUME TrialsAssumption ==
    \A t \in Trials : IsEnvironment(t.env) /\ IsFile(t.file) /\ t.validate \in BOOLEAN

\* What arrives: the texts of the proxy's request, the query parameters and
\* headers, and the leaves of the body.
IsRequest(r) ==
    /\ r.uri \in Texts /\ r.url \in Texts
    /\ \A q \in {r.uriQuery, r.urlQuery, r.header} : \A n \in DOMAIN q : q[n] \in Texts
    /\ \A p \in DOMAIN r.body : r.body[p].text \in Texts

ASSUME RequestsAssumption == \A t \in Trials : \A r \in Requests[t.requests] : IsRequest(r)

StartInit ==
    /\ trial \in Trials
    /\ phase = "boot"
    /\ conf = <<>> /\ built = <<>> /\ at = 0 /\ layers = <<>> /\ said = {}
    /\ asked = <<>> /\ charged = <<>>

Refuse == phase' = "exit" /\ UNCHANGED <<trial, conf, built, at, layers, said, asked, charged>>

\* config.Load
Load ==
    /\ phase = "boot"
    /\ IF LoadErrors(trial.env) # {} THEN Refuse
       ELSE /\ phase' = "loaded"
            /\ conf' = Config(trial.env)
            /\ UNCHANGED <<trial, built, at, layers, said, asked, charged>>

\* LoadFile: read, decode (unknown fields are errors) and validate.
LoadFile ==
    /\ phase = "loaded"
    /\ IF ~trial.file.decodes \/ ~Validate(trial.file) THEN Refuse
       ELSE /\ phase' = "read"
            /\ UNCHANGED <<trial, conf, built, at, layers, said, asked, charged>>

\* Build, up to its loop.
BuildFile ==
    /\ phase = "read"
    /\ IF Unreadable(trial.file) THEN Refuse
       ELSE /\ phase' = "building"
            /\ built' = NewBuilt(trial.file)
            /\ at' = 1
            /\ UNCHANGED <<trial, conf, layers, said, asked, charged>>

\* A round of it: the limiter is left out for want of a secret, or its response
\* cannot be read, or it is added.
BuildLimiter ==
    /\ phase = "building" /\ at <= Len(trial.file.limiters)
    /\ LET l == trial.file.limiters[at]
           able == Buildable(l, conf["HASH_SECRET"])
       IN  IF able /\ Unreadable(l) THEN Refuse
           ELSE /\ built' = IF able THEN Add(built, l) ELSE Disable(built, l)
                /\ at' = at + 1
                /\ UNCHANGED <<trial, phase, conf, layers, said, asked, charged>>

BuildEnd ==
    /\ phase = "building" /\ at > Len(trial.file.limiters)
    /\ phase' = "built"
    /\ built' = Close(built)
    /\ UNCHANGED <<trial, conf, at, layers, said, asked, charged>>

\* report, for -validate
Report ==
    /\ phase = "built" /\ trial.validate
    /\ phase' = "validated"
    /\ said' = Warnings(conf) \union built.warnings
    /\ UNCHANGED <<trial, conf, built, at, layers, asked, charged>>

\* buildStore with what it logs, the warnings, and the handler.
Serve ==
    /\ phase = "built" /\ ~trial.validate
    /\ phase' = "serving"
    /\ layers' = buildStore(conf)
    /\ said' = Warnings(conf) \union built.warnings
               \union (IF ~On(conf, "REDIS_ENABLED") THEN {"store disabled"} ELSE {})
               \union (IF On(conf, "REDIS_ENABLED") /\ NewFails(conf) THEN {"cannot build store"} ELSE {})
    /\ UNCHANGED <<trial, conf, built, at, asked, charged>>

\* The engine's walk over the limiters, none of which rejects.  Bound: one
\* request per trial, since a check changes nothing that this module keeps.
Buckets(l, r) == IF Applies(l, r) THEN Key(l.key, conf["HASH_SECRET"], r) ELSE {<<>>}

Check(r) ==
    /\ phase = "serving" /\ asked = <<>>
    /\ asked' = <<r>>
    /\ \E c \in [DOMAIN built.limiters -> UNION {Buckets(l, r) : l \in ToSet(built.limiters)}] :
          /\ \A i \in DOMAIN c : c[i] \in Buckets(built.limiters[i], r)
          /\ charged' = c
    /\ UNCHANGED <<trial, phase, conf, built, at, layers, said>>

StartNext ==
    \/ Load \/ LoadFile \/ BuildFile \/ BuildLimiter \/ BuildEnd \/ Report \/ Serve
    \/ \E r \in Requests[trial.requests] : Check(r)

StartSpec == StartInit /\ [][StartNext]_startVars

\* httpapi.New's defaults for the response, and writeBlocked's choice.
NewResponse(r) ==
    [status      |-> IF r.status = 0 THEN 429 ELSE r.status,
     contentType |-> IF r.body = Blank /\ r.contentType = Blank THEN "json" ELSE r.contentType,
     body        |-> IF r.body = Blank THEN "rate_limited" ELSE r.body]

ResponseOf(name) ==
    IF name \in DOMAIN built.responses THEN built.responses[name] ELSE NewResponse(built.default)

----------------------------------------------------------------------------
(***************************************************************************)
(* Properties                                                              *)
(***************************************************************************)
Ready == phase \in {"built", "validated", "serving"}

\* A loaded configuration holds values, never what stands for an unset or
\* unparsable variable; phases and store layers are the known ones.
StartTypeOK ==
    /\ phase \in {"boot", "loaded", "read", "building", "built", "validated", "serving", "exit"}
    /\ conf # <<>> => \A s \in Settings : IF s \in Numbers THEN conf[s] \in -1..2
                                           ELSE s \in Booleans => conf[s] \in {"true", "false"}
    /\ ToSet(layers) \subseteq {"cache", "breaker", "redis", "noop"}
    /\ Len(charged) = IF asked = <<>> THEN 0 ELSE Len(built.limiters)

\* A store that is enabled is the one configured: cache outside breaker
\* outside Redis, each with usable options.  Only a certificate file that is
\* there and cannot be used (which validation does not open) turns it into
\* the store that limits nothing.
StoreAsConfigured ==
    phase = "serving" /\ On(conf, "REDIS_ENABLED") /\ (\A s \in TLSFiles : conf[s] # "bad") =>
        /\ Last(layers) = "redis"
        /\ \A i, j \in DOMAIN layers : layers[i] = "cache" /\ layers[j] = "breaker" => i < j
        /\ "cache" \in ToSet(layers) <=> On(conf, "BLOCK_CACHE_ENABLED")
        /\ "breaker" \in ToSet(layers) <=> conf["STORE_BREAKER_THRESHOLD"] > 0
        /\ "cache" \in ToSet(layers) => conf["BLOCK_CACHE_MAX_ENTRIES"] > 0 /\ conf["BLOCK_CACHE_MAX_TTL"] > 0
        /\ "breaker" \in ToSet(layers) => conf["STORE_BREAKER_COOLDOWN"] > 0

Nodes(key) ==
    LET nodes[k \in KeySpecs] == {k} \union UNION {nodes[p] : p \in Parts(k)}
    IN  nodes[key]

\* Nothing is off in silence: a limiter of the file either runs, with exactly
\* one valid algorithm and all it needs to find its keys, or is named in a
\* warning, and a process that limits nothing has said so (main.go: "Each is a
\* fail-open path, so it must be loud at startup").  The limiters that run
\* stand in the order of the file, since the first to reject decides.
OffIsLoud ==
    phase \in {"validated", "serving"} =>
        /\ \A f \in ToSet(trial.file.limiters) :
              \/ f.name \in said
              \/ /\ \E l \in ToSet(built.limiters) : l.name = f.name /\ l.rule # l.bucket
                 /\ (\E n \in Nodes(Value(f.key)) : n.hash) => conf["HASH_SECRET"] # Blank
        /\ \A i, j \in DOMAIN built.limiters : i <= j =>
              \E m, n \in DOMAIN trial.file.limiters :
                  /\ i = j \/ m < n
                  /\ built.limiters[i].name = trial.file.limiters[m].name
                  /\ built.limiters[j].name = trial.file.limiters[n].name
                  /\ trial.file.limiters[m].name \notin said
        /\ built.limiters = <<>> => "no limiters" \in said
        /\ layers = <<"noop">> => said \intersect {"store disabled", "cannot build store"} # {}

\* -validate answers for the whole start-up path (main.go: "A pre-flight check
\* that exercises the whole start-up path"): when it finds nothing to say, the
\* same configuration starts with the store that was asked for.
PreflightPredicts ==
    phase = "validated" /\ said = {} => buildStore(conf) # <<"noop">>

\* What a rejection looks like: each field is the first one set by the limiter,
\* by the file, or built in; the status is an error whatever the two said.
ResponseResolved ==
    Ready => \A l \in ToSet(trial.file.limiters) :
        LET own(field, none)    == IF Present(l.response) THEN Value(l.response)[field] ELSE none
            shared(field, none) == IF Present(trial.file.response)
                                   THEN Value(trial.file.response)[field] ELSE none
            first(field, none, builtin) ==
                IF own(field, none) # none THEN own(field, none)
                ELSE IF shared(field, none) # none THEN shared(field, none)
                ELSE builtin
            r == ResponseOf(l.name)
        IN  (\E b \in ToSet(built.limiters) : b.name = l.name) =>
                /\ r.status \in 400..599
                /\ r.status = first("status", 0, 429)
                /\ r.contentType = first("contentType", Blank, "json")

\* A path as the list of its segments, the first of them before the leading
\* slash, and without the empty one a trailing slash leaves, folded.
CutAt(segments, c) ==
    IF c = "/" THEN Append(segments, <<>>)
    ELSE [segments EXCEPT ![Len(segments)] = Append(@, c)]

Split(s) ==
    LET upto[n \in 0..Len(s)] == IF n = 0 THEN <<<<>>>> ELSE CutAt(upto[n - 1], s[n])
    IN  upto[Len(s)]

Segments(p) ==
    LET s == Split(Lower(p))
    IN  IF Len(p) > 1 /\ Last(s) = <<>> THEN Front(s) ELSE s

\* Scope, segment by segment: a limiter's path covers itself, and with a last
\* segment "*" everything under it, whatever the case and the trailing slash;
\* methods agree up to case; path and method both have to match.  Compared with
\* the string operations of matchesPath on every short path and pattern.
InScope(l, r) ==
    LET path == Segments(originalPath(r))
        covers(p) == LET s == Segments(p)
                     IN  IF Last(s) = <<"*">> THEN Len(s) = 2 \/ IsPrefix(Front(s), path)
                         ELSE s = path
    IN  /\ l.paths = <<>> \/ \E p \in ToSet(l.paths) : covers(p)
        /\ l.methods = <<>> \/ \E m \in ToSet(l.methods) : m.verb = originalMethod(r).verb

ScopeMatchesReference ==
    asked # <<>> => \A l \in ToSet(built.limiters) : Applies(l, asked[1]) <=> InScope(l, asked[1])

Covered(key) ==
    LET covered[k \in KeySpecs] == k.hash \/ (Parts(k) # {} /\ \A p \in Parts(k) : covered[p])
    IN  covered[key]

\* What is under hash: true never reaches the store as it came: a bucket whose
\* sources are all covered is made of digests and separators (folded, if the key
\* is), whichever source won and whether or not a secret is configured.
HashedStaysHidden ==
    asked # <<>> => \A i \in DOMAIN charged :
        LET k == built.limiters[i].key
        IN  Covered(k) => \A c \in ToSet(charged[i]) :
                              IsDigest(c) \/ \E n \in Nodes(k) : c \in {Separator(n), Fold(Separator(n))}

\* A limiter in scope goes without a bucket only when the request has nothing
\* to key it by.  A query key finds its parameter however the name is spelled
\* ("a caller varying the case of a parameter name would otherwise yield no key
\* at all"), and prefers the configured spelling when that has a value; a first
\* key falls back, even where an earlier part normalises to nothing ("try the
\* next one rather than giving up on the limiter").
KeyedIfPossible ==
    asked # <<>> => \A i \in DOMAIN charged :
        LET l == built.limiters[i]
            q == originalQuery(asked[1])
            valued == {n \in ToSet(l.key.query) \intersect DOMAIN q : TrimSpace(q[n]) # <<>>}
            K(p) == Key(p, conf["HASH_SECRET"], asked[1])
        IN  Applies(l, asked[1]) =>
                /\ l.key.query # <<>> /\ l.key.normalise = Blank /\ ~l.key.hash =>
                      /\ charged[i] = <<>> <=> \A n \in ToSet(l.key.query) : Spellings(q, n) = {}
                      /\ valued # {} => \E n \in valued : charged[i] = TrimSpace(q[n])
                /\ l.key.first # <<>> /\ charged[i] = <<>> =>
                      \A p \in ToSet(l.key.first) : \E v \in K(p) : Normalise(l.key, v) = <<>>

\* A composite keeps its parts apart: requests that may share a bucket may agree
\* on every part, unless a part contains the separator or the whole is normalised.
CompositeSeparates ==
    asked # <<>> => \A i \in DOMAIN charged : \A r \in Requests[trial.requests] :
        LET l == built.limiters[i]
            parts(q) == [j \in DOMAIN l.key.composite |-> Key(l.key.composite[j], conf["HASH_SECRET"], q)]
            plain(q) == \A j \in DOMAIN l.key.composite : \A v \in parts(q)[j] : ~Contains(v, Separator(l.key))
        IN  (/\ l.key.composite # <<>> /\ l.key.normalise = Blank /\ charged[i] # <<>>
             /\ charged[i] \in Buckets(l, r) /\ plain(r) /\ plain(asked[1]))
            => \A j \in DOMAIN l.key.composite : parts(r)[j] \intersect parts(asked[1])[j] # {}
=============================================================================
