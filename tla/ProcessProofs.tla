--------------------------- MODULE ProcessProofs ---------------------------
(***************************************************************************)
(* The process, from its start to its end, for every environment, limiter  *)
(* file and set of requests.                                               *)
(***************************************************************************)
EXTENDS ConfigProofs, Lifecycle

----------------------------------------------------------------------------
(***************************************************************************)
(* The start                                                               *)
(***************************************************************************)
Phases == {"boot", "loaded", "read", "building", "built", "validated", "serving", "exit"}

\* How far run has come, and what it has made by then.
Settled ==
  /\ trial \in Trials
  /\ phase \in Phases
  /\ conf = <<>> \/ conf = Config(trial.env)
  /\ phase \notin {"boot", "exit"} => conf = Config(trial.env) /\ LoadErrors(trial.env) = {}
  /\ phase \in {"read", "building"} \/ Ready => Validate(trial.file)

Building ==
  /\ phase = "building" =>
        /\ at \in 1..(Len(trial.file.limiters) + 1)
        /\ Made(built, trial.file, conf["HASH_SECRET"], at - 1)
  /\ Ready => \E b : /\ Made(b, trial.file, conf["HASH_SECRET"], Len(trial.file.limiters))
                     /\ built = Close(b)

Serving ==
  /\ layers = IF phase = "serving" THEN buildStore(conf) ELSE <<>>
  /\ phase \in {"validated", "serving"} =>
        /\ built.warnings \subseteq said
        /\ said \subseteq Remarks \union built.warnings
  /\ phase = "serving" /\ (~On(conf, "REDIS_ENABLED") \/ NewFails(conf)) =>
        said \intersect {"store disabled", "cannot build store"} # {}
  /\ IF asked = <<>> THEN charged = <<>>
     ELSE phase = "serving" /\ Len(charged) = Len(built.limiters)

IInv == Settled /\ Building /\ Serving

\* Nothing is made yet when run begins.
LEMMA InitIInv == StartInit => IInv
BY DEF StartInit, IInv, Settled, Building, Serving, Phases, Ready

\* Exiting undoes nothing.
LEMMA ExitStep ==
  ASSUME IInv, Refuse, phase # "serving"
  PROVE  IInv'
BY Zenon DEF IInv, Refuse, Settled, Building, Serving, Phases, Ready

\* config.Load: an error ends the start.
LEMMA LoadStep ==
  ASSUME IInv, Load
  PROVE  IInv'
<1>1. phase = "boot"
  BY DEF Load
<1>2. CASE LoadErrors(trial.env) # {}
  BY <1>1, <1>2, ExitStep DEF Load
<1>3. CASE LoadErrors(trial.env) = {}
  BY <1>3 DEF Load, IInv, Settled, Building, Serving, Phases, Ready
<1> QED
  BY <1>2, <1>3

\* LoadFile: the file that is read is valid.
LEMMA LoadFileStep ==
  ASSUME IInv, LoadFile
  PROVE  IInv'
<1>1. phase = "loaded"
  BY DEF LoadFile
<1>2. CASE ~trial.file.decodes \/ ~Validate(trial.file)
  BY <1>1, <1>2, ExitStep DEF LoadFile
<1>3. CASE ~(~trial.file.decodes \/ ~Validate(trial.file))
  <2>1. Validate(trial.file)
    BY <1>3
  <2>2. phase' = "read" /\ UNCHANGED <<trial, conf, built, at, layers, said, asked, charged>>
    BY <1>3, Zenon DEF LoadFile
  <2> QED
    BY <1>1, <2>1, <2>2 DEF IInv, Settled, Building, Serving, Phases, Ready
<1> QED
  BY <1>2, <1>3

\* Build begins its loop with nothing made.
LEMMA BuildFileStep ==
  ASSUME IInv, BuildFile
  PROVE  IInv'
<1>1. phase = "read"
  BY DEF BuildFile
<1>2. CASE Unreadable(trial.file)
  BY <1>1, <1>2, ExitStep DEF BuildFile
<1>3. CASE ~Unreadable(trial.file)
  <2>1. /\ phase' = "building" /\ built' = NewBuilt(trial.file) /\ at' = 1
        /\ UNCHANGED <<trial, conf, layers, said, asked, charged>>
    BY <1>3, Zenon DEF BuildFile
  <2>2. Settled'
    BY <1>1, <2>1 DEF IInv, Settled, Phases, Ready
  <2>3. Building'
    <3>1. Made(NewBuilt(trial.file), trial.file, conf["HASH_SECRET"], 0)
      BY MadeFirst
    <3>2. trial.file.limiters \in Seq(LimiterSpecs)
      BY TrialsAssumption DEF IInv, Settled, IsFile
    <3>3. 1 \in 1..(Len(trial.file.limiters) + 1) /\ 1 - 1 = 0
      BY <3>2
    <3> QED
      BY <2>1, <3>1, <3>3 DEF Building, Ready
  <2>4. Serving'
    BY <1>1, <2>1 DEF IInv, Serving
  <2> QED
    BY <2>2, <2>3, <2>4 DEF IInv
<1> QED
  BY <1>2, <1>3

\* A round of the loop makes one limiter more.
LEMMA BuildLimiterStep ==
  ASSUME IInv, BuildLimiter
  PROVE  IInv'
<1> DEFINE f == trial.file
           F == f.limiters
           l == F[at]
           secret == conf["HASH_SECRET"]
<1>1. phase = "building" /\ at <= Len(F)
  BY DEF BuildLimiter
<1>2. F \in Seq(LimiterSpecs) /\ Validate(f)
  BY <1>1, TrialsAssumption DEF IInv, Settled, IsFile
<1>3. /\ at \in 1..Len(F) /\ at - 1 \in Nat /\ (at - 1) + 1 = at /\ (at + 1) - 1 = at
      /\ at + 1 \in 1..(Len(F) + 1)
  BY <1>1, <1>2 DEF IInv, Building
<1>4. Made(built, f, secret, at - 1)
  BY <1>1 DEF IInv, Building
<1>5. CASE Buildable(l, secret) /\ Unreadable(l)
  BY <1>1, <1>5, ExitStep DEF BuildLimiter
<1>6. CASE ~(Buildable(l, secret) /\ Unreadable(l))
  <2>1. /\ built' = IF Buildable(l, secret) THEN Add(built, l) ELSE Disable(built, l)
        /\ at' = at + 1
        /\ UNCHANGED <<trial, phase, conf, layers, said, asked, charged>>
    BY <1>6, Zenon DEF BuildLimiter
  <2>2. Made(built', f, secret, at)
    <3>1. CASE Buildable(l, secret)
      <4>1. \A m \in 1..(at - 1) : F[m].name # F[(at - 1) + 1].name
        BY <1>2, <1>3 DEF Validate
      <4>2. Made(Add(built, F[(at - 1) + 1]), f, secret, (at - 1) + 1)
        <5> HIDE DEF f, secret
        <5> QED
          BY <1>3, <1>4, <3>1, <4>1, MadeAdd
      <4> QED
        BY <1>3, <2>1, <3>1, <4>2
    <3>2. CASE ~Buildable(l, secret)
      <4>1. Made(Disable(built, F[(at - 1) + 1]), f, secret, (at - 1) + 1)
        <5> HIDE DEF f, secret
        <5> QED
          BY <1>3, <1>4, <3>2, MadeDisable
      <4> QED
        BY <1>3, <2>1, <3>2, <4>1
    <3> QED
      BY <3>1, <3>2
  <2>3. Settled'
    BY <1>1, <2>1 DEF IInv, Settled, Phases, Ready
  <2>4. Building'
    <3>1. at' \in 1..(Len(trial'.file.limiters) + 1) /\ at' - 1 = at
      BY <1>3, <2>1
    <3>2. Made(built', trial'.file, conf'["HASH_SECRET"], at' - 1)
      BY <2>1, <2>2, <3>1
    <3>3. ~Ready'
      BY <1>1, <2>1 DEF Ready
    <3> QED
      BY <3>1, <3>2, <3>3 DEF Building
  <2>5. Serving'
    BY <1>1, <2>1 DEF IInv, Serving
  <2> QED
    BY <2>3, <2>4, <2>5 DEF IInv
<1> QED
  BY <1>5, <1>6

\* After the last round the whole file is made.
LEMMA BuildEndStep ==
  ASSUME IInv, BuildEnd
  PROVE  IInv'
<1>1. /\ phase = "building" /\ at > Len(trial.file.limiters)
      /\ phase' = "built" /\ built' = Close(built)
      /\ UNCHANGED <<trial, conf, at, layers, said, asked, charged>>
  BY DEF BuildEnd
<1>2. trial.file.limiters \in Seq(LimiterSpecs)
  BY TrialsAssumption DEF IInv, Settled, IsFile
<1>3. at - 1 = Len(trial.file.limiters)
  BY <1>1, <1>2 DEF IInv, Building
<1>4. Made(built, trial.file, conf["HASH_SECRET"], Len(trial.file.limiters))
  BY <1>1, <1>3 DEF IInv, Building
<1>5. Settled'
  BY <1>1 DEF IInv, Settled, Phases, Ready
<1>6. Building'
  BY <1>1, <1>4 DEF Building, Ready
<1>7. Serving'
  BY <1>1 DEF IInv, Serving
<1> QED
  BY <1>5, <1>6, <1>7 DEF IInv

\* Whatever is said of the settings names no limiter.
LEMMA SettingsRemarks ==
  \A c : Warnings(c) \subseteq Remarks
BY Zenon DEF Warnings, Remarks

\* report says every warning of the build.
LEMMA ReportStep ==
  ASSUME IInv, Report
  PROVE  IInv'
<1>1. /\ phase = "built" /\ phase' = "validated"
      /\ said' = Warnings(conf) \union built.warnings
      /\ UNCHANGED <<trial, conf, built, at, layers, asked, charged>>
  BY DEF Report
<1>2. Settled'
  BY <1>1 DEF IInv, Settled, Phases, Ready
<1>3. Building'
  BY <1>1 DEF IInv, Building, Ready
<1>4. Serving'
  BY <1>1, SettingsRemarks DEF IInv, Serving
<1> QED
  BY <1>2, <1>3, <1>4 DEF IInv

\* So does the start, with what buildStore logs.
LEMMA StartStep ==
  ASSUME IInv, Serve
  PROVE  IInv'
<1> DEFINE off == IF ~On(conf, "REDIS_ENABLED") THEN {"store disabled"} ELSE {}
           bad == IF On(conf, "REDIS_ENABLED") /\ NewFails(conf) THEN {"cannot build store"} ELSE {}
<1>1. /\ phase = "built" /\ phase' = "serving"
      /\ layers' = buildStore(conf)
      /\ said' = Warnings(conf) \union built.warnings \union off \union bad
      /\ UNCHANGED <<trial, conf, built, at, asked, charged>>
  BY Zenon DEF Serve
<1>2. Settled'
  BY Zenon, <1>1 DEF IInv, Settled, Phases, Ready
<1>3. Building'
  BY Zenon, <1>1 DEF IInv, Building, Ready
<1>4. Serving'
  <2>1. off \subseteq Remarks /\ bad \subseteq Remarks
    BY Zenon DEF Remarks
  <2>2. (~On(conf, "REDIS_ENABLED") \/ NewFails(conf)) =>
           (off \union bad) \intersect {"store disabled", "cannot build store"} # {}
    BY Zenon
  <2> HIDE DEF off, bad
  <2>3. /\ built.warnings \subseteq said' /\ said' \subseteq Remarks \union built.warnings
    BY <1>1, <2>1, SettingsRemarks
  <2>4. (~On(conf, "REDIS_ENABLED") \/ NewFails(conf)) =>
           said' \intersect {"store disabled", "cannot build store"} # {}
    BY Zenon, <1>1, <2>2
  <2>5. asked = <<>> /\ charged = <<>>
    BY <1>1 DEF IInv, Serving
  <2> QED
    BY Zenon, <1>1, <2>3, <2>4, <2>5 DEF Serving
<1> QED
  BY <1>2, <1>3, <1>4 DEF IInv

\* A check charges one bucket for each limiter.
LEMMA CheckStep ==
  ASSUME IInv, NEW r, Check(r)
  PROVE  IInv'
<1>1. /\ phase = "serving" /\ asked' = <<r>>
      /\ UNCHANGED <<trial, phase, conf, built, at, layers, said>>
  BY DEF Check
<1>2. Len(charged') = Len(built.limiters)
  <2>1. PICK S : charged' \in [DOMAIN built.limiters -> S]
    BY Zenon DEF Check
  <2>2. PICK b : /\ Made(b, trial.file, conf["HASH_SECRET"], Len(trial.file.limiters))
                 /\ built = Close(b)
    BY <1>1 DEF IInv, Building, Ready
  <2>3. built.limiters = b.limiters
    <3>1. DOMAIN b = {"limiters", "responses", "default", "warnings"}
      BY <2>2 DEF Made
    <3>2. Close(b).limiters = b.limiters
      BY Zenon, <3>1, Closed
    <3> QED
      BY <2>2, <3>2
  <2> DEFINE T == {BuiltLimiter(trial.file.limiters[m]) :
                      m \in Kept(trial.file, conf["HASH_SECRET"], Len(trial.file.limiters))}
  <2>4. built.limiters \in Seq(T)
    BY <2>2, <2>3, Zenon DEF Made, MadeLimiters
  <2> HIDE DEF T
  <2>5. ASSUME NEW s \in Seq(T), NEW c \in [DOMAIN s -> S]
        PROVE  Len(c) = Len(s)
    <3>1. DOMAIN s = 1..Len(s) /\ Len(s) \in Nat
      OBVIOUS
    <3>2. c \in Seq(S)
      BY <3>1
    <3> QED
      BY <3>1, <3>2
  <2> QED
    BY <2>1, <2>4, <2>5, Zenon
<1>3. Settled'
  BY <1>1 DEF IInv, Settled, Phases, Ready
<1>4. Building'
  BY <1>1 DEF IInv, Building, Ready
<1>5. Serving'
  <2>1. asked' # <<>>
    BY <1>1
  <2> QED
    BY Zenon, <1>1, <1>2, <2>1 DEF IInv, Serving
<1> QED
  BY <1>3, <1>4, <1>5 DEF IInv

\* Every start, whatever its environment and its file.
THEOREM StartInvariance == StartSpec => []IInv
<1>1. IInv /\ [StartNext]_startVars => IInv'
  <2> SUFFICES ASSUME IInv, [StartNext]_startVars
               PROVE  IInv'
    OBVIOUS
  <2>1. CASE UNCHANGED startVars
    BY Zenon, <2>1 DEF startVars, IInv, Settled, Building, Serving, Ready
  <2>2. CASE StartNext
    BY <2>2, LoadStep, LoadFileStep, BuildFileStep, BuildLimiterStep, BuildEndStep,
       ReportStep, StartStep, CheckStep, Zenon DEF StartNext
  <2> QED
    BY <2>1, <2>2
<1> QED
  BY <1>1, InitIInv, PTL DEF StartSpec

\* The layers of a chain are known ones.
LEMMA KnownLayers ==
  \A c : ToSet(buildStore(c)) \subseteq {"cache", "breaker", "redis", "noop"}
<1>1. /\ ToSet(<<"noop">>) = {"noop"}
      /\ ToSet(<<"redis">>) = {"redis"}
      /\ ToSet(<<"breaker", "redis">>) = {"breaker", "redis"}
      /\ ToSet(<<"cache", "redis">>) = {"cache", "redis"}
      /\ ToSet(<<"cache", "breaker", "redis">>) = {"cache", "breaker", "redis"}
  BY DEF ToSet
<1> QED
  BY <1>1, Layers, Zenon

\* A loaded configuration holds values, never what stands for an unset or
\* unparsable variable.
THEOREM StartTypes == StartSpec => []StartTypeOK
<1>1. IInv => StartTypeOK
  <2> SUFFICES ASSUME IInv
               PROVE  StartTypeOK
    OBVIOUS
  <2>1. phase \in Phases
    BY DEF IInv, Settled
  <2>2. ASSUME conf # <<>>
        PROVE  \A s \in Settings : IF s \in Numbers THEN conf[s] \in -1..2
                                   ELSE s \in Booleans => conf[s] \in {"true", "false"}
    <3>1. conf = Config(trial.env) /\ IsEnvironment(trial.env)
      BY <2>2, TrialsAssumption DEF IInv, Settled
    <3>2. IsConfig(conf)
      BY <3>1, Resolved
    <3> QED
      BY <3>2, Zenon DEF IsConfig
  <2>3. ToSet(layers) \subseteq {"cache", "breaker", "redis", "noop"}
    <3>1. ToSet(<<>>) = {}
      BY DEF ToSet
    <3>2. layers = <<>> \/ layers = buildStore(conf)
      BY Zenon DEF IInv, Serving
    <3> QED
      BY <3>1, <3>2, KnownLayers
  <2>4. Len(charged) = IF asked = <<>> THEN 0 ELSE Len(built.limiters)
    BY Zenon DEF IInv, Serving
  <2> QED
    BY <2>1, <2>2, <2>3, <2>4, Zenon DEF StartTypeOK, Phases
<1> QED
  BY <1>1, StartInvariance, PTL

\* An enabled store is the one configured, in the configured order and with
\* usable options, unless a certificate file is there and cannot be used.
THEOREM StoreIsConfigured == StartSpec => []StoreAsConfigured
<1>1. IInv => StoreAsConfigured
  <2> SUFFICES ASSUME IInv, phase = "serving", On(conf, "REDIS_ENABLED"),
                      \A s \in TLSFiles : conf[s] # "bad"
               PROVE  /\ Last(layers) = "redis"
                      /\ \A i, j \in DOMAIN layers : layers[i] = "cache" /\ layers[j] = "breaker" => i < j
                      /\ "cache" \in ToSet(layers) <=> On(conf, "BLOCK_CACHE_ENABLED")
                      /\ "breaker" \in ToSet(layers) <=> conf["STORE_BREAKER_THRESHOLD"] > 0
                      /\ "cache" \in ToSet(layers) =>
                            conf["BLOCK_CACHE_MAX_ENTRIES"] > 0 /\ conf["BLOCK_CACHE_MAX_TTL"] > 0
                      /\ "breaker" \in ToSet(layers) => conf["STORE_BREAKER_COOLDOWN"] > 0
    BY Zenon DEF StoreAsConfigured
  <2>1. conf = Config(trial.env) /\ LoadErrors(trial.env) = {} /\ IsEnvironment(trial.env)
    BY TrialsAssumption DEF IInv, Settled
  <2>2. validate(conf) = {} /\ IsConfig(conf)
    BY <2>1, Resolved DEF LoadErrors
  <2>3. ~NewFails(conf)
    BY <2>2, StoreBuilds
  <2> DEFINE cache == On(conf, "BLOCK_CACHE_ENABLED")
             breaker == conf["STORE_BREAKER_THRESHOLD"] > 0
  <2>4. layers = IF cache THEN IF breaker THEN <<"cache", "breaker", "redis">> ELSE <<"cache", "redis">>
                ELSE IF breaker THEN <<"breaker", "redis">> ELSE <<"redis">>
    <3>1. layers = buildStore(conf)
      BY Zenon DEF IInv, Serving
    <3> QED
      BY <2>3, <3>1, Layers, Zenon
  <2>5. /\ cache => conf["BLOCK_CACHE_MAX_ENTRIES"] > 0 /\ conf["BLOCK_CACHE_MAX_TTL"] > 0
        /\ breaker => conf["STORE_BREAKER_COOLDOWN"] > 0
    BY <2>2, DecoratorsUsable
  <2>6. /\ Last(layers) = "redis"
        /\ \A i, j \in DOMAIN layers : layers[i] = "cache" /\ layers[j] = "breaker" => i < j
        /\ "cache" \in ToSet(layers) <=> cache
        /\ "breaker" \in ToSet(layers) <=> breaker
    <3> HIDE DEF cache, breaker
    <3>1. CASE cache /\ breaker
      <4>1. layers = <<"cache", "breaker", "redis">>
        BY <2>4, <3>1
      <4> QED
        BY <3>1, <4>1 DEF Last, ToSet
    <3>2. CASE cache /\ ~breaker
      <4>1. layers = <<"cache", "redis">>
        BY <2>4, <3>2
      <4> QED
        BY <3>2, <4>1 DEF Last, ToSet
    <3>3. CASE ~cache /\ breaker
      <4>1. layers = <<"breaker", "redis">>
        BY <2>4, <3>3
      <4> QED
        BY <3>3, <4>1 DEF Last, ToSet
    <3>4. CASE ~cache /\ ~breaker
      <4>1. layers = <<"redis">>
        BY <2>4, <3>4
      <4> QED
        BY <3>4, <4>1 DEF Last, ToSet
    <3> QED
      BY <3>1, <3>2, <3>3, <3>4
  <2> QED
    BY <2>5, <2>6, Zenon
<1> QED
  BY <1>1, StartInvariance, PTL

\* What the finished build says of the file, in a state that is ready.
LEMMA Finished ==
  ASSUME IInv, Ready
  PROVE  \E b : /\ Made(b, trial.file, conf["HASH_SECRET"], Len(trial.file.limiters))
                /\ built.limiters = b.limiters
                /\ built.responses = b.responses
                /\ built.default = b.default
                /\ built.warnings = IF b.limiters = <<>> THEN b.warnings \union {"no limiters"}
                                    ELSE b.warnings
<1>1. PICK b : /\ Made(b, trial.file, conf["HASH_SECRET"], Len(trial.file.limiters))
               /\ built = Close(b)
  BY DEF IInv, Building
<1>2. DOMAIN b = {"limiters", "responses", "default", "warnings"}
  BY <1>1 DEF Made
<1>3. /\ Close(b).limiters = b.limiters
      /\ Close(b).responses = b.responses
      /\ Close(b).default = b.default
      /\ Close(b).warnings = IF b.limiters = <<>> THEN b.warnings \union {"no limiters"} ELSE b.warnings
  BY Zenon, <1>2, Closed
<1> QED
  BY Zenon, <1>1, <1>3

\* A part of a sequence of responses.
LEMMA OwnResponse ==
  ASSUME NEW f, IsFile(f), Validate(f), NEW m \in 1..Len(f.limiters), Present(f.limiters[m].response)
  PROVE  Value(f.limiters[m].response) \in Responses /\ validResponse(Value(f.limiters[m].response))
<1> DEFINE l == f.limiters[m]
           q == l.response
           F == f.limiters
<1>1. F \in Seq(LimiterSpecs) /\ m \in DOMAIN F
  BY DEF IsFile
<1>2. l \in LimiterSpecs
  <2> HIDE DEF F
  <2>1. F[m] \in LimiterSpecs
    BY <1>1
  <2> QED
    BY <2>1 DEF F
<1>3. validLimiter(l)
  BY <1>1, Zenon DEF Validate
<1>4. q \in Seq(Responses) /\ q # <<>>
  BY <1>2 DEF LimiterSpecs, Present
<1>5. q[1] \in Responses
  <2> HIDE DEF q
  <2> QED
    BY <1>4
<1> QED
  BY <1>3, <1>5 DEF Value, validLimiter

\* Each field of a rejection is the first one set by the limiter, by the file,
\* or built in, and its status is an error, for every file.
THEOREM ResponsesResolve == StartSpec => []ResponseResolved
<1>1. IInv => ResponseResolved
  <2> SUFFICES ASSUME IInv, Ready, NEW l \in ToSet(trial.file.limiters),
                      NEW k \in ToSet(built.limiters), k.name = l.name
               PROVE  LET own(field, none)    == IF Present(l.response) THEN Value(l.response)[field] ELSE none
                          shared(field, none) == IF Present(trial.file.response)
                                                 THEN Value(trial.file.response)[field] ELSE none
                          first(field, none, builtin) ==
                              IF own(field, none) # none THEN own(field, none)
                              ELSE IF shared(field, none) # none THEN shared(field, none)
                              ELSE builtin
                          r == ResponseOf(l.name)
                      IN  /\ r.status \in 400..599
                          /\ r.status = first("status", 0, 429)
                          /\ r.contentType = first("contentType", Blank, "json")
    BY Zenon DEF ResponseResolved
  <2> DEFINE f == trial.file
             secret == conf["HASH_SECRET"]
             n == Len(f.limiters)
             d == BuiltDefault(f)
             s == IF Present(f.response) THEN Value(f.response).status ELSE 0
             t == IF Present(f.response) THEN Value(f.response).contentType ELSE Blank
             r == ResponseOf(l.name)
  <2>1. IsFile(f) /\ Validate(f)
    BY TrialsAssumption DEF IInv, Settled
  <2>2. PICK b : /\ Made(b, f, secret, n)
                 /\ built.limiters = b.limiters
                 /\ built.responses = b.responses
                 /\ built.default = b.default
    BY Finished, Zenon
  <2>3. b.default = d
    BY <2>2 DEF Made
  <2>4. PICK m \in 1..n : f.limiters[m] = l
    BY <2>1 DEF ToSet, IsFile
  <2>5. PICK i \in DOMAIN b.limiters : b.limiters[i] = k
    BY <2>2 DEF ToSet
  <2>6. m \in Kept(f, secret, n)
    BY Zenon, <2>1, <2>2, <2>4, <2>5, Origin
  <2>7. /\ d.status \in 400..599
        /\ d.status = IF s # 0 THEN s ELSE 429
        /\ d.contentType = IF t # Blank THEN t ELSE "json"
        /\ NewResponse(d).status = d.status
        /\ NewResponse(d).contentType = d.contentType
    BY Zenon, <2>1, Shared
  <2>8. IF Present(l.response)
        THEN /\ l.name \in DOMAIN b.responses
             /\ b.responses[l.name] = resolveResponse(Value(l.response), d)
        ELSE l.name \notin DOMAIN b.responses
    BY Zenon, <2>1, <2>2, <2>4, <2>6, Answer
  <2>9. CASE Present(l.response)
    <3> DEFINE v == Value(l.response)
    <3>1. v \in Responses /\ validResponse(v)
      BY <2>1, <2>4, <2>9, OwnResponse
    <3>2. r = resolveResponse(v, d)
      BY <2>2, <2>8, <2>9 DEF ResponseOf
    <3>3. /\ r.status \in 400..599
          /\ r.status = IF v.status # 0 THEN v.status ELSE d.status
          /\ r.contentType = IF v.contentType # Blank THEN v.contentType ELSE d.contentType
      <4> HIDE DEF d, r, v
      <4>1. d.status \in 400..599
        BY Zenon, <2>7
      <4>2. Inherits(r, v, d)
        BY <3>1, <3>2, <4>1, Inherit, Zenon
      <4> QED
        BY <4>2, Zenon DEF Inherits
    <3>4. /\ r.status = IF v.status # 0 THEN v.status ELSE IF s # 0 THEN s ELSE 429
          /\ r.contentType = IF v.contentType # Blank THEN v.contentType
                             ELSE IF t # Blank THEN t ELSE "json"
      <4> HIDE DEF d, r, v, s, t
      <4>1. r.status = IF v.status # 0 THEN v.status ELSE IF s # 0 THEN s ELSE 429
        <5>1. d.status = IF s # 0 THEN s ELSE 429
          BY Zenon, <2>7
        <5>2. r.status = IF v.status # 0 THEN v.status ELSE d.status
          BY Zenon, <3>3
        <5> QED
          BY Zenon, <5>1, <5>2
      <4>2. r.contentType = IF v.contentType # Blank THEN v.contentType
                            ELSE IF t # Blank THEN t ELSE "json"
        <5>1. d.contentType = IF t # Blank THEN t ELSE "json"
          BY Zenon, <2>7
        <5>2. r.contentType = IF v.contentType # Blank THEN v.contentType ELSE d.contentType
          BY Zenon, <3>3
        <5> QED
          BY Zenon, <5>1, <5>2
      <4> QED
        BY Zenon, <4>1, <4>2
    <3> QED
      BY <2>9, <3>3, <3>4, Zenon
  <2>10. CASE ~Present(l.response)
    <3>1. r = NewResponse(d)
      BY <2>2, <2>3, <2>8, <2>10 DEF ResponseOf
    <3> QED
      BY ZenonT(30), <2>7, <2>10, <3>1
  <2> QED
    BY Zenon, <2>9, <2>10
<1> QED
  BY <1>1, StartInvariance, PTL

\* Only a store that is disabled or cannot be built is the one that limits
\* nothing.
LEMMA NoopOnly ==
  ASSUME NEW c, buildStore(c) = <<"noop">>
  PROVE  ~On(c, "REDIS_ENABLED") \/ NewFails(c)
<1>1. /\ <<"redis">> # <<"noop">> /\ <<"breaker", "redis">> # <<"noop">>
      /\ <<"cache", "redis">> # <<"noop">> /\ <<"cache", "breaker", "redis">> # <<"noop">>
  OBVIOUS
<1> QED
  BY <1>1, Layers, Zenon

\* A limiter of the file either runs, with one valid algorithm and all it needs
\* to find its keys, or is named; the limiters that run stand in the order of
\* the file; and a process that limits nothing has said so.
THEOREM OffIsSaid == StartSpec => []OffIsLoud
<1>1. IInv => OffIsLoud
  <2> SUFFICES ASSUME IInv, phase \in {"validated", "serving"}
               PROVE  OffIsLoud
    BY Zenon DEF OffIsLoud
  <2> DEFINE f == trial.file
             F == f.limiters
             secret == conf["HASH_SECRET"]
             n == Len(F)
             kept == Kept(f, secret, n)
  <2>1. IsFile(f) /\ Validate(f) /\ Ready
    BY TrialsAssumption DEF IInv, Settled, Ready
  <2>2. PICK b : /\ Made(b, f, secret, n)
                 /\ built.limiters = b.limiters
                 /\ built.warnings = IF b.limiters = <<>> THEN b.warnings \union {"no limiters"}
                                     ELSE b.warnings
    BY <2>1, Finished, Zenon
  <2>3. built.warnings \subseteq said /\ said \subseteq Remarks \union built.warnings
    BY Zenon DEF IInv, Serving
  <2>4. F \in Seq(LimiterSpecs) /\ DOMAIN F = 1..n
    BY <2>1 DEF IsFile
  <2>5. b.warnings = {F[m].name : m \in (1..n) \ kept}
    BY Zenon, <2>2 DEF Made
  <2>6. ASSUME NEW m \in 1..n
        PROVE  validLimiter(F[m]) /\ F[m] \in LimiterSpecs
    <3>1. validLimiter(F[m])
      BY <2>1, <2>4, Zenon DEF Validate
    <3> HIDE DEF F
    <3> QED
      BY <2>4, <3>1
  <2>7. ASSUME NEW m \in kept
        PROVE  F[m].name \notin said
    <3>1. m \in 1..n
      BY DEF Kept
    <3>2. F[m].name \notin Remarks
      BY <2>6, <3>1, NamesAssumption DEF validLimiter, validName
    <3>3. \A k \in 1..n : F[k].name = F[m].name => k = m
      BY <2>1, <2>4, <3>1, Zenon DEF Validate
    <3>4. F[m].name \notin b.warnings
      BY <2>5, <3>3
    <3>5. "no limiters" \in Remarks
      BY DEF Remarks
    <3> QED
      BY Zenon, <2>2, <2>3, <3>2, <3>4, <3>5
  <2>8. ASSUME NEW g \in ToSet(F)
        PROVE  \/ g.name \in said
               \/ /\ \E l \in ToSet(built.limiters) : l.name = g.name /\ l.rule # l.bucket
                  /\ (\E x \in Nodes(Value(g.key)) : x.hash) => secret # Blank
    <3>1. PICK m \in 1..n : g = F[m]
      BY <2>4 DEF ToSet
    <3>2. CASE m \notin kept
      <4>1. g.name \in b.warnings
        BY <2>5, <3>1, <3>2
      <4> QED
        BY Zenon, <2>2, <2>3, <4>1
    <3>3. CASE m \in kept
      <4>1. PICK i \in DOMAIN b.limiters : b.limiters[i] = BuiltLimiter(g)
        BY <2>2, <3>1, <3>3, Zenon DEF Made, MadeLimiters
      <4>2. BuiltLimiter(g) \in ToSet(built.limiters)
        BY Zenon, <2>2, <4>1 DEF ToSet
      <4>3. BuiltLimiter(g).name = g.name
        BY BuiltName
      <4>4. BuiltLimiter(g).rule # BuiltLimiter(g).bucket
        BY <2>6, <3>1, OneAlgorithm DEF validLimiter
      <4>5. Value(g.key) \in KeySpecs
        <5> DEFINE q == g.key
        <5>1. q \in Seq(KeySpecs)
          BY <2>6, <3>1 DEF LimiterSpecs
        <5>2. q # <<>>
          BY <2>6, <3>1 DEF validLimiter, Present
        <5> HIDE DEF q
        <5>3. q[1] \in KeySpecs
          BY <5>1, <5>2
        <5> QED
          BY <5>3 DEF Value, q
      <4>6. ~needsHash(Value(g.key)) \/ secret # Blank
        BY <3>1, <3>3, Zenon DEF Kept, Buildable
      <4>7. (\E x \in Nodes(Value(g.key)) : x.hash) => secret # Blank
        BY <4>5, <4>6, HashFound, Zenon
      <4> QED
        BY <4>2, <4>3, <4>4, <4>7, Zenon
    <3> QED
      BY <3>2, <3>3
  <2>9. ASSUME NEW i \in DOMAIN built.limiters, NEW j \in DOMAIN built.limiters, i <= j
        PROVE  \E m, k \in DOMAIN F :
                  /\ i = j \/ m < k
                  /\ built.limiters[i].name = F[m].name
                  /\ built.limiters[j].name = F[k].name
                  /\ F[m].name \notin said
    <3> DEFINE S == {BuiltLimiter(F[m]) : m \in kept}
               bs == b.limiters
    <3>1. bs \in Seq(S)
      BY <2>2, Zenon DEF Made, MadeLimiters
    <3>2. CASE i = j
      <4>1. bs[i] \in S
        <5> HIDE DEF S, bs
        <5>1. i \in DOMAIN bs
          BY Zenon, <2>2 DEF bs
        <5> QED
          BY <3>1, <5>1
      <4>2. PICK m \in kept : bs[i] = BuiltLimiter(F[m])
        BY <4>1
      <4>3. bs[i].name = F[m].name
        BY <4>2, BuiltName
      <4>4. m \in DOMAIN F /\ F[m].name \notin said
        BY <2>4, <2>7, <4>2 DEF Kept
      <4> QED
        BY Zenon, <2>2, <3>2, <4>3, <4>4
    <3>3. CASE i < j
      <4>1. i \in DOMAIN bs /\ j \in DOMAIN bs
        BY Zenon, <2>2
      <4>2. \A x, y \in DOMAIN bs : x < y =>
               \E m, k \in 1..n : m < k /\ bs[x].name = F[m].name /\ bs[y].name = F[k].name
        <5>1. MadeLimiters(b, f, secret, n)
          BY Zenon, <2>2 DEF Made
        <5> QED
          BY <5>1, Zenon DEF MadeLimiters
      <4>3. PICK m \in 1..n, k \in 1..n : m < k /\ bs[i].name = F[m].name /\ bs[j].name = F[k].name
        BY <3>3, <4>1, <4>2, Zenon
      <4>4. m \in kept
        <5> HIDE DEF f, secret
        <5> QED
          BY Zenon, <2>1, <2>2, <4>1, <4>3, Origin DEF bs
      <4>5. F[m].name \notin said
        BY <2>7, <4>4, Zenon
      <4> QED
        BY Zenon, <2>2, <2>4, <4>3, <4>5
    <3>4. i = j \/ i < j
      <4>1. i \in Int /\ j \in Int
        <5>1. i \in DOMAIN bs /\ j \in DOMAIN bs
          BY Zenon, <2>2
        <5> HIDE DEF S, bs
        <5> QED
          BY <3>1, <5>1
      <4> QED
        BY <2>9, <4>1
    <3> QED
      BY <3>2, <3>3, <3>4
  <2>10. built.limiters = <<>> => "no limiters" \in said
    BY Zenon, <2>2, <2>3
  <2>11. layers = <<"noop">> => said \intersect {"store disabled", "cannot build store"} # {}
    <3>1. <<>> # <<"noop">>
      OBVIOUS
    <3>2. ASSUME layers = <<"noop">>
          PROVE  phase = "serving" /\ buildStore(conf) = <<"noop">>
      BY Zenon, <3>1, <3>2 DEF IInv, Serving
    <3> QED
      BY Zenon, <3>2, NoopOnly DEF IInv, Serving
  <2> HIDE DEF kept
  <2> QED
    BY <2>8, <2>9, <2>10, <2>11, Zenon DEF OffIsLoud
<1> QED
  BY <1>1, StartInvariance, PTL

\* A request of the trial was asked, and every limiter is charged to a bucket that
\* its key may yield.
Charging ==
  asked # <<>> =>
    /\ asked[1] \in Requests[trial.requests]
    /\ \A i \in DOMAIN charged :
          i \in DOMAIN built.limiters /\ charged[i] \in Buckets(built.limiters[i], asked[1])

\* Only a check changes what is charged.
THEOREM ChargeInvariance == StartSpec => []Charging
<1>1. StartInit => Charging
  BY DEF StartInit, Charging
<1>2. IInv /\ Charging /\ [StartNext]_startVars => Charging'
  <2> SUFFICES ASSUME IInv, Charging, [StartNext]_startVars
               PROVE  Charging'
    OBVIOUS
  <2>1. CASE UNCHANGED startVars
    BY <2>1 DEF startVars, Charging, Buckets
  <2>2. CASE asked' = asked /\ phase # "serving"
    BY Zenon, <2>2 DEF IInv, Serving, Charging
  <2>3. ASSUME NEW r \in Requests[trial.requests], Check(r)
        PROVE  Charging'
    <3>1. /\ asked' = <<r>> /\ trial' = trial /\ built' = built /\ conf' = conf
          /\ DOMAIN charged' = DOMAIN built.limiters
          /\ \A i \in DOMAIN charged' : charged'[i] \in Buckets(built.limiters[i], r)
      BY <2>3 DEF Check
    <3>2. asked'[1] = r
      BY <3>1
    <3> QED
      BY <3>1, <3>2 DEF Charging, Buckets
  <2>4. ASSUME Load \/ LoadFile \/ BuildFile \/ BuildLimiter \/ BuildEnd \/ Report \/ Serve
        PROVE  asked' = asked /\ phase # "serving"
    BY Zenon, <2>4 DEF Load, LoadFile, BuildFile, BuildLimiter, BuildEnd, Report, Serve, Refuse
  <2> QED
    BY <2>1, <2>2, <2>3, <2>4 DEF StartNext
<1> QED
  BY <1>1, <1>2, StartInvariance, PTL DEF StartSpec

\* Building a limiter keeps the key and the scope of its specification.
LEMMA KeyIsKept ==
  ASSUME NEW l
  PROVE  BuiltLimiter(l).key = Value(l.key) /\ BuiltLimiter(l).paths = l.paths
<1> DEFINE q == Value(l.key)
<1> HIDE DEF q
<1>1. BuiltLimiter(l).key = q /\ BuiltLimiter(l).paths = l.paths
  BY DEF BuiltLimiter, q
<1> QED
  BY <1>1, Zenon DEF q

\* Where a limiter that was built comes from.
LEMMA BuiltFrom ==
  ASSUME IInv, Ready, NEW i \in DOMAIN built.limiters
  PROVE  \E l \in LimiterSpecs :
            /\ validLimiter(l) /\ Buildable(l, conf["HASH_SECRET"])
            /\ built.limiters[i].key = Value(l.key) /\ built.limiters[i].paths = l.paths
<1> DEFINE f == trial.file
           F == f.limiters
           secret == conf["HASH_SECRET"]
           n == Len(F)
           kept == Kept(f, secret, n)
           S == {BuiltLimiter(F[m]) : m \in kept}
<1>1. IsFile(f) /\ Validate(f)
  BY TrialsAssumption DEF IInv, Settled
<1>2. PICK b : Made(b, f, secret, n) /\ built.limiters = b.limiters
  BY Finished, Zenon
<1>3. built.limiters \in Seq(S)
  BY <1>2, Zenon DEF Made, MadeLimiters
<1>4. built.limiters[i] \in S
  <2> HIDE DEF S
  <2> QED
    BY <1>3
<1>5. PICK m \in kept : built.limiters[i] = BuiltLimiter(F[m])
  BY <1>4
<1>6. built.limiters[i].key = Value(F[m].key) /\ built.limiters[i].paths = F[m].paths
  BY <1>5, KeyIsKept, Zenon
<1>7. F \in Seq(LimiterSpecs) /\ DOMAIN F = 1..n /\ m \in 1..n
  BY <1>1 DEF IsFile, Kept
<1>8. validLimiter(F[m]) /\ F[m] \in LimiterSpecs
  <2>1. validLimiter(F[m])
    BY <1>1, <1>7, Zenon DEF Validate
  <2> HIDE DEF F
  <2> QED
    BY <1>7, <2>1
<1>9. Buildable(F[m], secret)
  BY Zenon DEF Kept
<1> QED
  BY <1>6, <1>8, <1>9, Zenon

\* Its key is sound: valid, with one source, and a secret where it is hashed.
LEMMA BuiltKey ==
  ASSUME IInv, Ready, NEW i \in DOMAIN built.limiters
  PROVE  LET k == built.limiters[i].key
         IN  /\ k \in KeySpecs /\ validKey(k) /\ OneOf(k)
             /\ k.hash => conf["HASH_SECRET"] # Blank
<1> DEFINE secret == conf["HASH_SECRET"]
<1>1. PICK l \in LimiterSpecs :
           validLimiter(l) /\ Buildable(l, secret) /\ built.limiters[i].key = Value(l.key)
  BY BuiltFrom, Zenon
<1>2. Value(l.key) \in KeySpecs
  <2> DEFINE q == l.key
  <2>1. q \in Seq(KeySpecs)
    BY DEF LimiterSpecs
  <2>2. q # <<>>
    BY <1>1 DEF validLimiter, Present
  <2> HIDE DEF q
  <2>3. q[1] \in KeySpecs
    BY <2>1, <2>2
  <2> QED
    BY <2>3 DEF Value, q
<1>3. validKey(Value(l.key)) /\ OneOf(Value(l.key))
  BY <1>1, <1>2, ValidKey, Zenon DEF validLimiter
<1>4. Value(l.key).hash => secret # Blank
  <2>1. ~needsHash(Value(l.key)) \/ secret # Blank
    BY <1>1, Zenon DEF Buildable
  <2> QED
    BY <1>2, <2>1, NeedsHash, Zenon
<1> QED
  BY <1>1, <1>2, <1>3, <1>4, Zenon

\* A first key ends without a value only after trying every part.
LEMMA FirstTried ==
  ASSUME NEW k, NEW parts, NEW v \in FirstValues(k, parts), Normalise(k, v) = <<>>
  PROVE  \A j \in DOMAIN parts : \E w \in parts[j] : Normalise(k, w) = <<>>
<1> DEFINE skipped(j) == \E w \in parts[j] : Skips(k, w)
           taken(i) == {w \in parts[i] :
                          ~Skips(k, w) /\ \A j \in DOMAIN parts : j < i => skipped(j)}
           none == {w \in {<<>>} : \A j \in DOMAIN parts : skipped(j)}
<1>1. FirstValues(k, parts) = (UNION {taken(i) : i \in DOMAIN parts}) \union none
  BY Zenon DEF FirstValues
<1>2. Skips(k, v)
  BY DEF Skips
<1>3. ASSUME NEW i \in DOMAIN parts
      PROVE  v \notin taken(i)
  BY <1>2
<1>4. v \in none
  <2> HIDE DEF taken, none
  <2>1. ASSUME NEW T \in {taken(i) : i \in DOMAIN parts}
        PROVE  v \notin T
    BY <1>3
  <2> QED
    BY <1>1, <2>1
<1>5. \A j \in DOMAIN parts : skipped(j)
  BY <1>4
<1> QED
  BY <1>5 DEF Skips

\* A limiter in scope goes without a bucket only when the request has nothing to
\* key it by, and a query key prefers the configured spelling; for every nesting
\* of keys.
THEOREM KeyedWhenPossible == StartSpec => []KeyedIfPossible
<1>1. IInv /\ Charging => KeyedIfPossible
  <2> SUFFICES ASSUME IInv, Charging, asked # <<>>
               PROVE  KeyedIfPossible
    BY Zenon DEF KeyedIfPossible
  <2> DEFINE r == asked[1]
             q == originalQuery(r)
             secret == conf["HASH_SECRET"]
             of == [p \in KeySpecs |-> Key(p, secret, r)]
  <2>1. Ready
    BY Zenon DEF IInv, Serving, Ready
  <2>2. ASSUME NEW i \in DOMAIN charged, Applies(built.limiters[i], r)
        PROVE  LET k == built.limiters[i].key
               IN  /\ k.query # <<>> /\ k.normalise = Blank /\ ~k.hash => QueryFinds(q, k.query, charged[i])
                   /\ k.first # <<>> /\ charged[i] = <<>> =>
                         \A p \in ToSet(k.first) : \E v \in Key(p, secret, r) : Normalise(k, v) = <<>>
    <3> DEFINE k == built.limiters[i].key
    <3>1. i \in DOMAIN built.limiters /\ charged[i] \in Key(k, secret, r)
      BY <2>2, Zenon DEF Charging, Buckets
    <3>2. k \in KeySpecs /\ OneOf(k) /\ (k.hash => secret # Blank)
      BY <2>1, <3>1, BuiltKey, Zenon
    <3> HIDE DEF k, secret, r
    <3>3. Key(k, secret, r) = {Finish(k, secret, v) : v \in RawValues(k, of, r)}
      BY <3>2, KeyOf, Zenon DEF KeyFrom
    <3>4. PICK v \in RawValues(k, of, r) : charged[i] = Finish(k, secret, v)
      <4> HIDE DEF of
      <4> QED
        BY <3>1, <3>3
    <3>5. ASSUME k.query # <<>>, k.normalise = Blank, ~k.hash
          PROVE  QueryFinds(q, k.query, charged[i])
      <4>1. v \in QueryValue(r, k.query)
        <5> HIDE DEF of
        <5> QED
          BY <3>2, <3>4, <3>5, OneSource
      <4>2. charged[i] = v
        BY <3>4, <3>5, FinishPlain
      <4>3. k.query \in Seq(Chars)
        BY <3>2, KeyParts
      <4> QED
        BY <4>1, <4>2, <4>3, QueryFound
    <3>6. ASSUME k.first # <<>>, charged[i] = <<>>, NEW p \in ToSet(k.first)
          PROVE  \E w \in Key(p, secret, r) : Normalise(k, w) = <<>>
      <4> DEFINE parts == Each(k.first, of)
      <4>1. v \in FirstValues(k, parts)
        <5> HIDE DEF of
        <5> QED
          BY Zenon, <3>2, <3>4, <3>6, OneSource
      <4>2. Normalise(k, v) = <<>>
        <5>1. k.hash \in BOOLEAN
          BY <3>2, KeyParts
        <5>2. Secured(k, secret)
          BY <3>2, <5>1 DEF Secured
        <5>3. Finish(k, secret, v) = <<>>
          BY <3>4, <3>6
        <5> QED
          BY <5>2, <5>3, FinishKeeps
      <4>3. PICK j \in DOMAIN k.first : p = k.first[j]
        BY <3>6 DEF ToSet
      <4>4. DOMAIN parts = DOMAIN k.first /\ parts[j] = of[p]
        BY <4>3 DEF Each
      <4>5. of[p] = Key(p, secret, r)
        <5>1. p \in KeySpecs
          BY <3>2, <3>6, KeyParts DEF Parts
        <5> QED
          BY <5>1
      <4> HIDE DEF of, parts
      <4>6. \E w \in parts[j] : Normalise(k, w) = <<>>
        BY <4>1, <4>2, <4>4, FirstTried
      <4> QED
        BY <4>4, <4>5, <4>6
    <3> QED
      BY <3>5, <3>6, Zenon DEF k
  <2> QED
    BY <2>2, Zenon DEF KeyedIfPossible, QueryFinds, Valued
<1> QED
  BY <1>1, StartInvariance, ChargeInvariance, PTL

----------------------------------------------------------------------------
(***************************************************************************)
(* The rest of the process's life: serving, draining and the end.  A clean *)
(* exit loses nothing, for any number of connections.  The argument: the   *)
(* store is closed only after the last wait of run, a check meets a closed *)
(* store only then, and success is decided at the one moment when the      *)
(* listener is closed and no check is running.                             *)
(***************************************************************************)
Early   == {"load", "build", "start"}
Waiting == Early \union {"serving", "draining"}

\* How far run has come, and what that says of the rest.
Progress ==
  /\ main \in Waiting => result = "none"
  /\ main \in Waiting \union {"stop", "close"} => store # "closed" /\ closes = 0
  /\ main \in Early => server = "off" /\ \A r \in Request : request[r] = "none"
  /\ main = "load" => store = "none"
  /\ main = "draining" => server \in {"closed", "failed"}
  /\ main = "returned" => store # "open"
  /\ store # "closed" => metClosed = {}
  /\ main # "exited" => \A r \in Request : request[r] # "cut"

\* Success, once decided, stays deserved.
Deserved ==
  result = "ok" =>
    /\ server \in {"off", "closed", "failed"}
    /\ \A r \in Request : request[r] \in {"none", "answered"}
    /\ metClosed = {}
    /\ main \in {"stop", "close", "returned", "exited"}
    /\ main = "exited" => store # "open"

LifeInv == TypeOK /\ Progress /\ Deserved

\* One step of run, of a goroutine, of a connection or of the surroundings.
LEMMA LifeStep ==
  ASSUME LifeInv, Next
  PROVE  LifeInv'
<1> USE DEF LifeInv, Progress, Deserved, Waiting, Early, process, storage, signals, checks, metrics
<1>1. CASE LoadEnds
  BY <1>1 DEF TypeOK, LoadEnds, probeHealth
<1>2. CASE Loaded
  BY <1>2 DEF TypeOK, Loaded
<1>3. CASE BuildNoop
  BY <1>3 DEF TypeOK, BuildNoop
<1>4. CASE BuildStore
  BY <1>4 DEF TypeOK, BuildStore
<1>5. CASE Start
  BY <1>5 DEF TypeOK, Start
<1>6. CASE ServeFails
  BY <1>6 DEF TypeOK, ServeFails
<1>7. CASE ShutdownStart
  BY <1>7 DEF TypeOK, ShutdownStart
<1>8. CASE ShutdownDone
  BY <1>8 DEF TypeOK, ShutdownDone, Drained, Running
<1>9. CASE ShutdownFails
  BY <1>9 DEF TypeOK, ShutdownFails, ShutdownExpires
<1>10. CASE StopNotify
  <2>1. notified' \in BOOLEAN /\ cancelled' \in BOOLEAN
    BY <1>10, Zenon DEF TypeOK, StopNotify
  <2>2. TypeOK'
    BY <1>10, <2>1 DEF TypeOK, StopNotify
  <2>3. Progress' /\ Deserved'
    BY <1>10 DEF TypeOK, StopNotify
  <2> QED
    BY <2>2, <2>3
<1>11. CASE CloseStore
  BY <1>11 DEF TypeOK, CloseStore, CloseChain
<1>12. CASE Exit
  BY <1>12 DEF TypeOK, Exit, Cut, Running
<1>13. CASE Listen
  BY <1>13 DEF TypeOK, Listen
<1>14. CASE ListenFails
  BY <1>14 DEF TypeOK, ListenFails
<1>15. CASE PublishFirst
  BY <1>15 DEF TypeOK, PublishFirst, Published
<1>16. CASE Publish
  BY <1>16 DEF TypeOK, Publish, Published
<1>17. CASE PublisherStops
  BY <1>17 DEF TypeOK, PublisherStops
<1>18. CASE SweeperStops
  BY <1>18 DEF TypeOK, SweeperStops
<1>19. CASE Signal
  <2>1. notified' \in BOOLEAN /\ cancelled' \in BOOLEAN
    BY <1>19, Zenon DEF TypeOK, Signal
  <2>2. TypeOK'
    BY <1>19, <2>1 DEF TypeOK, Signal, Cut, Running
  <2>3. Progress' /\ Deserved'
    BY <1>19 DEF TypeOK, Signal, Cut, Running
  <2> QED
    BY <2>2, <2>3
<1>20. CASE BreakerFlips
  BY <1>20 DEF TypeOK, BreakerFlips
<1>21. ASSUME NEW r \in Request, Accept(r)
      PROVE  LifeInv'
  BY <1>21 DEF TypeOK, Accept
<1>22. ASSUME NEW r \in Request, Evaluate(r)
      PROVE  LifeInv'
  BY <1>22 DEF TypeOK, Evaluate
<1>23. ASSUME NEW r \in Request, Respond(r)
      PROVE  LifeInv'
  BY <1>23 DEF TypeOK, Respond
<1> QED
  BY Zenon, <1>1, <1>2, <1>3, <1>4, <1>5, <1>6, <1>7, <1>8, <1>9, <1>10, <1>11, <1>12,
     <1>13, <1>14, <1>15, <1>16, <1>17, <1>18, <1>19, <1>20, <1>21, <1>22, <1>23 DEF Next, Main

\* The process before it has read its configuration.
LEMMA InitLife == Init => LifeInv
<1> SUFFICES ASSUME Init
             PROVE  LifeInv
  OBVIOUS
<1>1. /\ chain \in [breaker : BOOLEAN, cache : BOOLEAN]
      /\ notified \in BOOLEAN /\ cancelled \in BOOLEAN /\ open \in BOOLEAN /\ gauge \in BOOLEAN
  BY Zenon DEF Init
<1>2. TypeOK
  BY <1>1 DEF Init, TypeOK
<1>3. Progress /\ Deserved
  BY DEF Init, Progress, Deserved, Waiting, Early
<1> QED
  BY <1>2, <1>3 DEF LifeInv

\* Whatever the signals, the connections and the goroutines do.
THEOREM LifeInvariance == Spec => []LifeInv
<1>1. LifeInv /\ UNCHANGED vars => LifeInv'
  BY DEF LifeInv, TypeOK, Progress, Deserved, vars, process, storage, signals, checks, metrics
<1> QED
  BY <1>1, LifeStep, InitLife, PTL DEF Spec

\* Types of the process, its goroutines and the checks; the store is closed at
\* most once.
THEOREM LifeTypes == Spec => []TypeOK
<1>1. LifeInv => TypeOK
  BY DEF LifeInv
<1> QED
  BY <1>1, LifeInvariance, PTL

\* A process that exits with success answered every check it accepted, none of
\* them on a closed store, and closed its store.
THEOREM CleanExit == Spec => []CleanExitLosesNothing
<1>1. LifeInv => CleanExitLosesNothing
  BY DEF LifeInv, Deserved, CleanExitLosesNothing
<1> QED
  BY <1>1, LifeInvariance, PTL
=============================================================================
