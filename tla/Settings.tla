------------------------------ MODULE Settings ------------------------------
(***************************************************************************)
(* internal/config/config.go: the environment read, defaulted and          *)
(* validated; and the store chain that main.go and redisstore.New make of  *)
(* it.  An environment is a function from the variables' names to what     *)
(* they are set to.  A text is Blank when unset, a number or a             *)
(* duration is NotSet, Junk when it does not parse, or its value; the      *)
(* bounds only ask whether it is negative, zero or positive.  A file name  *)
(* stands for what is at the path: "good", "bad" (there, but not a usable  *)
(* certificate) or "missing".                                              *)
(***************************************************************************)
EXTENDS Integers, Sequences, FiniteSets

Blank  == ""
NotSet == -9
Junk   == -8

Numbers == {"MAX_BODY_BYTES", "SHUTDOWN_TIMEOUT", "REDIS_POOL_SIZE", "REDIS_MAX_RETRIES",
            "REDIS_DIAL_TIMEOUT", "REDIS_READ_TIMEOUT", "REDIS_WRITE_TIMEOUT",
            "BLOCK_CACHE_MAX_ENTRIES", "BLOCK_CACHE_MAX_TTL",
            "STORE_BREAKER_THRESHOLD", "STORE_BREAKER_COOLDOWN"}
Booleans == {"REDIS_ENABLED", "REDIS_TLS_ENABLED", "REDIS_TLS_SKIP_VERIFY",
             "BLOCK_CACHE_ENABLED"}
Allowed == [LOG_LEVEL  |-> {"debug", "info", "warn", "warning", "error"},
            LOG_FORMAT |-> {"json", "text"},
            REDIS_MODE |-> {"single", "cluster"}]
TLSFiles == {"REDIS_TLS_CA_FILE", "REDIS_TLS_CERT_FILE", "REDIS_TLS_KEY_FILE"}
Settings == Numbers \union Booleans \union DOMAIN Allowed \union TLSFiles
            \union {"REDIS_ADDRS", "HASH_SECRET"}

\* What the variables may be set to.
IsEnvironment(env) ==
    /\ DOMAIN env = Settings
    /\ \A s \in Settings :
          env[s] \in IF s \in Numbers THEN {NotSet, Junk} \union -1..2
                     ELSE IF s \in Booleans THEN {Blank, "true", "false", "junk"}
                     ELSE IF s \in TLSFiles THEN {Blank, "good", "bad", "missing"}
                     ELSE STRING

\* Every default of a number is positive, and 2 stands for more than five
\* minutes.
TextDefaults ==
    [REDIS_ENABLED |-> "true", REDIS_MODE |-> "single", REDIS_ADDRS |-> "addr",
     REDIS_TLS_ENABLED |-> "false", REDIS_TLS_SKIP_VERIFY |-> "false",
     REDIS_TLS_CA_FILE |-> Blank, REDIS_TLS_CERT_FILE |-> Blank, REDIS_TLS_KEY_FILE |-> Blank,
     BLOCK_CACHE_ENABLED |-> "true", LOG_LEVEL |-> "info", LOG_FORMAT |-> "json",
     HASH_SECRET |-> Blank]

Default(s) == IF s \in Numbers THEN 1 ELSE TextDefaults[s]

\* A setting that does not parse is an error, and takes its default meanwhile.
\* "," is a list without an address.
Unparsable(env) ==
    {s \in Numbers : env[s] = Junk} \union {s \in Booleans : env[s] = "junk"}

\* Mutant: an unset switch is not given its default.
ResolveUnset(env, s) ==
    IF s \in Booleans \/ (s \in Numbers /\ env[s] > NotSet /\ env[s] # Junk) THEN env[s]
    ELSE Default(s)

Resolve(env, s) ==
    IF s \in Unparsable(env)
       \/ (s \in Numbers /\ env[s] = NotSet) \/ (s \notin Numbers /\ env[s] = Blank)
    THEN Default(s) ELSE env[s]

Config(env) == [s \in Settings |-> Resolve(env, s)]

On(c, s) == c[s] = "true"

NotPositive(c, ss) == {s \in ss : c[s] <= 0}

validateService(c) ==
    NotPositive(c, {"MAX_BODY_BYTES", "SHUTDOWN_TIMEOUT"})
    \union {s \in {"LOG_LEVEL", "LOG_FORMAT"} : c[s] \notin Allowed[s]}

\* Mutant: a certificate without its key is let through.
TLSErrorsUnpaired(c) ==
    {s \in TLSFiles : c[s] # Blank /\ (~On(c, "REDIS_TLS_ENABLED") \/ c[s] = "missing")}

TLSErrors(c) ==
    LET set == {s \in TLSFiles : c[s] # Blank}
    IN  {s \in set : ~On(c, "REDIS_TLS_ENABLED") \/ c[s] = "missing"}
        \union IF "REDIS_TLS_CERT_FILE" \in set <=> "REDIS_TLS_KEY_FILE" \in set THEN {}
               ELSE {"REDIS_TLS_CERT_FILE"}

validateStore(c) ==
    {s \in {"REDIS_MODE"} : c[s] \notin Allowed[s]}
    \union {s \in {"REDIS_ADDRS"} : c[s] = ","}
    \union TLSErrors(c)
    \union {s \in {"REDIS_MAX_RETRIES"} : c[s] < 0}
    \union NotPositive(c, {"REDIS_POOL_SIZE", "REDIS_DIAL_TIMEOUT", "REDIS_READ_TIMEOUT",
                           "REDIS_WRITE_TIMEOUT"})

validateDecorators(c) ==
    (IF On(c, "BLOCK_CACHE_ENABLED")
     THEN NotPositive(c, {"BLOCK_CACHE_MAX_ENTRIES", "BLOCK_CACHE_MAX_TTL"}) ELSE {})
    \union (IF c["STORE_BREAKER_THRESHOLD"] > 0
            THEN NotPositive(c, {"STORE_BREAKER_COOLDOWN"}) ELSE {})

\* Nothing about a disabled store is validated.
validate(c) ==
    validateService(c)
    \union IF On(c, "REDIS_ENABLED") THEN validateStore(c) \union validateDecorators(c) ELSE {}

\* Load: the settings it complains about, all of them at once.
LoadErrors(env) == Unparsable(env) \union validate(Config(env))

Warnings(c) ==
    (IF On(c, "REDIS_ENABLED") THEN {} ELSE {"redis disabled"})
    \union (IF On(c, "BLOCK_CACHE_ENABLED") /\ c["BLOCK_CACHE_MAX_TTL"] > 1
            THEN {"large TTL"} ELSE {})
    \union (IF On(c, "REDIS_TLS_SKIP_VERIFY") THEN {"skip verify"} ELSE {})

(***************************************************************************)
(* redisstore.New and main.go's buildStore                                 *)
(***************************************************************************)
buildTLSFails(c) ==
    /\ On(c, "REDIS_TLS_ENABLED")
    /\ \/ c["REDIS_TLS_CA_FILE"] \in {"bad", "missing"}
       \/ {c["REDIS_TLS_CERT_FILE"], c["REDIS_TLS_KEY_FILE"]} \notin {{Blank}, {"good"}}

NewFails(c) ==
    \/ c["REDIS_ADDRS"] = ","
    \/ buildTLSFails(c)
    \/ c["REDIS_MODE"] \notin {"cluster", "single"}

\* The chain of stores, outermost first.
buildStore(c) ==
    IF ~On(c, "REDIS_ENABLED") \/ NewFails(c) THEN <<"noop">>
    ELSE (IF On(c, "BLOCK_CACHE_ENABLED") THEN <<"cache">> ELSE <<>>)
         \o (IF c["STORE_BREAKER_THRESHOLD"] > 0 THEN <<"breaker">> ELSE <<>>)
         \o <<"redis">>
=============================================================================
