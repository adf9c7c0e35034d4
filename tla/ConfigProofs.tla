---------------------------- MODULE ConfigProofs ----------------------------
(***************************************************************************)
(* What configuration and keyers compute, for every environment, limiter   *)
(* file, nesting of keys and request: the facts that the proofs about the  *)
(* process (ProcessProofs) rest on.                                        *)
(***************************************************************************)
EXTENDS Startup, WellFoundedInduction, TLAPS

----------------------------------------------------------------------------
(***************************************************************************)
(* The settings                                                            *)
(***************************************************************************)
\* What a loaded configuration holds.
IsConfig(c) ==
  /\ \A s \in Numbers : c[s] \in -1..2
  /\ \A s \in Booleans : c[s] \in {"true", "false"}
  /\ \A s \in TLSFiles : c[s] \in {Blank, "good", "bad", "missing"}

\* Every setting resolves to a value, whatever the environment.
LEMMA Resolved ==
  ASSUME NEW env, IsEnvironment(env)
  PROVE  IsConfig(Config(env))
<1>1. ASSUME NEW s \in Numbers
      PROVE  Config(env)[s] \in -1..2
  <2>1. s \in Settings
    BY DEF Settings
  <2>2. env[s] \in {NotSet, Junk} \union -1..2
    BY <2>1 DEF IsEnvironment
  <2>3. Config(env)[s] = Resolve(env, s)
    BY <2>1 DEF Config
  <2>4. env[s] = Junk => s \in Unparsable(env)
    BY DEF Unparsable
  <2>5. Default(s) = 1
    BY DEF Default
  <2> QED
    BY <2>2, <2>3, <2>4, <2>5 DEF Resolve, NotSet, Junk
<1>2. ASSUME NEW s \in Booleans
      PROVE  Config(env)[s] \in {"true", "false"}
  <2>1. s \in Settings /\ s \notin Numbers
    BY DEF Settings, Booleans, Numbers
  <2>2. env[s] \in {Blank, "true", "false", "junk"}
    BY <2>1 DEF IsEnvironment
  <2>3. Config(env)[s] = Resolve(env, s)
    BY <2>1 DEF Config
  <2>4. Default(s) \in {"true", "false"}
    <3>1. \A t \in Booleans : TextDefaults[t] \in {"true", "false"}
      BY DEF TextDefaults, Booleans
    <3> QED
      BY <2>1, <3>1 DEF Default
  <2>5. env[s] = "junk" => s \in Unparsable(env)
    BY DEF Unparsable
  <2> QED
    BY <2>1, <2>2, <2>3, <2>4, <2>5 DEF Resolve
<1>3. ASSUME NEW s \in TLSFiles
      PROVE  Config(env)[s] \in {Blank, "good", "bad", "missing"}
  <2>1. s \in Settings /\ s \notin Numbers /\ s \notin Booleans
    BY DEF Settings, Booleans, Numbers, TLSFiles
  <2>2. env[s] \in {Blank, "good", "bad", "missing"}
    BY <2>1 DEF IsEnvironment
  <2>3. Config(env)[s] = Resolve(env, s)
    BY <2>1 DEF Config
  <2>4. Default(s) = Blank
    <3>1. \A t \in TLSFiles : TextDefaults[t] = Blank
      BY DEF TextDefaults, TLSFiles
    <3> QED
      BY <2>1, <3>1 DEF Default
  <2> QED
    BY <2>2, <2>3, <2>4 DEF Resolve
<1> QED
  BY <1>1, <1>2, <1>3 DEF IsConfig

\* A validated configuration with its store enabled fails to build only on a
\* file that is there and cannot be used.
LEMMA StoreBuilds ==
  ASSUME NEW c, IsConfig(c), validate(c) = {}, On(c, "REDIS_ENABLED"),
         \A s \in TLSFiles : c[s] # "bad"
  PROVE  ~NewFails(c)
<1>1. validateStore(c) = {}
  BY DEF validate
<1>2. c["REDIS_MODE"] \in {"single", "cluster"} /\ c["REDIS_ADDRS"] # ","
  <2>1. \A s : s \notin validateStore(c)
    BY <1>1
  <2>2. "REDIS_MODE" \notin {s \in {"REDIS_MODE"} : c[s] \notin Allowed[s]}
    BY <2>1, Zenon DEF validateStore
  <2>3. "REDIS_ADDRS" \notin {s \in {"REDIS_ADDRS"} : c[s] = ","}
    BY <2>1, Zenon DEF validateStore
  <2>4. Allowed["REDIS_MODE"] = {"single", "cluster"}
    BY DEF Allowed
  <2> QED
    BY <2>2, <2>3, <2>4
<1>3. TLSErrors(c) = {}
  BY <1>1 DEF validateStore
<1>4. \A s \in TLSFiles : c[s] \in {Blank, "good"}
  BY <1>3 DEF TLSErrors, IsConfig
<1>5. c["REDIS_TLS_CERT_FILE"] # Blank <=> c["REDIS_TLS_KEY_FILE"] # Blank
  BY <1>3 DEF TLSErrors, TLSFiles
<1>6. ~buildTLSFails(c)
  <2>1. Blank \notin {"good", "bad", "missing"}
    BY Zenon DEF Blank
  <2>2. /\ c["REDIS_TLS_CA_FILE"] \in {Blank, "good"}
        /\ c["REDIS_TLS_CERT_FILE"] \in {Blank, "good"}
        /\ c["REDIS_TLS_KEY_FILE"] \in {Blank, "good"}
    BY <1>4 DEF TLSFiles
  <2> DEFINE pair == {c["REDIS_TLS_CERT_FILE"], c["REDIS_TLS_KEY_FILE"]}
  <2>3. pair \in {{Blank}, {"good"}}
    BY <1>5, <2>1, <2>2
  <2>4. c["REDIS_TLS_CA_FILE"] \notin {"bad", "missing"}
    BY <2>1, <2>2
  <2> QED
    BY <2>3, <2>4, Zenon DEF buildTLSFails
<1> QED
  BY <1>2, <1>6 DEF NewFails

\* And its decorators have usable options.
LEMMA DecoratorsUsable ==
  ASSUME NEW c, IsConfig(c), validate(c) = {}, On(c, "REDIS_ENABLED")
  PROVE  /\ On(c, "BLOCK_CACHE_ENABLED") => c["BLOCK_CACHE_MAX_ENTRIES"] > 0 /\ c["BLOCK_CACHE_MAX_TTL"] > 0
         /\ c["STORE_BREAKER_THRESHOLD"] > 0 => c["STORE_BREAKER_COOLDOWN"] > 0
<1>1. validateDecorators(c) = {}
  BY DEF validate
<1>2. \A s \in {"BLOCK_CACHE_MAX_ENTRIES", "BLOCK_CACHE_MAX_TTL", "STORE_BREAKER_COOLDOWN"} : c[s] \in Int
  BY DEF IsConfig, Numbers
<1> QED
  <2>1. ASSUME NEW ss, NEW s \in ss, NotPositive(c, ss) = {}, c[s] \in Int
        PROVE  c[s] > 0
    BY <2>1 DEF NotPositive
  <2>2. On(c, "BLOCK_CACHE_ENABLED") => NotPositive(c, {"BLOCK_CACHE_MAX_ENTRIES", "BLOCK_CACHE_MAX_TTL"}) = {}
    BY <1>1 DEF validateDecorators
  <2>3. c["STORE_BREAKER_THRESHOLD"] > 0 => NotPositive(c, {"STORE_BREAKER_COOLDOWN"}) = {}
    BY <1>1 DEF validateDecorators
  <2>4. "BLOCK_CACHE_MAX_ENTRIES" \in {"BLOCK_CACHE_MAX_ENTRIES", "BLOCK_CACHE_MAX_TTL"}
        /\ "BLOCK_CACHE_MAX_TTL" \in {"BLOCK_CACHE_MAX_ENTRIES", "BLOCK_CACHE_MAX_TTL"}
        /\ "STORE_BREAKER_COOLDOWN" \in {"STORE_BREAKER_COOLDOWN"}
    OBVIOUS
  <2> QED
    BY <1>2, <2>1, <2>2, <2>3, <2>4

\* The elements of a concatenation.
LEMMA ConcatIs ==
  ASSUME NEW S, NEW s \in Seq(S), NEW t \in Seq(S)
  PROVE  /\ s \o t \in Seq(S) /\ Len(s \o t) = Len(s) + Len(t)
         /\ \A i \in 1..(Len(s) + Len(t)) :
               (s \o t)[i] = IF i <= Len(s) THEN s[i] ELSE t[i - Len(s)]
OBVIOUS

\* One layer put before another.
LEMMA TwoLayers ==
  ASSUME NEW a, NEW b
  PROVE  <<a>> \o <<b>> = <<a, b>>
<1> DEFINE S == {a, b}
           u == <<a>>
           v == <<b>>
           w == <<a, b>>
<1>1. /\ u \in Seq(S) /\ v \in Seq(S) /\ w \in Seq(S)
      /\ Len(u) = 1 /\ Len(v) = 1 /\ Len(w) = 2
      /\ u[1] = a /\ v[1] = b /\ w[1] = a /\ w[2] = b
  OBVIOUS
<1> HIDE DEF S, u, v, w
<1>2. Len(u \o v) = 2 /\ u \o v \in Seq(S) /\ (u \o v)[1] = a /\ (u \o v)[2] = b
  <2>1. /\ u \o v \in Seq(S) /\ Len(u \o v) = 1 + 1
        /\ \A i \in 1..(1 + 1) : (u \o v)[i] = IF i <= 1 THEN u[i] ELSE v[i - 1]
    <3>1. u \in Seq(S) /\ v \in Seq(S)
      BY <1>1
    <3> QED
      BY <1>1, <3>1, ConcatIs
  <2>2. (u \o v)[1] = u[1] /\ (u \o v)[2] = v[1]
    BY <2>1
  <2> QED
    BY <1>1, <2>1, <2>2
<1>3. u \o v = w
  BY <1>1, <1>2
<1> QED
  BY <1>3 DEF u, v, w

\* One put before two.
LEMMA ThreeLayers ==
  ASSUME NEW a, NEW b, NEW c
  PROVE  <<a, b>> \o <<c>> = <<a, b, c>>
<1> DEFINE S == {a, b, c}
           u == <<a, b>>
           v == <<c>>
           w == <<a, b, c>>
<1>1. /\ u \in Seq(S) /\ v \in Seq(S) /\ w \in Seq(S)
      /\ Len(u) = 2 /\ Len(v) = 1 /\ Len(w) = 3
      /\ u[1] = a /\ u[2] = b /\ v[1] = c /\ w[1] = a /\ w[2] = b /\ w[3] = c
  OBVIOUS
<1> HIDE DEF S, u, v, w
<1>2. /\ Len(u \o v) = 3 /\ u \o v \in Seq(S)
      /\ (u \o v)[1] = a /\ (u \o v)[2] = b /\ (u \o v)[3] = c
  <2>1. /\ u \o v \in Seq(S) /\ Len(u \o v) = 2 + 1
        /\ \A i \in 1..(2 + 1) : (u \o v)[i] = IF i <= 2 THEN u[i] ELSE v[i - 2]
    <3>1. u \in Seq(S) /\ v \in Seq(S)
      BY <1>1
    <3>2. /\ u \o v \in Seq(S) /\ Len(u \o v) = Len(u) + Len(v)
          /\ \A i \in 1..(Len(u) + Len(v)) :
                (u \o v)[i] = IF i <= Len(u) THEN u[i] ELSE v[i - Len(u)]
      BY <3>1, ConcatIs
    <3> QED
      BY <1>1, <3>2, Zenon
  <2>2. 1 \in 1..(2 + 1) /\ 2 \in 1..(2 + 1) /\ 3 \in 1..(2 + 1) /\ 2 + 1 = 3 /\ 3 - 2 = 1
    OBVIOUS
  <2>3. (u \o v)[1] = u[1] /\ (u \o v)[2] = u[2]
    BY <2>1, <2>2
  <2>4. (u \o v)[3] = v[1]
    BY <2>1, <2>2
  <2> QED
    BY <1>1, <2>1, <2>2, <2>3, <2>4
<1>3. u \o v = w
  BY <1>1, <1>2
<1> QED
  BY <1>3 DEF u, v, w

\* The chain that is built, layer by layer.
LEMMA Layers ==
  ASSUME NEW c
  PROVE  LET cache == On(c, "BLOCK_CACHE_ENABLED")
             breaker == c["STORE_BREAKER_THRESHOLD"] > 0
         IN  buildStore(c) =
               IF ~On(c, "REDIS_ENABLED") \/ NewFails(c) THEN <<"noop">>
               ELSE IF cache THEN IF breaker THEN <<"cache", "breaker", "redis">> ELSE <<"cache", "redis">>
               ELSE IF breaker THEN <<"breaker", "redis">> ELSE <<"redis">>
<1> DEFINE cache == On(c, "BLOCK_CACHE_ENABLED")
           breaker == c["STORE_BREAKER_THRESHOLD"] > 0
<1>1. <<"cache">> \o <<"breaker">> = <<"cache", "breaker">>
  BY TwoLayers
<1>2. <<"cache">> \o <<>> = <<"cache">>
  OBVIOUS
<1>3. <<>> \o <<"breaker">> = <<"breaker">>
  OBVIOUS
<1>4. <<>> \o <<>> = <<>>
  OBVIOUS
<1>5. <<"cache", "breaker">> \o <<"redis">> = <<"cache", "breaker", "redis">>
  BY ThreeLayers
<1>6. <<"cache">> \o <<"redis">> = <<"cache", "redis">>
  BY TwoLayers
<1>7. <<"breaker">> \o <<"redis">> = <<"breaker", "redis">>
  BY TwoLayers
<1>8. <<>> \o <<"redis">> = <<"redis">>
  OBVIOUS
<1> QED
  BY <1>1, <1>2, <1>3, <1>4, <1>5, <1>6, <1>7, <1>8, Zenon DEF buildStore

----------------------------------------------------------------------------
(***************************************************************************)
(* Key specifications nest, so what is defined by recursion over them is   *)
(* defined level by level.                                                 *)
(***************************************************************************)
LEMMA ByLevels ==
  ASSUME NEW S, 0 \in S, \A n \in Nat : n \in S => n + 1 \in S
  PROVE  \A n \in Nat : n \in S
<1> DEFINE T == {n \in Nat : n \notin S}
           R == OpToRel(<, Nat)
<1>1. SUFFICES ASSUME T # {}
               PROVE  FALSE
  OBVIOUS
<1>2. T \subseteq Nat
  OBVIOUS
<1>3. PICK n \in T : \A m \in T : <<m, n>> \notin R
  <2> HIDE DEF T, R
  <2>1. IsWellFoundedOn(R, Nat)
    BY NatLessThanWellFounded DEF R
  <2> QED
    BY <1>1, <1>2, <2>1, WFMin, Zenon
<1>4. n # 0 /\ n \in Nat
  OBVIOUS
<1>5. n - 1 \in Nat /\ n - 1 < n /\ (n - 1) + 1 = n
  BY <1>4
<1>6. n - 1 \in T
  BY <1>4, <1>5
<1>7. <<n - 1, n>> \in R
  BY <1>4, <1>5 DEF OpToRel
<1> QED
  BY <1>3, <1>6, <1>7

\* The specifications of the first n levels.
Under(n) == {k \in KeySpecs : \E m \in 1..n : m <= Len(KeyLevels) /\ k \in KeyLevels[m]}

\* Nothing is under level 0 and everything under the last; the parts of a key are
\* a level further down.
LEMMA Nesting ==
  /\ Under(0) = {}
  /\ Under(Len(KeyLevels)) = KeySpecs
  /\ \A n \in Nat : \A k \in Under(n + 1) : Parts(k) \subseteq Under(n)
<1>1. Under(0) = {}
  BY DEF Under
<1>2. Under(Len(KeyLevels)) = KeySpecs
  BY KeysAssumption DEF Under, KeySpecs
<1>3. ASSUME NEW n \in Nat, NEW k \in Under(n + 1), NEW p \in Parts(k)
      PROVE  p \in Under(n)
  <2>1. PICK m \in 1..(n + 1) : m <= Len(KeyLevels) /\ k \in KeyLevels[m]
    BY DEF Under
  <2>2. m \in 1..Len(KeyLevels)
    BY <2>1, KeysAssumption
  <2>3. PICK i \in 1..(m - 1) : p \in KeyLevels[i]
    BY <2>1, <2>2, KeysAssumption
  <2>4. i \in 1..n /\ i <= Len(KeyLevels) /\ i \in 1..Len(KeyLevels)
    BY <2>1, <2>2, <2>3, KeysAssumption
  <2> QED
    BY <2>3, <2>4 DEF Under, KeySpecs
<1> QED
  BY <1>1, <1>2, <1>3

\* A rule that looks only at the parts of a key has a solution.
LooksAtParts(G, V) ==
  \A k \in KeySpecs : \A f, g \in [KeySpecs -> V] :
     (\A p \in Parts(k) : f[p] = g[p]) => G[<<k, f>>] = G[<<k, g>>]

Solvable(G, V) == \E f \in [KeySpecs -> V] : f = [k \in KeySpecs |-> G[<<k, f>>]]

\* The solution is built level by level.
LEMMA Recursion ==
  ASSUME NEW V, V # {}, NEW G \in [KeySpecs \X [KeySpecs -> V] -> V], LooksAtParts(G, V)
  PROVE  Solvable(G, V)
<1> DEFINE F == [KeySpecs -> V]
           S == {n \in Nat : \E f \in F : \A k \in Under(n) : f[k] = G[<<k, f>>]}
<1>1. \A n : Under(n) \subseteq KeySpecs
  BY DEF Under
<1>2. 0 \in S
  <2>1. PICK v \in V : TRUE
    OBVIOUS
  <2>2. [k \in KeySpecs |-> v] \in F
    OBVIOUS
  <2> QED
    BY <2>2, Nesting
<1>3. ASSUME NEW n \in Nat, n \in S
      PROVE  n + 1 \in S
  <2>1. PICK f \in F : \A k \in Under(n) : f[k] = G[<<k, f>>]
    BY <1>3
  <2> DEFINE g == [k \in KeySpecs |-> G[<<k, f>>]]
  <2>2. g \in F
    OBVIOUS
  <2>3. ASSUME NEW k \in Under(n + 1)
        PROVE  g[k] = G[<<k, g>>]
    <3>1. k \in KeySpecs /\ Parts(k) \subseteq Under(n)
      BY <1>1, Nesting
    <3>2. \A p \in Parts(k) : g[p] = f[p]
      BY <1>1, <2>1, <3>1
    <3> HIDE DEF g
    <3>3. G[<<k, f>>] = G[<<k, g>>]
      BY <2>2, <3>1, <3>2 DEF LooksAtParts
    <3> QED
      BY <3>1, <3>3 DEF g
  <2>4. n + 1 \in Nat
    OBVIOUS
  <2> HIDE DEF g
  <2> QED
    BY <2>2, <2>3, <2>4
<1>4. Len(KeyLevels) \in S
  <2> HIDE DEF S
  <2> QED
    BY <1>2, <1>3, ByLevels, KeysAssumption
<1>5. PICK f \in F : \A k \in KeySpecs : f[k] = G[<<k, f>>]
  BY <1>4, Nesting
<1>6. f = [k \in KeySpecs |-> G[<<k, f>>]]
  BY <1>5
<1> QED
  BY <1>6 DEF Solvable

\* The parts of a specification are specifications, hash is a switch and query a
\* list of names.
LEMMA KeyParts ==
  \A k \in KeySpecs : Parts(k) \subseteq KeySpecs /\ k.hash \in BOOLEAN /\ k.query \in Seq(Chars)
<1>1. ASSUME NEW k \in KeySpecs
      PROVE  Parts(k) \subseteq KeySpecs
  <2>1. PICK n \in 1..Len(KeyLevels) : k \in KeyLevels[n]
    BY DEF KeySpecs
  <2>2. ASSUME NEW p \in Parts(k)
        PROVE  p \in KeySpecs
    <3>1. PICK m \in 1..(n - 1) : p \in KeyLevels[m]
      BY <2>1, KeysAssumption
    <3>2. m \in 1..Len(KeyLevels)
      BY KeysAssumption
    <3> QED
      BY <3>1, <3>2 DEF KeySpecs
  <2> QED
    BY <2>2
<1>2. ASSUME NEW k \in KeySpecs
      PROVE  k.hash \in BOOLEAN /\ k.query \in Seq(Chars)
  <2>1. PICK n \in 1..Len(KeyLevels) : k \in KeyLevels[n]
    BY DEF KeySpecs
  <2> QED
    BY <2>1, KeysAssumption, Zenon
<1> QED
  BY <1>1, <1>2

\* needsHash looks at the root of the key and asks every part.
LEMMA NeedsHash ==
  \A k \in KeySpecs : needsHash(k) <=> k.hash \/ \E p \in Parts(k) : needsHash(p)
<1> DEFINE F == [KeySpecs -> BOOLEAN]
           G == [x \in KeySpecs \X F |-> x[1].hash \/ \E p \in Parts(x[1]) : x[2][p]]
           Eq(f) == f = [k \in KeySpecs |-> k.hash \/ \E p \in Parts(k) : f[p]]
           needs == CHOOSE f : Eq(f)
<1>1. ASSUME NEW k \in KeySpecs, NEW f \in F
      PROVE  G[<<k, f>>] = (k.hash \/ \E p \in Parts(k) : f[p])
  OBVIOUS
<1>2. G \in [KeySpecs \X F -> BOOLEAN]
  OBVIOUS
<1>3. ASSUME NEW k \in KeySpecs, NEW f \in F, NEW g \in F, \A p \in Parts(k) : f[p] = g[p]
      PROVE  G[<<k, f>>] = G[<<k, g>>]
  <2>1. (\E p \in Parts(k) : f[p]) <=> (\E p \in Parts(k) : g[p])
    BY <1>3, Zenon
  <2> QED
    BY <1>1, <2>1, Zenon
<1>4. PICK f \in F : f = [k \in KeySpecs |-> G[<<k, f>>]]
  <2> HIDE DEF G
  <2>1. BOOLEAN # {} /\ LooksAtParts(G, BOOLEAN)
    BY <1>3 DEF LooksAtParts
  <2>2. Solvable(G, BOOLEAN)
    BY <1>2, <2>1, Recursion, Zenon
  <2> QED
    BY <2>2, Zenon DEF Solvable
<1>5. Eq(f)
  <2> HIDE DEF G
  <2>1. \A k \in KeySpecs : f[k] = (k.hash \/ \E p \in Parts(k) : f[p])
    BY <1>1, <1>4, Zenon
  <2>2. DOMAIN f = KeySpecs
    OBVIOUS
  <2> QED
    BY <1>1, <1>4, Zenon
<1>6. Eq(needs)
  <2> HIDE DEF Eq
  <2> QED
    BY <1>5, Zenon
<1>7. \A k : needsHash(k) = needs[k]
  BY Zenon DEF needsHash
<1>8. ASSUME NEW k \in KeySpecs
      PROVE  needs[k] = (k.hash \/ \E p \in Parts(k) : needs[p])
  <2> HIDE DEF needs
  <2> QED
    BY <1>6, Zenon
<1> HIDE DEF needs
<1> QED
  BY <1>7, <1>8, Zenon

\* The nodes of a key are its root and the nodes of its parts.
LEMMA NodesOf ==
  \A k \in KeySpecs : Nodes(k) = {k} \union UNION {Nodes(p) : p \in Parts(k)}
<1> DEFINE V == SUBSET KeySpecs
           F == [KeySpecs -> V]
           G == [x \in KeySpecs \X F |-> {x[1]} \union UNION {x[2][p] : p \in Parts(x[1])}]
           Eq(f) == f = [k \in KeySpecs |-> {k} \union UNION {f[p] : p \in Parts(k)}]
           nodes == CHOOSE f : Eq(f)
<1>1. ASSUME NEW k \in KeySpecs, NEW f \in F
      PROVE  G[<<k, f>>] = {k} \union UNION {f[p] : p \in Parts(k)}
  OBVIOUS
<1>2. G \in [KeySpecs \X F -> V]
  <2>1. ASSUME NEW x \in KeySpecs \X F
        PROVE  {x[1]} \union UNION {x[2][p] : p \in Parts(x[1])} \subseteq KeySpecs
    BY KeyParts
  <2> QED
    BY <2>1
<1>3. ASSUME NEW k \in KeySpecs, NEW f \in F, NEW g \in F, \A p \in Parts(k) : f[p] = g[p]
      PROVE  G[<<k, f>>] = G[<<k, g>>]
  <2>1. UNION {f[p] : p \in Parts(k)} = UNION {g[p] : p \in Parts(k)}
    BY <1>3
  <2>2. G[<<k, f>>] = {k} \union UNION {f[p] : p \in Parts(k)}
    BY <1>1
  <2>3. G[<<k, g>>] = {k} \union UNION {g[p] : p \in Parts(k)}
    BY <1>1
  <2> HIDE DEF G
  <2> QED
    BY <2>1, <2>2, <2>3, Zenon
<1>4. PICK f \in F : f = [k \in KeySpecs |-> G[<<k, f>>]]
  <2> HIDE DEF G
  <2>1. V # {} /\ LooksAtParts(G, V)
    BY <1>3 DEF LooksAtParts
  <2> HIDE DEF V
  <2>2. Solvable(G, V)
    BY <1>2, <2>1, Recursion, Zenon
  <2> QED
    BY <2>2, Zenon DEF Solvable
<1>5. Eq(f)
  <2> HIDE DEF G
  <2>1. \A k \in KeySpecs : f[k] = {k} \union UNION {f[p] : p \in Parts(k)}
    BY <1>1, <1>4, Zenon
  <2> QED
    BY <2>1
<1>6. Eq(nodes)
  <2> HIDE DEF Eq
  <2> QED
    BY <1>5, Zenon
<1>7. \A k : Nodes(k) = nodes[k]
  BY Zenon DEF Nodes
<1>8. ASSUME NEW k \in KeySpecs
      PROVE  nodes[k] = {k} \union UNION {nodes[p] : p \in Parts(k)}
  <2> HIDE DEF nodes
  <2> QED
    BY <1>6, Zenon
<1> HIDE DEF nodes
<1>9. \A k : {Nodes(p) : p \in Parts(k)} = {nodes[p] : p \in Parts(k)}
  BY <1>7
<1> QED
  BY <1>7, <1>8, <1>9, Zenon

\* A key with a hashed node anywhere needs the secret.
LEMMA HashFound ==
  \A k \in KeySpecs : (\E n \in Nodes(k) : n.hash) => needsHash(k)
<1> DEFINE S == {n \in Nat : \A k \in Under(n) : \A m \in Nodes(k) : m.hash => needsHash(k)}
<1>1. 0 \in S
  BY Nesting
<1>2. ASSUME NEW n \in Nat, n \in S
      PROVE  n + 1 \in S
  <2>1. ASSUME NEW k \in Under(n + 1), NEW m \in Nodes(k), m.hash
        PROVE  needsHash(k)
    <3>1. k \in KeySpecs /\ Parts(k) \subseteq Under(n)
      BY Nesting DEF Under
    <3>2. CASE m = k
      BY <2>1, <3>1, <3>2, NeedsHash, Zenon
    <3>3. CASE m # k
      <4>1. PICK p \in Parts(k) : m \in Nodes(p)
        BY <3>1, <3>3, NodesOf
      <4>2. needsHash(p)
        BY <1>2, <2>1, <3>1, <4>1, Zenon
      <4> QED
        BY <3>1, <4>2, NeedsHash, Zenon
    <3> QED
      BY <3>2, <3>3
  <2>2. n + 1 \in Nat
    OBVIOUS
  <2> QED
    BY <2>1, <2>2, Zenon
<1>3. Len(KeyLevels) \in S
  <2> HIDE DEF S
  <2> QED
    BY <1>1, <1>2, ByLevels, KeysAssumption
<1> QED
  BY <1>3, Nesting, Zenon

\* A key has exactly one source.
OneOf(k) == \E s \in Sources : sources(k) = {s}

\* A valid key has, and so do its parts.
LEMMA ValidKey ==
  \A k \in KeySpecs : validKey(k) => OneOf(k) /\ \A p \in Parts(k) : validKey(p)
<1> DEFINE F == [KeySpecs -> BOOLEAN]
           Own(k) == /\ \E s \in Sources : sources(k) = {s}
                     /\ k.separator = Blank \/ k.composite # <<>>
                     /\ k.normalise \in Normalisers
                     /\ Len(k.composite) # 1
           G == [x \in KeySpecs \X F |-> Own(x[1]) /\ \A p \in Parts(x[1]) : x[2][p]]
           Eq(f) == f = [k \in KeySpecs |->
                           /\ \E s \in Sources : sources(k) = {s}
                           /\ k.separator = Blank \/ k.composite # <<>>
                           /\ k.normalise \in Normalisers
                           /\ \A p \in Parts(k) : f[p]
                           /\ Len(k.composite) # 1]
           valid == CHOOSE f : Eq(f)
<1> HIDE DEF Own
<1>1. ASSUME NEW k \in KeySpecs, NEW f \in F
      PROVE  G[<<k, f>>] = (Own(k) /\ \A p \in Parts(k) : f[p])
  OBVIOUS
<1>2. G \in [KeySpecs \X F -> BOOLEAN]
  OBVIOUS
<1>3. ASSUME NEW k \in KeySpecs, NEW f \in F, NEW g \in F, \A p \in Parts(k) : f[p] = g[p]
      PROVE  G[<<k, f>>] = G[<<k, g>>]
  <2>1. (\A p \in Parts(k) : f[p]) <=> (\A p \in Parts(k) : g[p])
    BY <1>3, Zenon
  <2> QED
    BY <1>1, <2>1, Zenon
<1>4. PICK f \in F : f = [k \in KeySpecs |-> G[<<k, f>>]]
  <2> HIDE DEF G
  <2>1. BOOLEAN # {} /\ LooksAtParts(G, BOOLEAN)
    BY <1>3 DEF LooksAtParts
  <2>2. Solvable(G, BOOLEAN)
    BY <1>2, <2>1, Recursion, Zenon
  <2> QED
    BY <2>2, Zenon DEF Solvable
<1>5. Eq(f)
  <2> HIDE DEF G
  <2>1. ASSUME NEW k \in KeySpecs
        PROVE  f[k] = (/\ \E s \in Sources : sources(k) = {s}
                       /\ k.separator = Blank \/ k.composite # <<>>
                       /\ k.normalise \in Normalisers
                       /\ \A p \in Parts(k) : f[p]
                       /\ Len(k.composite) # 1)
    <3>1. f[k] = (Own(k) /\ \A p \in Parts(k) : f[p])
      BY <1>1, <1>4, Zenon
    <3> QED
      BY <3>1, Zenon DEF Own
  <2>2. f = [k \in KeySpecs |-> f[k]]
    OBVIOUS
  <2> QED
    BY <2>1, <2>2, Zenon
<1>6. Eq(valid)
  <2> HIDE DEF Eq
  <2> QED
    BY <1>5, Zenon
<1>7. \A k : validKey(k) = valid[k]
  BY Zenon DEF validKey
<1>8. ASSUME NEW k \in KeySpecs, valid[k]
      PROVE  OneOf(k) /\ \A p \in Parts(k) : valid[p]
  <2> HIDE DEF valid
  <2> QED
    BY <1>6, <1>8, Zenon DEF OneOf
<1> HIDE DEF valid
<1> QED
  BY <1>7, <1>8, Zenon

\* Two assignments of values to keys that agree on the parts of k.
SameParts(k, f, g) == \A p \in Parts(k) : f[p] = g[p]

\* What a key may yield depends on what its parts may, and on nothing else.
LEMMA KeyLocal ==
  ASSUME NEW k, NEW f, NEW g, NEW secret, NEW r, SameParts(k, f, g)
  PROVE  KeyFrom(k, f, secret, r) = KeyFrom(k, g, secret, r)
<1>1. Each(k.first, f) = Each(k.first, g)
  BY DEF SameParts, Parts, ToSet, Each
<1>2. Each(k.composite, f) = Each(k.composite, g)
  BY DEF SameParts, Parts, ToSet, Each
<1> QED
  BY <1>1, <1>2, Zenon DEF KeyFrom, RawValues

\* Key satisfies its own equation.
LEMMA KeyOf ==
  ASSUME NEW secret, NEW r
  PROVE  \A k \in KeySpecs :
           Key(k, secret, r) = KeyFrom(k, [p \in KeySpecs |-> Key(p, secret, r)], secret, r)
<1> DEFINE Total(f) == f = [k \in KeySpecs |-> f[k]]
           S == {n \in Nat : \E f : Total(f) /\ \A k \in Under(n) : f[k] = KeyFrom(k, f, secret, r)}
           Eq(f) == f = [k \in KeySpecs |-> KeyFrom(k, f, secret, r)]
           of == CHOOSE f : Eq(f)
<1>1. \A n : Under(n) \subseteq KeySpecs
  BY DEF Under
<1>2. 0 \in S
  <2>1. Total([k \in KeySpecs |-> {}])
    OBVIOUS
  <2> HIDE DEF Total
  <2> QED
    BY <2>1, Nesting
<1>3. ASSUME NEW n \in Nat, n \in S
      PROVE  n + 1 \in S
  <2>1. PICK f : Total(f) /\ \A k \in Under(n) : f[k] = KeyFrom(k, f, secret, r)
    BY <1>3
  <2> DEFINE g == [k \in KeySpecs |-> KeyFrom(k, f, secret, r)]
  <2>2. Total(g)
    OBVIOUS
  <2>3. ASSUME NEW k \in Under(n + 1)
        PROVE  g[k] = KeyFrom(k, g, secret, r)
    <3>1. k \in KeySpecs /\ Parts(k) \subseteq Under(n)
      BY <1>1, Nesting
    <3>2. SameParts(k, f, g)
      BY <1>1, <2>1, <3>1 DEF SameParts
    <3>3. g[k] = KeyFrom(k, f, secret, r)
      BY <3>1
    <3> HIDE DEF g
    <3> QED
      BY <3>2, <3>3, KeyLocal
  <2>4. n + 1 \in Nat
    OBVIOUS
  <2> HIDE DEF g, Total
  <2> QED
    BY <2>2, <2>3, <2>4
<1>4. Len(KeyLevels) \in S
  <2> HIDE DEF S
  <2> QED
    BY <1>2, <1>3, ByLevels, KeysAssumption
<1>5. PICK f : Total(f) /\ \A k \in KeySpecs : f[k] = KeyFrom(k, f, secret, r)
  BY <1>4, Nesting
<1>6. Eq(f)
  BY <1>5, Zenon
<1>7. Eq(of)
  <2> HIDE DEF Eq
  <2> QED
    BY <1>6, Zenon
<1>8. \A k : Key(k, secret, r) = of[k]
  BY Zenon DEF Key
<1> HIDE DEF of
<1>9. ASSUME NEW k \in KeySpecs
      PROVE  Key(k, secret, r) = KeyFrom(k, [p \in KeySpecs |-> Key(p, secret, r)], secret, r)
  <2>1. of[k] = KeyFrom(k, of, secret, r)
    BY <1>7, Zenon
  <2> DEFINE g == [p \in KeySpecs |-> Key(p, secret, r)]
  <2>2. SameParts(k, of, g)
    <3>1. Parts(k) \subseteq KeySpecs
      BY KeyParts
    <3> QED
      BY <1>8, <3>1 DEF SameParts
  <2> HIDE DEF g
  <2>3. KeyFrom(k, of, secret, r) = KeyFrom(k, g, secret, r)
    BY <2>2, KeyLocal
  <2>4. Key(k, secret, r) = KeyFrom(k, g, secret, r)
    BY <1>8, <2>1, <2>3, Zenon
  <2> QED
    BY <2>4 DEF g
<1> QED
  BY <1>9

\* The first of the names that will do, if one does.
LEMMA FirstFound ==
  ASSUME NEW names \in Seq(Chars), NEW ok
  PROVE  \/ FirstOf(names, ok) = {} /\ \A n \in ToSet(names) : n \notin ok
         \/ \E n \in ToSet(names) : n \in ok /\ FirstOf(names, ok) = {n}
<1> DEFINE hits == {i \in DOMAIN names : names[i] \in ok}
           R == OpToRel(<, Nat)
<1>1. CASE hits = {}
  BY <1>1 DEF FirstOf, ToSet
<1>2. CASE hits # {}
  <2>1. hits \subseteq Nat
    OBVIOUS
  <2>2. PICK i \in hits : \A j \in hits : <<j, i>> \notin R
    <3> HIDE DEF hits, R
    <3>1. IsWellFoundedOn(R, Nat)
      BY NatLessThanWellFounded DEF R
    <3> QED
      BY <1>2, <2>1, <3>1, WFMin, Zenon
  <2>3. ASSUME NEW j \in hits
        PROVE  i <= j
    <3>1. j \in Nat /\ i \in Nat
      BY <2>1, <2>2
    <3>2. j < i => <<j, i>> \in R
      <4> HIDE DEF hits
      <4> QED
        BY <3>1 DEF OpToRel
    <3>3. ~(j < i)
      <4> HIDE DEF hits, R
      <4> QED
        BY <2>2, <3>2, Zenon
    <3> QED
      BY <3>1, <3>3
  <2>4. Min(hits) \in hits
    <3> HIDE DEF hits
    <3> QED
      BY <2>3 DEF Min
  <2>5. FirstOf(names, ok) = {names[Min(hits)]}
    BY <1>2, Zenon DEF FirstOf
  <2>6. names[Min(hits)] \in ToSet(names) /\ names[Min(hits)] \in ok
    BY <2>4 DEF ToSet
  <2> HIDE DEF hits
  <2> QED
    BY <2>5, <2>6
<1> QED
  BY <1>1, <1>2

\* The parameters of the list that have a value as they are spelled.
Valued(q, names) == {n \in ToSet(names) \intersect DOMAIN q : TrimSpace(q[n]) # <<>>}

\* What a query key finds, whichever way the folded scan goes.
QueryFinds(q, names, v) ==
  /\ v = <<>> <=> \A n \in ToSet(names) : Spellings(q, n) = {}
  /\ Valued(q, names) # {} => \E n \in Valued(q, names) : v = TrimSpace(q[n])

\* Every value that QueryValue may return is such a value.
LEMMA QueryFound ==
  ASSUME NEW r, NEW names \in Seq(Chars), NEW v \in QueryValue(r, names)
  PROVE  QueryFinds(originalQuery(r), names, v)
<1> DEFINE q == originalQuery(r)
           right == {n \in ToSet(names) : Get(q, n) # <<>>}
           near  == {n \in ToSet(names) : Spellings(q, n) # {}}
           exact == FirstOf(names, right)
           loose == FirstOf(names, near)
<1>1. right = Valued(q, names) /\ \A n \in right : Get(q, n) = TrimSpace(q[n])
  BY DEF Get, Valued
<1>2. right \subseteq near
  <2>1. ASSUME NEW n \in right
        PROVE  n \in Spellings(q, n)
    BY <1>1 DEF Valued, Spellings
  <2> QED
    BY <2>1
<1>3. QueryValue(r, names) = CASE exact # {} -> {Get(q, n) : n \in exact}
                               [] exact = {} /\ Loosely(q, names) # {} -> Loosely(q, names)
                               [] OTHER -> {<<>>}
  BY Zenon DEF QueryValue
<1>4. Loosely(q, names) = UNION {{TrimSpace(q[k]) : k \in Spellings(q, n)} : n \in loose}
  BY Zenon DEF Loosely
<1>5. \/ exact = {} /\ \A n \in ToSet(names) : n \notin right
      \/ \E n \in ToSet(names) : n \in right /\ exact = {n}
  BY FirstFound
<1>6. \/ loose = {} /\ \A n \in ToSet(names) : n \notin near
      \/ \E n \in ToSet(names) : n \in near /\ loose = {n}
  BY FirstFound
<1> DEFINE allEmpty == \A n \in ToSet(names) : Spellings(q, n) = {}
<1>7. ASSUME NEW n \in near
      PROVE  ~allEmpty
  OBVIOUS
<1> HIDE DEF q, exact, loose
<1>8. CASE exact # {}
  <2>1. PICK n \in right : exact = {n}
    BY <1>5, <1>8
  <2>2. v = TrimSpace(q[n]) /\ n \in Valued(q, names)
    <3>1. v \in {Get(q, x) : x \in exact}
      BY <1>3, <1>8
    <3> HIDE DEF right
    <3> QED
      BY <1>1, <2>1, <3>1
  <2>3. v # <<>>
    BY <2>2 DEF Valued
  <2>4. ~allEmpty
    BY <1>2, <1>7, <2>1, Zenon
  <2> QED
    BY <2>2, <2>3, <2>4 DEF QueryFinds, q
<1>9. CASE exact = {} /\ Loosely(q, names) # {}
  <2>1. right = {}
    BY <1>5, <1>9
  <2>2. v \in Loosely(q, names)
    BY <1>3, <1>9
  <2>3. PICK n \in loose : v \in {TrimSpace(q[k]) : k \in Spellings(q, n)}
    BY <1>4, <2>2
  <2>4. PICK k \in Spellings(q, n) : v = TrimSpace(q[k])
    BY <2>3
  <2>5. v # <<>>
    BY <2>4 DEF Spellings
  <2>6. ~allEmpty
    BY <1>6, <1>7, <2>3, Zenon
  <2> HIDE DEF right
  <2> QED
    BY <1>1, <2>1, <2>5, <2>6 DEF QueryFinds, q
<1>10. CASE exact = {} /\ Loosely(q, names) = {}
  <2>1. right = {}
    BY <1>5, <1>10
  <2>2. v = <<>>
    BY <1>3, <1>10
  <2>3. near = {}
    <3>1. ASSUME NEW n \in near, loose = {n}
          PROVE  Loosely(q, names) # {}
      <4>1. PICK k \in Spellings(q, n) : TRUE
        OBVIOUS
      <4>2. TrimSpace(q[k]) \in Loosely(q, names)
        BY <1>4, <3>1, <4>1
      <4> QED
        BY <4>2
    <3> QED
      BY <1>6, <1>10, <3>1
  <2>4. allEmpty
    BY <2>3
  <2> HIDE DEF right
  <2> QED
    BY <1>1, <2>1, <2>2, <2>4 DEF QueryFinds, q
<1> QED
  BY <1>8, <1>9, <1>10, Zenon

\* There is a secret where the key is hashed.
Secured(k, secret) == k.hash \in BOOLEAN /\ (k.hash => secret # Blank)

\* A value that is left after normalising is never lost again: where a key is
\* hashed there is a secret.
LEMMA FinishKeeps ==
  ASSUME NEW k, NEW secret, Secured(k, secret), NEW v
  PROVE  Finish(k, secret, v) = <<>> <=> Normalise(k, v) = <<>>
<1> DEFINE s == Normalise(k, v)
<1>1. Digest(s) # <<>>
  <2>1. \A x : <<x>> # <<>>
    OBVIOUS
  <2> QED
    BY <2>1, Zenon DEF Digest
<1>2. Finish(k, secret, v) = CASE ~k.hash \/ s = <<>> -> s
                               [] k.hash /\ secret = Blank -> <<>>
                               [] OTHER -> Digest(s)
  BY Zenon DEF Finish, Hash
<1> HIDE DEF s
<1> USE DEF Secured
<1>3. CASE ~k.hash \/ s = <<>>
  <2>1. Finish(k, secret, v) = s
    <3>1. ~(k.hash /\ secret = Blank) \/ s = <<>>
      BY <1>3
    <3> QED
      BY <1>2, <1>3, <3>1
  <2> QED
    BY <2>1 DEF s
<1>4. CASE ~(~k.hash \/ s = <<>>)
  <2>1. Finish(k, secret, v) = Digest(s)
    BY <1>2, <1>4
  <2> QED
    BY <1>1, <1>4, <2>1 DEF s
<1> QED
  BY <1>3, <1>4

\* A key without a normaliser and a hash leaves its value as it is.
LEMMA FinishPlain ==
  ASSUME NEW k, k.normalise = Blank, ~k.hash, NEW secret, NEW v
  PROVE  Finish(k, secret, v) = v
<1>1. Blank # "digits" /\ Blank # "lower" /\ Blank # "trim" /\ Blank # "ipsubnet"
  BY Zenon DEF Blank
<1>2. Normalise(k, v) = v
  BY <1>1 DEF Normalise
<1>3. Hash(k, secret, v) = v
  BY DEF Hash
<1> QED
  BY <1>2, <1>3 DEF Finish

\* A key with one source takes its value from there.
LEMMA OneSource ==
  ASSUME NEW k, OneOf(k), NEW of, NEW r
  PROVE  /\ k.body # <<>> => RawValues(k, of, r) = {Field(r, k.body)} /\ Parts(k) = {}
         /\ k.header # <<>> => RawValues(k, of, r) = {HeaderValue(r, k.header)} /\ Parts(k) = {}
         /\ k.query # <<>> => RawValues(k, of, r) = QueryValue(r, k.query) /\ Parts(k) = {}
         /\ k.first # <<>> => RawValues(k, of, r) = FirstValues(k, Each(k.first, of))
         /\ k.composite # <<>> => RawValues(k, of, r) = JoinedValues(k, Each(k.composite, of))
         /\ \E s \in {k.body, k.header, k.query, k.first, k.composite} : s # <<>>
<1>1. PICK s \in Sources : sources(k) = {s}
  BY DEF OneOf
<1>2. ASSUME NEW t \in Sources, k[t] # <<>>
      PROVE  \A u \in Sources : u # t => k[u] = <<>>
  BY <1>1, <1>2 DEF sources
<1>3. ToSet(<<>>) = {}
  BY DEF ToSet
<1>4. CASE k.body # <<>>
  <2>1. k.header = <<>> /\ k.query = <<>> /\ k.first = <<>> /\ k.composite = <<>>
    BY <1>2, <1>4 DEF Sources
  <2> QED
    BY <1>3, <1>4, <2>1 DEF RawValues, Parts
<1>5. CASE k.header # <<>>
  <2>1. k.body = <<>> /\ k.query = <<>> /\ k.first = <<>> /\ k.composite = <<>>
    BY <1>2, <1>5 DEF Sources
  <2> QED
    BY <1>3, <1>5, <2>1 DEF RawValues, Parts
<1>6. CASE k.query # <<>>
  <2>1. k.body = <<>> /\ k.header = <<>> /\ k.first = <<>> /\ k.composite = <<>>
    BY <1>2, <1>6 DEF Sources
  <2> QED
    BY <1>3, <1>6, <2>1 DEF RawValues, Parts
<1>7. CASE k.first # <<>>
  <2>1. k.body = <<>> /\ k.header = <<>> /\ k.query = <<>> /\ k.composite = <<>>
    BY <1>2, <1>7 DEF Sources
  <2> QED
    BY <1>7, <2>1 DEF RawValues
<1>8. CASE k.composite # <<>>
  <2>1. k.body = <<>> /\ k.header = <<>> /\ k.query = <<>> /\ k.first = <<>>
    BY <1>2, <1>8 DEF Sources
  <2> QED
    BY <1>8, <2>1 DEF RawValues
<1>9. k.body # <<>> \/ k.header # <<>> \/ k.query # <<>> \/ k.first # <<>> \/ k.composite # <<>>
  BY <1>1 DEF sources, Sources
<1> QED
  BY <1>4, <1>5, <1>6, <1>7, <1>8, <1>9

\* The values of each of the parts, in order.
LEMMA EachOf ==
  ASSUME NEW keys \in Seq(KeySpecs), NEW of, NEW D, \A i \in DOMAIN keys : of[keys[i]] \in D
  PROVE  /\ Each(keys, of) \in Seq(D) /\ Len(Each(keys, of)) = Len(keys)
         /\ DOMAIN Each(keys, of) = DOMAIN keys
         /\ \A i \in DOMAIN keys : Each(keys, of)[i] = of[keys[i]]
<1>1. DOMAIN keys = 1..Len(keys) /\ Len(keys) \in Nat
  OBVIOUS
<1> QED
  BY <1>1 DEF Each

----------------------------------------------------------------------------
(***************************************************************************)
(* The loop of Build                                                       *)
(***************************************************************************)
\* The limiters among the first n that can be built.
Kept(f, secret, n) == {m \in 1..n : Buildable(f.limiters[m], secret)}

\* b is what the first n rounds make of the file: every limiter that can be
\* built and no other, in order; the names of the rest; and the responses of
\* those built that have one.
MadeLimiters(b, f, secret, n) ==
  LET F == f.limiters
      kept == Kept(f, secret, n)
  IN  /\ b.limiters \in Seq({BuiltLimiter(F[m]) : m \in kept})
      /\ \A m \in kept : \E i \in DOMAIN b.limiters : b.limiters[i] = BuiltLimiter(F[m])
      /\ \A i, j \in DOMAIN b.limiters : i < j =>
            \E m, k \in 1..n : /\ m < k
                               /\ b.limiters[i].name = F[m].name
                               /\ b.limiters[j].name = F[k].name

MadeResponses(b, f, secret, n) ==
  LET F == f.limiters
      kept == Kept(f, secret, n)
  IN  /\ DOMAIN b.responses = {F[m].name : m \in {i \in kept : Present(F[i].response)}}
      /\ \A m \in kept : Present(F[m].response) =>
            b.responses[F[m].name] = resolveResponse(Value(F[m].response), b.default)

Made(b, f, secret, n) ==
  /\ DOMAIN b = {"limiters", "responses", "default", "warnings"}
  /\ b.default = BuiltDefault(f)
  /\ b.warnings = {f.limiters[m].name : m \in (1..n) \ Kept(f, secret, n)}
  /\ MadeLimiters(b, f, secret, n)
  /\ MadeResponses(b, f, secret, n)

\* Build copies the name.
LEMMA BuiltName ==
  ASSUME NEW l
  PROVE  BuiltLimiter(l).name = l.name
BY DEF BuiltLimiter

\* Before the first round.
LEMMA MadeFirst ==
  ASSUME NEW f, NEW secret
  PROVE  Made(NewBuilt(f), f, secret, 0)
<1>1. Kept(f, secret, 0) = {} /\ 1..0 = {}
  BY DEF Kept
<1>2. /\ DOMAIN NewBuilt(f) = {"limiters", "responses", "default", "warnings"}
      /\ NewBuilt(f).default = BuiltDefault(f)
      /\ NewBuilt(f).limiters = <<>>
      /\ NewBuilt(f).responses = <<>>
      /\ NewBuilt(f).warnings = {}
  BY DEF NewBuilt
<1>3. \A S : <<>> \in Seq(S)
  OBVIOUS
<1>4. DOMAIN <<>> = {}
  OBVIOUS
<1> QED
  BY <1>1, <1>2, <1>3, <1>4 DEF Made, MadeLimiters, MadeResponses

\* A round that leaves its limiter out.
LEMMA MadeDisable ==
  ASSUME NEW f, NEW secret, NEW b, NEW n \in Nat,
         Made(b, f, secret, n), ~Buildable(f.limiters[n + 1], secret)
  PROVE  Made(Disable(b, f.limiters[n + 1]), f, secret, n + 1)
<1> DEFINE F == f.limiters
           d == Disable(b, F[n + 1])
<1>1. Kept(f, secret, n + 1) = Kept(f, secret, n)
  BY DEF Kept
<1>2. (1..(n + 1)) \ Kept(f, secret, n) = ((1..n) \ Kept(f, secret, n)) \union {n + 1}
  BY DEF Kept
<1>3. /\ DOMAIN d = DOMAIN b /\ d.default = b.default
      /\ d.limiters = b.limiters /\ d.responses = b.responses
      /\ d.warnings = b.warnings \union {F[n + 1].name}
  BY DEF Disable, Made
<1>4. 1..n \subseteq 1..(n + 1)
  OBVIOUS
<1> HIDE DEF d
<1>5. d.warnings = {F[m].name : m \in (1..(n + 1)) \ Kept(f, secret, n)}
  BY <1>2, <1>3 DEF Made
<1>6. \A i, j \in DOMAIN d.limiters : i < j =>
         \E m, k \in 1..(n + 1) : /\ m < k
                                  /\ d.limiters[i].name = F[m].name
                                  /\ d.limiters[j].name = F[k].name
  <2>1. \A i, j \in DOMAIN b.limiters : i < j =>
           \E m, k \in 1..n : /\ m < k
                              /\ b.limiters[i].name = F[m].name
                              /\ b.limiters[j].name = F[k].name
    BY Zenon DEF Made, MadeLimiters
  <2>2. \A i, j \in DOMAIN b.limiters : i < j =>
           \E m, k \in 1..(n + 1) : /\ m < k
                                    /\ b.limiters[i].name = F[m].name
                                    /\ b.limiters[j].name = F[k].name
    <3> HIDE DEF F
    <3> QED
      BY <1>4, <2>1
  <2>3. d.limiters = b.limiters
    BY <1>3
  <2> QED
    BY <2>2, <2>3
<1>7. MadeLimiters(d, f, secret, n + 1)
  BY <1>1, <1>3, <1>6, Zenon DEF Made, MadeLimiters
<1>8. MadeResponses(d, f, secret, n + 1)
  BY <1>1, <1>3, Zenon DEF Made, MadeResponses
<1>9. Made(d, f, secret, n + 1)
  BY <1>1, <1>3, <1>5, <1>7, <1>8, Zenon DEF Made
<1> QED
  BY <1>9 DEF d

\* A round that adds it; its name is new.
LEMMA MadeAdd ==
  ASSUME NEW f, NEW secret, NEW b, NEW n \in Nat,
         Made(b, f, secret, n), Buildable(f.limiters[n + 1], secret),
         \A m \in 1..n : f.limiters[m].name # f.limiters[n + 1].name
  PROVE  Made(Add(b, f.limiters[n + 1]), f, secret, n + 1)
<1> DEFINE F == f.limiters
           l == F[n + 1]
           a == Add(b, l)
           old == Kept(f, secret, n)
           kept == Kept(f, secret, n + 1)
           R == IF ~Present(l.response) THEN b.responses
                ELSE [x \in DOMAIN b.responses \union {l.name} |->
                         IF x = l.name THEN Override(b, l) ELSE b.responses[x]]
<1>1. kept = old \union {n + 1} /\ old \subseteq 1..n /\ n + 1 \notin old
  BY DEF Kept
<1>2. (1..(n + 1)) \ kept = (1..n) \ old
  BY DEF Kept
<1>3. /\ DOMAIN a = DOMAIN b /\ a.default = b.default
      /\ a.limiters = Append(b.limiters, BuiltLimiter(l))
      /\ a.responses = R
      /\ a.warnings = b.warnings
  BY DEF Add, Made
<1> HIDE DEF a, kept, old, R
<1> DEFINE S == {BuiltLimiter(F[m]) : m \in old}
           T == {BuiltLimiter(F[m]) : m \in kept}
           bs == b.limiters
           as == a.limiters
<1>4. bs \in Seq(S) /\ S \subseteq T /\ BuiltLimiter(l) \in T
  BY <1>1 DEF Made, MadeLimiters, old
<1>5. /\ as \in Seq(T) /\ bs \in Seq(T) /\ Len(bs) \in Nat /\ Len(as) = Len(bs) + 1
      /\ DOMAIN bs = 1..Len(bs) /\ DOMAIN as = 1..(Len(bs) + 1)
      /\ \A i \in 1..Len(bs) : as[i] = bs[i]
      /\ as[Len(bs) + 1] = BuiltLimiter(l)
  <2> HIDE DEF S, T, l, bs
  <2>1. as = Append(bs, BuiltLimiter(l))
    BY <1>3 DEF as, bs
  <2> HIDE DEF as
  <2>2. bs \in Seq(T)
    BY <1>4
  <2> QED
    BY <1>4, <2>1, <2>2
<1>6. \A m \in kept : \E i \in DOMAIN as : as[i] = BuiltLimiter(F[m])
  <2> HIDE DEF as, bs
  <2>1. ASSUME NEW m \in old
        PROVE  \E i \in DOMAIN as : as[i] = BuiltLimiter(F[m])
    <3>1. PICK i \in DOMAIN bs : bs[i] = BuiltLimiter(F[m])
      BY <2>1, Zenon DEF Made, MadeLimiters, old, bs
    <3>2. i \in 1..Len(bs) /\ i \in 1..(Len(bs) + 1)
      BY <1>5
    <3> QED
      BY <1>5, <3>1, <3>2
  <2>2. \E i \in DOMAIN as : as[i] = BuiltLimiter(F[n + 1])
    <3>1. Len(bs) + 1 \in 1..(Len(bs) + 1)
      BY <1>5
    <3> QED
      BY <1>5, <3>1, Zenon
  <2> QED
    BY <1>1, <2>1, <2>2
<1>7. \A i, j \in DOMAIN as : i < j =>
         \E m, k \in 1..(n + 1) : m < k /\ as[i].name = F[m].name /\ as[j].name = F[k].name
  <2> DEFINE N == Len(bs)
  <2>0. /\ N \in Nat /\ DOMAIN bs = 1..N /\ DOMAIN as = 1..(N + 1)
        /\ \A i \in 1..N : as[i] = bs[i]
        /\ as[N + 1] = BuiltLimiter(l)
    BY <1>5
  <2> HIDE DEF as, bs, S, T, N, F, l
  <2>1. SUFFICES ASSUME NEW i \in DOMAIN as, NEW j \in DOMAIN as, i < j
                 PROVE  \E m, k \in 1..(n + 1) :
                           m < k /\ as[i].name = F[m].name /\ as[j].name = F[k].name
    BY Zenon
  <2>2. i \in 1..N /\ j \in 1..(N + 1)
    BY <2>0, <2>1
  <2>3. as[i] = bs[i] /\ i \in DOMAIN bs
    BY <2>0, <2>2
  <2>4. 1..n \subseteq 1..(n + 1) /\ n + 1 \in 1..(n + 1)
    OBVIOUS
  <2>5. CASE j \in 1..N
    <3>1. as[j] = bs[j] /\ j \in DOMAIN bs
      BY <2>0, <2>5
    <3>2. PICK m \in 1..n, k \in 1..n : m < k /\ bs[i].name = F[m].name /\ bs[j].name = F[k].name
      <4>1. \A x, y \in DOMAIN bs : x < y =>
               \E m, k \in 1..n : m < k /\ bs[x].name = F[m].name /\ bs[y].name = F[k].name
        BY DEF Made, MadeLimiters, bs, F
      <4> QED
        BY <2>1, <2>3, <3>1, <4>1, Zenon
    <3> QED
      BY <2>3, <2>4, <3>1, <3>2
  <2>6. CASE j = N + 1
    <3>1. bs[i] \in S
      BY <1>4, <2>0, <2>3
    <3>2. PICK m \in old : bs[i] = BuiltLimiter(F[m])
      BY <3>1 DEF S
    <3>3. as[i].name = F[m].name /\ as[j].name = F[n + 1].name
      BY <2>0, <2>3, <2>6, <3>2, BuiltName DEF l
    <3>4. m \in 1..(n + 1) /\ m < n + 1
      BY <1>1, <3>2
    <3> QED
      BY <2>4, <3>3, <3>4
  <2>7. j \in 1..N \/ j = N + 1
    BY <2>0, <2>2
  <2> QED
    BY <2>5, <2>6, <2>7
<1>8. a.warnings = {F[m].name : m \in (1..(n + 1)) \ kept}
  BY <1>2, <1>3 DEF Made, old
<1>9. DOMAIN a.responses = {F[m].name : m \in {i \in kept : Present(F[i].response)}}
  <2>1. DOMAIN b.responses = {F[m].name : m \in {i \in old : Present(F[i].response)}}
    BY Zenon DEF Made, MadeResponses, old
  <2>2. CASE Present(l.response)
    <3>1. DOMAIN R = DOMAIN b.responses \union {l.name}
      BY <2>2 DEF R
    <3>2. {i \in kept : Present(F[i].response)} = {i \in old : Present(F[i].response)} \union {n + 1}
      BY <1>1, <2>2
    <3> QED
      BY <1>3, <2>1, <3>1, <3>2
  <2>3. CASE ~Present(l.response)
    <3>1. {i \in kept : Present(F[i].response)} = {i \in old : Present(F[i].response)}
      BY <1>1, <2>3
    <3> QED
      BY <1>3, <2>1, <2>3, <3>1 DEF R
  <2> QED
    BY <2>2, <2>3
<1>10. ASSUME NEW m \in kept, Present(F[m].response)
       PROVE  a.responses[F[m].name] = resolveResponse(Value(F[m].response), a.default)
  <2>1. CASE m = n + 1
    <3>1. R[l.name] = Override(b, l)
      BY <1>10, <2>1 DEF R
    <3> QED
      BY <1>3, <2>1, <3>1 DEF Override
  <2>2. CASE m \in old
    <3>1. F[m].name # l.name
      BY <1>1, <2>2
    <3>2. /\ F[m].name \in DOMAIN b.responses
          /\ b.responses[F[m].name] = resolveResponse(Value(F[m].response), b.default)
      BY <1>10, <2>2 DEF Made, MadeResponses, old
    <3>3. R[F[m].name] = b.responses[F[m].name]
      BY <3>1, <3>2 DEF R
    <3> QED
      BY <1>3, <3>2, <3>3
  <2> QED
    BY <1>1, <2>1, <2>2
<1>11. /\ DOMAIN a = {"limiters", "responses", "default", "warnings"}
       /\ a.default = BuiltDefault(f)
  BY <1>3 DEF Made
<1>12. \A m \in kept : Present(F[m].response) =>
          a.responses[F[m].name] = resolveResponse(Value(F[m].response), a.default)
  BY <1>10, Zenon
<1>13. a.limiters \in Seq({BuiltLimiter(F[m]) : m \in kept})
  BY <1>5
<1>14. MadeLimiters(a, f, secret, n + 1)
  BY <1>6, <1>7, <1>13, Zenon DEF MadeLimiters, kept
<1>15. MadeResponses(a, f, secret, n + 1)
  BY <1>9, <1>12, Zenon DEF MadeResponses, kept
<1>16. Made(a, f, secret, n + 1)
  BY <1>8, <1>11, <1>14, <1>15, Zenon DEF Made, kept
<1> QED
  BY <1>16 DEF a

\* A limiter of the file that bears the name of one built was built.
LEMMA Origin ==
  ASSUME NEW f, Validate(f), NEW secret, NEW b, IsFile(f),
         Made(b, f, secret, Len(f.limiters)),
         NEW m \in 1..Len(f.limiters), NEW i \in DOMAIN b.limiters,
         b.limiters[i].name = f.limiters[m].name
  PROVE  m \in Kept(f, secret, Len(f.limiters))
<1> DEFINE F == f.limiters
           kept == Kept(f, secret, Len(F))
           bs == b.limiters
           S == {BuiltLimiter(F[k]) : k \in kept}
<1>1. bs \in Seq(S)
  BY Zenon DEF Made, MadeLimiters
<1>2. bs[i] \in S
  <2> HIDE DEF S
  <2> QED
    BY <1>1
<1>3. PICK k \in kept : bs[i] = BuiltLimiter(F[k])
  BY <1>2
<1>4. F[k].name = F[m].name
  BY <1>3, BuiltName
<1>5. k \in DOMAIN F /\ m \in DOMAIN F
  BY DEF IsFile, Kept
<1>6. k = m
  BY <1>4, <1>5, ZenonT(30) DEF Validate
<1> QED
  BY <1>6

\* Its response is the one resolved for it, or the default.
LEMMA Answer ==
  ASSUME NEW f, Validate(f), NEW secret, NEW b, IsFile(f),
         Made(b, f, secret, Len(f.limiters)),
         NEW m \in Kept(f, secret, Len(f.limiters))
  PROVE  LET l == f.limiters[m]
         IN  IF Present(l.response)
             THEN /\ l.name \in DOMAIN b.responses
                  /\ b.responses[l.name] = resolveResponse(Value(l.response), BuiltDefault(f))
             ELSE l.name \notin DOMAIN b.responses
<1> DEFINE F == f.limiters
           kept == Kept(f, secret, Len(F))
<1>1. /\ DOMAIN b.responses = {F[k].name : k \in {i \in kept : Present(F[i].response)}}
      /\ \A k \in kept : Present(F[k].response) =>
            b.responses[F[k].name] = resolveResponse(Value(F[k].response), b.default)
      /\ b.default = BuiltDefault(f)
  BY Zenon DEF Made, MadeResponses
<1>2. CASE Present(F[m].response)
  BY <1>1, <1>2
<1>3. CASE ~Present(F[m].response)
  <2>1. SUFFICES ASSUME F[m].name \in DOMAIN b.responses
                 PROVE  FALSE
    BY <1>3, Zenon
  <2>2. PICK k \in kept : F[k].name = F[m].name /\ Present(F[k].response)
    BY <1>1, <2>1
  <2>3. k \in DOMAIN F /\ m \in DOMAIN F
    BY DEF IsFile, Kept
  <2>4. k = m
    BY <2>2, <2>3, Zenon DEF Validate
  <2> QED
    BY <1>3, <2>2, <2>4
<1> QED
  BY <1>2, <1>3

\* One step of inheritance.
Inherits(a, r, base) ==
  /\ a.status \in 400..599
  /\ a.status = IF r.status # 0 THEN r.status ELSE base.status
  /\ a.contentType = IF r.contentType # Blank THEN r.contentType ELSE base.contentType

\* resolveResponse takes each field from the override or from its base.
LEMMA Inherit ==
  ASSUME NEW r \in Responses, validResponse(r), NEW base, base.status \in 400..599
  PROVE  Inherits(resolveResponse(r, base), r, base)
<1>1. resolveResponse(r, base).status = IF r.status # 0 THEN r.status ELSE base.status
  BY DEF resolveResponse
<1>2. resolveResponse(r, base).contentType =
        IF r.contentType # Blank THEN r.contentType ELSE base.contentType
  BY DEF resolveResponse
<1>3. r.status = 0 \/ r.status \in 400..599
  BY DEF validResponse
<1> QED
  BY <1>1, <1>2, <1>3 DEF Inherits

\* The response shared by the file, and what httpapi.New makes of it.
LEMMA Shared ==
  ASSUME NEW f, IsFile(f), Validate(f)
  PROVE  LET a == BuiltDefault(f)
             s == IF Present(f.response) THEN Value(f.response).status ELSE 0
             t == IF Present(f.response) THEN Value(f.response).contentType ELSE Blank
         IN  /\ a.status \in 400..599
             /\ a.status = IF s # 0 THEN s ELSE 429
             /\ a.contentType = IF t # Blank THEN t ELSE "json"
             /\ NewResponse(a).status = a.status
             /\ NewResponse(a).contentType = a.contentType
<1> DEFINE a == BuiltDefault(f)
           s == IF Present(f.response) THEN Value(f.response).status ELSE 0
           t == IF Present(f.response) THEN Value(f.response).contentType ELSE Blank
<1>1. DefaultResponse.status = 429 /\ DefaultResponse.contentType = "json"
  BY DEF DefaultResponse
<1>2. /\ a.status \in 400..599
      /\ a.status = IF s # 0 THEN s ELSE 429
      /\ a.contentType = IF t # Blank THEN t ELSE "json"
  <2>1. CASE Present(f.response)
    <3>1. Value(f.response) \in Responses /\ validResponse(Value(f.response))
      <4> DEFINE q == f.response
      <4>1. q \in Seq(Responses) /\ q # <<>>
        BY <2>1 DEF IsFile, Present
      <4> HIDE DEF q
      <4>2. q[1] \in Responses
        BY <4>1
      <4> QED
        BY <2>1, <4>2 DEF Value, Validate, q
    <3>2. a = resolveResponse(Value(f.response), DefaultResponse)
      BY <2>1 DEF BuiltDefault
    <3> QED
      BY <1>1, <2>1, <3>1, <3>2, Inherit DEF Inherits
  <2>2. CASE ~Present(f.response)
    BY <1>1, <2>2 DEF BuiltDefault
  <2> QED
    BY <2>1, <2>2
<1> HIDE DEF a, s, t
<1>3. a.contentType # Blank
  <2>1. "json" # Blank
    BY Zenon DEF Blank
  <2> QED
    BY <1>2, <2>1
<1>4. NewResponse(a).status = a.status
  BY <1>2 DEF NewResponse
<1>5. NewResponse(a).contentType = a.contentType
  BY <1>3 DEF NewResponse
<1> QED
  BY <1>2, <1>4, <1>5 DEF a, s, t

\* A valid limiter has one algorithm, with usable numbers.
LEMMA OneAlgorithm ==
  ASSUME NEW l, validAlgorithm(l)
  PROVE  BuiltLimiter(l).rule # BuiltLimiter(l).bucket
<1>1. /\ BuiltLimiter(l).rule = (Present(l.window) /\ \A x \in {"limit", "window", "block"} : Value(l.window)[x] > 0)
      /\ BuiltLimiter(l).bucket = (~Present(l.window) /\ \A x \in {"rate", "burst"} : Value(l.bucket)[x] > 0)
  BY DEF BuiltLimiter
<1>2. Present(l.window) \in BOOLEAN /\ Present(l.bucket) \in BOOLEAN
  BY DEF Present
<1>3. CASE Present(l.window)
  <2>1. \A x \in {"limit", "window", "block"} : Value(l.window)[x] > 0
    BY <1>3 DEF validAlgorithm, InBounds
  <2> QED
    BY <1>1, <1>3, <2>1, Zenon
<1>4. CASE ~Present(l.window)
  <2>1. Present(l.bucket)
    BY <1>2, <1>4, Zenon DEF validAlgorithm
  <2>2. \A x \in {"rate", "burst"} : Value(l.bucket)[x] > 0
    BY <2>1 DEF validAlgorithm, InBounds
  <2> QED
    BY <1>1, <1>4, <2>2, Zenon
<1> QED
  BY <1>3, <1>4

\* What Build returns.
LEMMA Closed ==
  ASSUME NEW b, DOMAIN b = {"limiters", "responses", "default", "warnings"}
  PROVE  /\ Close(b).limiters = b.limiters
         /\ Close(b).responses = b.responses
         /\ Close(b).default = b.default
         /\ Close(b).warnings = IF b.limiters = <<>> THEN b.warnings \union {"no limiters"} ELSE b.warnings
BY DEF Close
=============================================================================
