----------------------------- MODULE MCStartup -----------------------------
(***************************************************************************)
(* The starts examined: environments that differ from a plain or a TLS one *)
(* in a switch and one more setting, with a plain file; files that differ  *)
(* from a plain one in one respect or hold two limiters, with and without  *)
(* a secret; and files that are about scope or about keys, with requests.  *)
(***************************************************************************)
EXTENDS Startup, TLC

MCChars == STRING
MCHMAC(s) == ToString(s)

\* Environments
PlainEnv == [s \in Settings |-> IF s \in Numbers THEN NotSet ELSE Blank]
SecretEnv == [PlainEnv EXCEPT !["HASH_SECRET"] = "secret"]
TLSEnv == [s \in Settings |-> IF s = "REDIS_TLS_ENABLED" THEN "true"
                              ELSE IF s \in TLSFiles THEN "good" ELSE PlainEnv[s]]

Values(s) ==
    CASE s \in Numbers      -> {NotSet, Junk, -1, 0, 1, 2}
      [] s \in Booleans     -> {Blank, "true", "false", "junk"}
      [] s \in TLSFiles     -> {Blank, "good", "bad", "missing"}
      [] s = "REDIS_MODE"   -> {Blank, "cluster", "junk"}
      [] s = "REDIS_ADDRS"  -> {Blank, "addr", ","}
      [] s = "HASH_SECRET"  -> {Blank, "secret"}
      [] OTHER              -> {Blank, "junk"}

Switches == {"REDIS_ENABLED", "BLOCK_CACHE_ENABLED", "STORE_BREAKER_THRESHOLD", "REDIS_TLS_ENABLED"}
            \union TLSFiles
Near(e, ss) == UNION {{[e EXCEPT ![s] = v] : v \in Values(s)} : s \in ss}
MCEnvs ==
    UNION {Near(e, Settings) : e \in Near(PlainEnv, Switches)}
    \union UNION {Near(e, Switches) : e \in Near(TLSEnv, Switches)}

\* Keys
NoKey == [body |-> <<>>, header |-> <<>>, query |-> <<>>, first |-> <<>>, composite |-> <<>>,
          separator |-> Blank, normalise |-> Blank, hash |-> FALSE]
OnHeader == [NoKey EXCEPT !.header = <<"a", "b">>]
OnQuery  == [NoKey EXCEPT !.query = <<"id">>]
OnBody   == [NoKey EXCEPT !.body = <<"a", "b">>]
Hashed(k) == [k EXCEPT !.hash = TRUE]
With(k, n) == [k EXCEPT !.normalise = n]
Leaves == {OnHeader, OnQuery, OnBody, Hashed(OnQuery), With(OnHeader, "digits"), With(OnHeader, "ipsubnet")}
Composed ==
    {[NoKey EXCEPT !.first = <<x, y>>] : x, y \in Leaves}
    \union {[NoKey EXCEPT !.composite = <<x, y>>] : x \in {OnHeader, OnBody}, y \in {OnHeader, OnQuery, Hashed(OnQuery)}}
MCKeys ==
    Leaves \union {With(OnQuery, "lower"), With(OnBody, "trim")} \union Composed
    \union {Hashed(k) : k \in Composed}
    \union {With([NoKey EXCEPT !.first = <<x, y>>], "digits") : x, y \in {OnHeader, OnQuery, OnBody}}
    \union {[NoKey EXCEPT !.composite = <<OnHeader, OnQuery>>, !.separator = "/"],
            [NoKey EXCEPT !.composite = <<OnHeader, OnQuery, OnBody>>],
            [NoKey EXCEPT !.first = <<[NoKey EXCEPT !.composite = <<OnHeader, OnQuery>>], Hashed(OnBody)>>]}
BadKeys ==
    {NoKey, [OnHeader EXCEPT !.query = <<"id">>], With(OnBody, "ipsubnet/99"), [OnBody EXCEPT !.separator = "/"],
     [NoKey EXCEPT !.composite = <<OnBody>>], [NoKey EXCEPT !.first = <<NoKey, OnBody>>],
     [NoKey EXCEPT !.composite = <<OnBody, With(OnBody, "upper")>>]}

AllKeys == LET ks == MCKeys \union BadKeys IN ks \union UNION {Parts(k) : k \in ks}
Leaf(k) == Parts(k) = {}
MCKeyLevels ==
    <<{k \in AllKeys : Leaf(k)},
      {k \in AllKeys : ~Leaf(k) /\ \A p \in Parts(k) : Leaf(p)},
      {k \in AllKeys : \E p \in Parts(k) : ~Leaf(p)}>>

\* Files
Post == [verb |-> "POST", case |-> "upper"]
post == [verb |-> "POST", case |-> "lower"]
GetM == [verb |-> "GET", case |-> "upper"]
NoMethod == [verb |-> Blank, case |-> "upper"]

Window == <<[limit |-> 1, window |-> 1, block |-> 1]>>
Bucket == <<[rate |-> 1, burst |-> 1]>>
PlainLimiter == [name |-> "login", window |-> Window, bucket |-> <<>>, key |-> <<OnHeader>>, paths |-> <<>>,
                 methods |-> <<>>, dryRun |-> FALSE, retryAfter |-> FALSE, response |-> <<>>]
MCResponses ==
    {[status |-> s, contentType |-> c, body |-> b, bodyFile |-> f] :
        s \in {0, 200, 403}, c \in {Blank, "html"}, b \in {Blank, "text"}, f \in {Blank, "page", "empty", "dir", "missing"}}
MCLimiters ==
    {PlainLimiter}
    \union {[PlainLimiter EXCEPT !.name = n] : n \in {Blank, "Login", "orders"}}
    \union {[PlainLimiter EXCEPT !.window = w, !.bucket = b] : w \in {<<>>, Window}, b \in {<<>>, Bucket}}
    \union {[PlainLimiter EXCEPT !.window[1][f] = n] : f \in {"limit", "window", "block"}, n \in {0, 2}}
    \union {[PlainLimiter EXCEPT !.window = <<>>, !.bucket = <<[rate |-> n, burst |-> m]>>] : n, m \in 0..2}
    \union {[PlainLimiter EXCEPT !.key = k] : k \in {<<>>} \union {<<x>> : x \in MCKeys \union BadKeys}}
    \union {[PlainLimiter EXCEPT !.methods = m] : m \in {<<Post>>, <<Post, GetM>>, <<Post, post>>, <<NoMethod>>}}
    \union {[PlainLimiter EXCEPT !.response = <<r>>] : r \in MCResponses}
File(ls, r) == [decodes |-> TRUE, limiters |-> ls, response |-> r]
Orders == [PlainLimiter EXCEPT !.name = "orders", !.key = <<Hashed(OnQuery)>>, !.window = <<>>, !.bucket = Bucket]
MCFiles ==
    {File(<<>>, <<>>), [File(<<PlainLimiter>>, <<>>) EXCEPT !.decodes = FALSE]}
    \union {File(<<l>>, <<>>) : l \in MCLimiters}
    \union {File(<<l, Orders>>, <<>>) : l \in MCLimiters}
    \union {File(<<Orders, [PlainLimiter EXCEPT !.response = <<s>>]>>, <<r>>) :
               r, s \in {x \in MCResponses : x.status # 200 /\ x.bodyFile \in {Blank, "page", "empty"}}}

\* Requests
TextsOf(cs, lo, hi) == UNION {[1..n -> cs] : n \in lo..hi}
Nothing == <<>>
AnyRequest == [uri |-> <<"/", "a">>, uriQuery |-> Nothing, url |-> <<"/">>, urlQuery |-> Nothing,
               forwarded |-> Post, method |-> GetM, header |-> Nothing, body |-> Nothing]
ShortPaths == {<<"/">> \o t : t \in TextsOf({"/", "a", "A"}, 0, 3)}
Patterns == {p \in {<<"/">> \o t : t \in TextsOf({"/", "a", "A", "*"}, 0, 4)} : validPath(p)}
ScopeRequests ==
    {[AnyRequest EXCEPT !.uri = p] : p \in ShortPaths \union TextsOf({"/", "a", "A"}, 1, 2) \union {<<"?">>}}
    \union {[AnyRequest EXCEPT !.uri = p, !.forwarded = m] :
               p \in {<<>>, <<"/", "a", "?">>}, m \in {NoMethod, post, GetM}}
Partial(names, vs) == UNION {[ns -> vs] : ns \in SUBSET names}
Queries ==
    Partial({"id", "ID"}, {<<"A">>, <<" ", "1", "A">>, <<" ">>})
    \union [{"Id", "ID"} -> {<<"A">>, <<" ", "1", "A">>}]
KeyRequests ==
    {[AnyRequest EXCEPT !.uri = <<"/", "a", "?">>, !.header = h, !.uriQuery = q, !.body = b] :
        h \in Partial({"b"}, {<<"a">>, <<"a", "1", ",", "a">>, <<"a", ":", "1">>, <<"ip1">>, <<",">>}),
        q \in Queries,
        b \in Partial({<<"a", "b">>}, {[kind |-> "string", text |-> <<"a">>], [kind |-> "number", text |-> <<"1">>],
                                       [kind |-> "other", text |-> <<"1">>]})}
MCRequests == [none |-> {}, scope |-> ScopeRequests, keys |-> KeyRequests]

Trial(e, f, v, rs) == [env |-> e, file |-> f, validate |-> v, requests |-> rs]
MCTrials ==
    {Trial(e, File(<<PlainLimiter>>, <<>>), v, "none") : e \in MCEnvs, v \in BOOLEAN}
    \union {Trial(e, f, v, "none") : e \in {PlainEnv, SecretEnv}, f \in MCFiles, v \in BOOLEAN}
    \union {Trial(PlainEnv, File(<<[PlainLimiter EXCEPT !.paths = <<p>>]>>, <<>>), FALSE, "scope") : p \in Patterns}
    \union {Trial(PlainEnv, File(<<[PlainLimiter EXCEPT !.paths = ps, !.methods = <<Post>>]>>, <<>>), FALSE, "scope") :
               ps \in {<<>>, <<<<"/", "A", "/", "*">>, <<"/">>>>}}
    \union {Trial(SecretEnv, File(<<[PlainLimiter EXCEPT !.key = <<k>>]>>, <<>>), FALSE, "keys") : k \in MCKeys}
=============================================================================
