----------------------------- MODULE RequestKey -----------------------------
(***************************************************************************)
(* From a forwarded request to the bucket a limiter charges: what          *)
(* httpapi.go takes from the proxy's headers, the scope of limiter.go, the *)
(* values of request.go and the keyers of keyer/keyer.go.                  *)
(*                                                                         *)
(* Texts are sequences of characters, so that trimming, cutting, folding   *)
(* and joining do what they do in Go.  A request is                        *)
(*   [uri, uriQuery, url, urlQuery, forwarded, method, header, body]       *)
(* where uri is <<>> when the proxy sent none, a query and header are      *)
(* functions from the names present to their (first) value, header names   *)
(* already canonical, and body is a function from the dotted paths of its  *)
(* leaves to [kind, text], empty when it does not parse.                   *)
(***************************************************************************)
EXTENDS LimiterFile, FiniteSets

CONSTANT HMAC(_)  \* the digest of a text under the secret, as one character

Texts == Seq(Chars)

Alphabet == {"a", "b", "1", "A", " ", ",", ":", "/", "*", "?", "ip1", "ip2", "net"}

ASSUME CharsAssumption == Alphabet \union {"id"} \subseteq Chars

\* The name of a parameter is folded as a whole.
Fold(c) ==
    CASE c = "A"            -> "a"
      [] c \in {"Id", "ID"} -> "id"
      [] OTHER              -> c

Lower(s) == [i \in DOMAIN s |-> Fold(s[i])]

TrimSpace(s) ==
    LET solid == {i \in DOMAIN s : s[i] # " "}
    IN  IF solid = {} THEN <<>> ELSE SubSeq(s, Min(solid), Max(solid))

\* The length of the text before the first c.
Before(s, c) == IF Contains(s, c) THEN SelectInSeq(s, LAMBDA x : x = c) - 1 ELSE Len(s)

originalPath(r)  == IF r.uri = <<>> THEN r.url ELSE SubSeq(r.uri, 1, Before(r.uri, "?"))
originalQuery(r) ==
    CASE r.uri = <<>>            -> r.urlQuery
      [] Contains(r.uri, "?")    -> r.uriQuery
      [] OTHER                   -> <<>>
originalMethod(r) == IF r.forwarded.verb # Blank THEN r.forwarded ELSE r.method

(***************************************************************************)
(* Limiter.Applies                                                         *)
(***************************************************************************)
normalisePath(p) == IF Len(p) > 1 THEN TrimSuffix(p, <<"/">>) ELSE p

\* Mutant: the subtree is any path that begins like its base.
InSubtreeBare(path, base) == IsPrefix(base, path)

InSubtree(path, base) == base = <<>> \/ path = base \/ IsPrefix(base \o <<"/">>, path)

MatchesOne(path, p) ==
    LET low == Lower(p)
    IN  IF IsSuffix(<<"/", "*">>, low) THEN InSubtree(path, TrimSuffix(low, <<"/", "*">>))
        ELSE path = normalisePath(low)

matchesPath(l, path) ==
    l.paths = <<>> \/ \E i \in DOMAIN l.paths : MatchesOne(Lower(normalisePath(path)), l.paths[i])

matchesMethod(l, method) ==
    l.methods = <<>> \/ \E i \in DOMAIN l.methods : l.methods[i].verb = method.verb

Applies(l, r) == matchesPath(l, originalPath(r)) /\ matchesMethod(l, originalMethod(r))

(***************************************************************************)
(* The values of a request.  <<>> is "none": the code returns "", false.   *)
(***************************************************************************)
Get(f, name) == IF name \in DOMAIN f THEN TrimSpace(f[name]) ELSE <<>>

\* The first of the names that is among ok, as a set; empty if there is none.
FirstOf(names, ok) ==
    LET at == {i \in DOMAIN names : names[i] \in ok}
    IN  IF at = {} THEN {} ELSE {names[Min(at)]}

Field(r, path) ==
    IF path \in DOMAIN r.body /\ r.body[path].kind \in {"string", "number"}
    THEN r.body[path].text ELSE <<>>

HeaderValue(r, names) ==
    LET V(n)  == LET v == Get(r.header, n) IN TrimSpace(SubSeq(v, 1, Before(v, ",")))
        found == FirstOf(names, {n \in ToSet(names) : V(n) # <<>>})
    IN  IF found = {} THEN <<>> ELSE V(CHOOSE n \in found : TRUE)

Spellings(q, name) == {k \in DOMAIN q : Fold(k) = Fold(name) /\ TrimSpace(q[k]) # <<>>}

\* The folded scan walks a Go map, so any spelling may be met first.
Loosely(q, names) ==
    UNION {{TrimSpace(q[k]) : k \in Spellings(q, n)} :
              n \in FirstOf(names, {n \in ToSet(names) : Spellings(q, n) # {}})}

\* The set of values it may return.
QueryValue(r, names) ==
    LET q     == originalQuery(r)
        exact == FirstOf(names, {n \in ToSet(names) : Get(q, n) # <<>>})
    IN  CASE exact # {} -> {Get(q, n) : n \in exact}
          [] exact = {} /\ Loosely(q, names) # {} -> Loosely(q, names)
          [] OTHER -> {<<>>}

(***************************************************************************)
(* The keyers.  A digest is meant to be a character outside the alphabet,  *)
(* the same for the same text only.                                        *)
(***************************************************************************)
Digest(s)   == <<HMAC(s)>>
IsDigest(c) == c \notin Alphabet
IPSubnet(s) == IF TrimSpace(s) \in {<<"ip1">>, <<"ip2">>} THEN <<"net", "/", "1">> ELSE s

\* An address, a network and a digest stand for their digits too.
IsDigit(c) == c \in {"1", "ip1", "ip2", "net"} \/ IsDigest(c)

Keep(kept, c) == IF IsDigit(c) THEN Append(kept, c) ELSE kept

Digits(s) ==
    LET kept[n \in 0..Len(s)] == IF n = 0 THEN <<>> ELSE Keep(kept[n - 1], s[n])
    IN  kept[Len(s)]

Normalise(k, s) ==
    CASE k.normalise = "digits"   -> Digits(s)
      [] k.normalise = "lower"    -> Lower(s)
      [] k.normalise = "trim"     -> TrimSpace(s)
      [] k.normalise = "ipsubnet" -> IPSubnet(s)
      [] OTHER                    -> s

\* Mutant: the parts of a composed key are hashed, the whole is not.
HashLeaves(k, secret, s) ==
    CASE ~k.hash \/ s = <<>> \/ k.first \o k.composite # <<>> -> s
      [] k.hash /\ secret = Blank -> <<>>
      [] OTHER -> Digest(s)

\* hasher(h).Hash: a missing secret makes the value unavailable, never plain.
Hash(k, secret, s) ==
    CASE ~k.hash \/ s = <<>> -> s
      [] k.hash /\ secret = Blank -> <<>>
      [] OTHER -> Digest(s)

Finish(k, secret, raw) == Hash(k, secret, Normalise(k, raw))

Separator(k) == IF k.separator = Blank THEN ":" ELSE k.separator

\* Mutant: the parts are joined with nothing between them.
JoinBare(k, s, t) == IF s = <<>> \/ t = <<>> THEN <<>> ELSE s \o t

\* A part that has no value leaves the whole without one.
Join(k, s, t) == IF s = <<>> \/ t = <<>> THEN <<>> ELSE s \o <<Separator(k)>> \o t

\* Mutant: the first part that has a value is taken, whatever it normalises to.
SkipsNoValue(k, v) == v = <<>>

Skips(k, v) == Normalise(k, v) = <<>>

\* First.Key and Composite.Key, given the set of values each part may have: the
\* value of the first part that is not skipped, or those of all parts joined.
FirstValues(k, parts) ==
    LET skipped(j) == \E v \in parts[j] : Skips(k, v)
        taken(i)   == {v \in parts[i] :
                          ~Skips(k, v) /\ \A j \in DOMAIN parts : j < i => skipped(j)}
    IN  (UNION {taken(i) : i \in DOMAIN parts})
        \union {v \in {<<>>} : \A j \in DOMAIN parts : skipped(j)}

Joins(k, ss, ts) == {Join(k, s, t) : s \in ss, t \in ts}

JoinedValues(k, parts) ==
    LET joined[n \in 1..Len(parts)] ==
            IF n = 1 THEN parts[1] ELSE Joins(k, joined[n - 1], parts[n])
    IN  joined[Len(parts)]

\* The values of each of the keys, where of maps a key to the values it may have.
Each(keys, of) == [j \in DOMAIN keys |-> of[keys[j]]]

RawValues(k, of, r) ==
    CASE k.body # <<>>   -> {Field(r, k.body)}
      [] k.header # <<>> -> {HeaderValue(r, k.header)}
      [] k.query # <<>>  -> QueryValue(r, k.query)
      [] k.first # <<>>  -> FirstValues(k, Each(k.first, of))
      [] OTHER           -> JoinedValues(k, Each(k.composite, of))

KeyFrom(k, of, secret, r) == {Finish(k, secret, v) : v \in RawValues(k, of, r)}

\* Key: the set of buckets it may return.
Key(key, secret, r) ==
    LET of[k \in KeySpecs] == KeyFrom(k, of, secret, r)
    IN  of[key]
=============================================================================
