---------------------------- MODULE ChargeProofs ----------------------------
(***************************************************************************)
(* What a request is charged to: scope is what the segments of the path    *)
(* say, a hashed value never shows in a bucket, and a composite key keeps  *)
(* its parts apart.  The lemmas on paths and keys are carried to every     *)
(* state of the process by the inductive invariant of ProcessProofs.       *)
(***************************************************************************)
EXTENDS PathProofs, KeyProofs, ProcessProofs

\* No value of a part holds the separator of the composite key k.
Apart(k, parts) == \A j \in DOMAIN k.composite : \A v \in parts[j] : ~Contains(v, Separator(k))

----------------------------------------------------------------------------
(***************************************************************************)
(* What holds of the limiters that were built and the request that was     *)
(* asked.                                                                  *)
(***************************************************************************)
\* The request asked is well-formed, and the process has built its limiters.
LEMMA Asking ==
  ASSUME IInv, Charging, asked # <<>>
  PROVE  Ready /\ IsRequest(asked[1]) /\ \A r \in Requests[trial.requests] : IsRequest(r)
<1>1. Ready
  BY DEF IInv, Serving, Ready
<1>2. trial \in Trials /\ asked[1] \in Requests[trial.requests]
  BY DEF IInv, Settled, Charging
<1> QED
  BY <1>1, <1>2, RequestsAssumption, Zenon

\* The paths of a limiter that was built are those Validate let through.
LEMMA BuiltPaths ==
  ASSUME IInv, Ready, NEW i \in DOMAIN built.limiters
  PROVE  \A j \in DOMAIN built.limiters[i].paths :
            built.limiters[i].paths[j] \in Texts /\ validPath(built.limiters[i].paths[j])
<1>1. PICK l \in LimiterSpecs : validLimiter(l) /\ built.limiters[i].paths = l.paths
  BY BuiltFrom, Zenon
<1>2. l.paths \in Seq(Texts)
  BY DEF LimiterSpecs, Texts
<1>3. \A j \in DOMAIN l.paths : l.paths[j] \in Texts
  <2> DEFINE q == l.paths
  <2>1. q \in Seq(Texts)
    BY <1>2
  <2> HIDE DEF q
  <2>2. \A j \in DOMAIN q : q[j] \in Texts
    BY <2>1
  <2> QED
    BY <2>2 DEF q
<1>4. \A j \in DOMAIN l.paths : validPath(l.paths[j])
  BY <1>1, Zenon DEF validLimiter
<1> QED
  BY <1>1, <1>3, <1>4, Zenon

\* Limiter.Applies, which trims, folds and compares strings, says of every request
\* and every limiter that was built what the comparison segment by segment says.
THEOREM ScopeIsReference == StartSpec => []ScopeMatchesReference
<1>1. IInv /\ Charging => ScopeMatchesReference
  <2> SUFFICES ASSUME IInv, Charging, asked # <<>>, NEW l \in ToSet(built.limiters)
               PROVE  Applies(l, asked[1]) <=> InScope(l, asked[1])
    BY Zenon DEF ScopeMatchesReference
  <2> DEFINE r == asked[1]
             path == originalPath(r)
  <2>1. Ready /\ IsRequest(r)
    BY Asking, Zenon
  <2>2. PICK i \in DOMAIN built.limiters : l = built.limiters[i]
    BY DEF ToSet
  <2>3. path \in Texts
    BY <2>1, PathText
  <2>4. \A j \in DOMAIN l.paths : l.paths[j] \in Texts /\ validPath(l.paths[j])
    BY <2>1, <2>2, BuiltPaths, Zenon
  <2> HIDE DEF path
  <2>5. \A j \in DOMAIN l.paths :
           MatchesOne(Lower(normalisePath(path)), l.paths[j]) <=> SegmentsCover(l.paths[j], Segments(path))
    BY <2>3, <2>4, PathsAgree, Zenon
  <2>6. matchesPath(l, path) <=> l.paths = <<>> \/ \E p \in ToSet(l.paths) : SegmentsCover(p, Segments(path))
    BY <2>5 DEF matchesPath, ToSet
  <2> DEFINE method == originalMethod(r)
  <2>7. Applies(l, r) <=> matchesPath(l, path) /\ matchesMethod(l, method)
    BY Zenon DEF Applies, path
  <2>8. InScope(l, r) <=>
           /\ l.paths = <<>> \/ \E p \in ToSet(l.paths) : SegmentsCover(p, Segments(path))
           /\ l.methods = <<>> \/ \E m \in ToSet(l.methods) : m.verb = method.verb
    BY Zenon DEF InScope, SegmentsCover, path
  <2> HIDE DEF method, r
  <2>9. matchesMethod(l, method) <=> l.methods = <<>> \/ \E m \in ToSet(l.methods) : m.verb = method.verb
    BY DEF matchesMethod, ToSet
  <2>10. Applies(l, r) <=> InScope(l, r)
    BY <2>6, <2>7, <2>8, <2>9, Zenon
  <2> QED
    BY <2>10 DEF r
<1> QED
  BY <1>1, StartInvariance, ChargeInvariance, PTL

\* Where the digest of a text is no character of the alphabet, a bucket whose
\* sources are all under hash is made of digests and separators, for every nesting
\* of keys, every normaliser and every request.
THEOREM HashedIsHidden ==
  ASSUME DigestsShow
  PROVE  StartSpec => []HashedStaysHidden
<1>1. IInv /\ Charging => HashedStaysHidden
  <2> SUFFICES ASSUME IInv, Charging, asked # <<>>, NEW i \in DOMAIN charged,
                      Covered(built.limiters[i].key), NEW c \in ToSet(charged[i])
               PROVE  Hidden(built.limiters[i].key, c)
    BY Zenon DEF HashedStaysHidden, Hidden
  <2> DEFINE r == asked[1]
             l == built.limiters[i]
             k == l.key
             secret == conf["HASH_SECRET"]
  <2>1. Ready /\ IsRequest(r)
    BY Asking, Zenon
  <2>2. i \in DOMAIN built.limiters /\ charged[i] \in Buckets(l, r)
    BY Zenon DEF Charging
  <2>3. k \in KeySpecs /\ validKey(k)
    BY <2>1, <2>2, BuiltKey, Zenon
  <2>4. charged[i] = <<>> \/ charged[i] \in Key(k, secret, r)
    <3> HIDE DEF l, r
    <3> QED
      BY <2>2 DEF Buckets
  <2>5. Covered(k)
    OBVIOUS
  <2>6. ToSet(<<>>) = {}
    BY DEF ToSet
  <2> HIDE DEF k, secret, r
  <2>7. charged[i] \in Key(k, secret, r) => Hides(k, charged[i])
    BY <2>1, <2>3, <2>5, KeyHides, Zenon
  <2>8. Hidden(k, c)
    BY <2>4, <2>6, <2>7, Zenon DEF Hides
  <2> QED
    BY <2>8 DEF k
<1> QED
  BY <1>1, StartInvariance, ChargeInvariance, PTL

\* Where, moreover, texts that differ have digests that differ, two requests whose
\* parts are free of the separator share a composite bucket only if they may agree
\* on every part.
THEOREM CompositeIsInjective ==
  ASSUME DigestsShow, DigestsDiffer
  PROVE  StartSpec => []CompositeSeparates
<1>1. IInv /\ Charging => CompositeSeparates
  <2> SUFFICES ASSUME IInv, Charging, asked # <<>>, NEW i \in DOMAIN charged,
                      NEW q \in Requests[trial.requests]
               PROVE  LET k == built.limiters[i].key
                          V(x) == PartValues(k, conf["HASH_SECRET"], x)
                      IN  (/\ k.composite # <<>> /\ k.normalise = Blank /\ charged[i] # <<>>
                           /\ charged[i] \in Buckets(built.limiters[i], q)
                           /\ Apart(k, V(q)) /\ Apart(k, V(asked[1])))
                          => \A j \in DOMAIN k.composite : V(q)[j] \intersect V(asked[1])[j] # {}
    BY Zenon DEF CompositeSeparates, PartValues, Apart
  <2> DEFINE r == asked[1]
             l == built.limiters[i]
             k == l.key
             secret == conf["HASH_SECRET"]
  <2>1. Ready /\ IsRequest(r) /\ IsRequest(q)
    BY Asking, Zenon
  <2>2. i \in DOMAIN built.limiters /\ charged[i] \in Buckets(l, r)
    BY Zenon DEF Charging
  <2>3. k \in KeySpecs /\ validKey(k)
    BY <2>1, <2>2, BuiltKey, Zenon
  <2>4. \A x : charged[i] \in Buckets(l, x) => charged[i] = <<>> \/ charged[i] \in Key(k, secret, x)
    <3> HIDE DEF l
    <3> QED
      BY DEF Buckets
  <2>5. ASSUME k.composite # <<>>, k.normalise = Blank, charged[i] # <<>>, charged[i] \in Buckets(l, q),
               Apart(k, PartValues(k, secret, q)), Apart(k, PartValues(k, secret, r))
        PROVE  \A j \in DOMAIN k.composite :
                  PartValues(k, secret, q)[j] \intersect PartValues(k, secret, r)[j] # {}
    <3>1. charged[i] \in Key(k, secret, q) /\ charged[i] \in Key(k, secret, r)
      BY <2>2, <2>4, <2>5, Zenon
    <3>2. Separable(k, PartValues(k, secret, q)) /\ Separable(k, PartValues(k, secret, r))
      BY <2>5 DEF Apart, Separable, PartValues
    <3> HIDE DEF k, secret, r
    <3> QED
      BY <2>1, <2>3, <2>5, <3>1, <3>2, KeySeparates
  <2> QED
    BY <2>5, Zenon
<1> QED
  BY <1>1, StartInvariance, ChargeInvariance, PTL
=============================================================================
