----------------------------- MODULE KeyProofs ------------------------------
(***************************************************************************)
(* What a key is made of, for every nesting of keys: a text, free of what  *)
(* is under hash, and one that keeps the parts of a composite apart.  The  *)
(* lemmas follow the key's own recursion.                                  *)
(***************************************************************************)
EXTENDS TextProofs, ConfigProofs

\* Induction over keys: what holds of a key when it holds of its parts holds of all.
LEMMA ByParts ==
  ASSUME NEW S, \A k \in KeySpecs : Parts(k) \subseteq S => k \in S
  PROVE  \A k \in KeySpecs : k \in S
<1> DEFINE T == {n \in Nat : \A k \in Under(n) : k \in S}
<1>1. 0 \in T
  BY Nesting
<1>2. ASSUME NEW n \in Nat, n \in T
      PROVE  n + 1 \in T
  <2>1. ASSUME NEW k \in Under(n + 1)
        PROVE  k \in S
    <3>1. k \in KeySpecs /\ Parts(k) \subseteq Under(n)
      BY Zenon, Nesting DEF Under
    <3>2. Parts(k) \subseteq S
      BY <1>2, <3>1
    <3> QED
      BY <3>1, <3>2
  <2>2. n + 1 \in Nat
    OBVIOUS
  <2> QED
    BY <2>1, <2>2
<1>3. Len(KeyLevels) \in T
  <2> HIDE DEF T
  <2> QED
    BY <1>1, <1>2, ByLevels, KeysAssumption
<1> QED
  BY <1>3, Nesting, Zenon

\* The fields of a specification.
LEMMA KeyFields ==
  ASSUME NEW k \in KeySpecs
  PROVE  /\ k.hash \in BOOLEAN /\ Separator(k) \in Chars
         /\ k.first \in Seq(KeySpecs) /\ k.composite \in Seq(KeySpecs)
<1>1. PICK n \in 1..Len(KeyLevels) : k \in KeyLevels[n]
  BY DEF KeySpecs
<1>2. /\ k.hash \in BOOLEAN /\ k.separator \in Chars \union {Blank}
      /\ k.first \in Seq(KeySpecs) /\ k.composite \in Seq(KeySpecs)
  BY <1>1, KeysAssumption, Zenon
<1>3. ":" \in Chars
  BY Zenon, CharsAssumption DEF Alphabet
<1>4. Separator(k) \in Chars
  <2>1. k.separator = Blank \/ k.separator \in Chars
    BY <1>2, Zenon
  <2> QED
    BY <1>3, <2>1, Zenon DEF Separator
<1> QED
  BY <1>2, <1>4, Zenon

\* Joining yields a text.
LEMMA JoinedText ==
  ASSUME NEW k \in KeySpecs, NEW s \in Texts, NEW t \in Texts
  PROVE  Join(k, s, t) \in Texts
<1>1. <<Separator(k)>> \in Texts
  BY KeyFields, OneChar
<1>2. s \o <<Separator(k)>> \in Texts
  BY <1>1, TextConcat
<1>3. s \o <<Separator(k)>> \o t \in Texts
  BY <1>2, TextConcat
<1> QED
  BY <1>3, EmptyText, Zenon DEF Join

\* f joins the parts, one after the other.
Assembles(f, k, parts) ==
  /\ f[1] = parts[1]
  /\ \A n \in 2..Len(parts) : f[n] = Joins(k, f[n - 1], parts[n])

\* JoinedValues is what such a computation ends with.
LEMMA JoinRun ==
  ASSUME NEW k \in KeySpecs, NEW parts \in Seq(SUBSET Texts), parts # <<>>
  PROVE  \E f \in [1..Len(parts) -> SUBSET Texts] :
            Assembles(f, k, parts) /\ JoinedValues(k, parts) = f[Len(parts)]
<1> DEFINE N == Len(parts)
           V == SUBSET Texts
           Eq(f) == f = [n \in 1..N |-> IF n = 1 THEN parts[1] ELSE Joins(k, f[n - 1], parts[n])]
           joined == CHOOSE f : Eq(f)
           G == [x \in V \X (2..N) |-> Joins(k, x[1], parts[x[2]])]
<1>1. N \in Nat /\ N >= 1 /\ \A n \in 1..N : parts[n] \in V
  OBVIOUS
<1>2. ASSUME NEW x \in V, NEW n \in 2..N
      PROVE  Joins(k, x, parts[n]) \in V
  <2>1. parts[n] \subseteq Texts
    BY <1>1
  <2>2. ASSUME NEW s \in x, NEW t \in parts[n]
        PROVE  Join(k, s, t) \in Texts
    BY <2>1, JoinedText
  <2> QED
    BY <2>2 DEF Joins
<1> HIDE DEF V
<1>3. G \in [V \X (2..N) -> V]
  BY <1>2
<1>4. PICK f \in [1..N -> V] : Runs(f, 1, N, parts[1], G)
  <2>1. parts[1] \in V /\ 1 \in Int /\ N \in Int /\ 1 <= N /\ (1 + 1)..N = 2..N
    BY <1>1
  <2> HIDE DEF G, N
  <2>2. G \in [V \X ((1 + 1)..N) -> V]
    BY <1>3, <2>1
  <2> QED
    BY <2>1, <2>2, Counting, Zenon
<1>5. /\ f[1] = parts[1]
      /\ \A n \in 2..N : f[n] = Joins(k, f[n - 1], parts[n])
  <2>1. f[1] = parts[1]
    BY <1>4 DEF Runs
  <2>2. ASSUME NEW n \in 2..N
        PROVE  f[n] = Joins(k, f[n - 1], parts[n])
    <3>1. n \in (1 + 1)..N /\ n - 1 \in 1..N
      BY <1>1
    <3>2. f[n] = G[<<f[n - 1], n>>] /\ f[n - 1] \in V
      <4> HIDE DEF G
      <4> QED
        BY <1>4, <3>1 DEF Runs
    <3> QED
      BY <3>2
  <2> QED
    BY <2>1, <2>2
<1>6. Eq(f)
  <2>1. \A n \in 1..N : n # 1 => n \in 2..N
    BY <1>1
  <2>2. f = [n \in 1..N |-> f[n]]
    OBVIOUS
  <2>3. \A n \in 1..N : f[n] = IF n = 1 THEN parts[1] ELSE Joins(k, f[n - 1], parts[n])
    BY <1>5, <2>1, Zenon
  <2> QED
    BY <2>2, <2>3, Zenon
<1>7. Eq(joined)
  <2> HIDE DEF Eq
  <2> QED
    BY <1>6, Zenon
<1>8. JoinedValues(k, parts) = joined[N]
  BY Zenon DEF JoinedValues
<1> HIDE DEF joined
<1>9. /\ joined[1] = parts[1]
      /\ \A n \in 2..N : joined[n] = Joins(k, joined[n - 1], parts[n])
  <2>1. \A n \in 1..N : joined[n] = IF n = 1 THEN parts[1] ELSE Joins(k, joined[n - 1], parts[n])
    BY <1>7, Zenon
  <2>2. 1 \in 1..N /\ \A n \in 2..N : n \in 1..N /\ n # 1
    BY <1>1
  <2> HIDE DEF Eq
  <2> QED
    BY <2>1, <2>2, Zenon
<1>10. joined = [n \in 1..N |-> joined[n]]
  BY <1>7
<1> HIDE DEF Eq
<1>11. \A n \in 1..N : joined[n] \in V
  <2> DEFINE S == {n \in 1..N : joined[n] \in V}
  <2>1. 1 \in S
    BY <1>1, <1>9
  <2>2. ASSUME NEW n \in 2..N, n - 1 \in S
        PROVE  n \in S
    <3>1. n \in 1..N
      BY <1>1
    <3> QED
      BY <1>2, <1>9, <2>2, <3>1
  <2>3. (1 + 1)..N = 2..N /\ 1 \in Int /\ N \in Int
    BY <1>1
  <2>4. \A n \in 1..N : n \in S
    <3> HIDE DEF S, N
    <3> QED
      BY Zenon, <2>1, <2>2, <2>3, Along
  <2> QED
    BY <2>4
<1>12. joined \in [1..N -> V]
  <2> HIDE DEF N
  <2> QED
    BY <1>10, <1>11
<1>13. Assembles(joined, k, parts)
  BY <1>9, Zenon DEF Assembles
<1> QED
  BY <1>8, <1>12, <1>13 DEF V

\* The value of a first key is that of one of its parts, or none.
LEMMA FirstIsPart ==
  ASSUME NEW k, NEW parts, NEW v \in FirstValues(k, parts)
  PROVE  v = <<>> \/ \E i \in DOMAIN parts : v \in parts[i]
BY DEF FirstValues

\* A key whose parts yield texts takes a text from its source.
LEMMA RawText ==
  ASSUME NEW k \in KeySpecs, OneOf(k), NEW of, \A p \in Parts(k) : of[p] \subseteq Texts,
         NEW r, IsRequest(r), NEW v \in RawValues(k, of, r)
  PROVE  v \in Texts
<1>1. /\ k.first \in Seq(KeySpecs) /\ k.composite \in Seq(KeySpecs)
      /\ \A i \in DOMAIN k.first : k.first[i] \in Parts(k)
      /\ \A i \in DOMAIN k.composite : k.composite[i] \in Parts(k)
  BY KeyFields DEF Parts, ToSet
<1>2. CASE k.body # <<>>
  BY <1>2, OneSource, FieldText
<1>3. CASE k.header # <<>>
  BY <1>3, OneSource, HeaderText
<1>4. CASE k.query # <<>>
  <2>1. v \in QueryValue(r, k.query)
    BY <1>4, OneSource
  <2> QED
    BY <2>1, QueryText
<1>5. CASE k.first # <<>>
  <2>1. v \in FirstValues(k, Each(k.first, of))
    BY <1>5, OneSource
  <2>2. v = <<>> \/ \E i \in DOMAIN Each(k.first, of) : v \in Each(k.first, of)[i]
    BY <2>1, FirstIsPart
  <2>3. \A i \in DOMAIN Each(k.first, of) : i \in DOMAIN k.first /\ Each(k.first, of)[i] = of[k.first[i]]
    BY DEF Each
  <2> QED
    BY <1>1, <2>2, <2>3, EmptyText
<1>6. CASE k.composite # <<>>
  <2> DEFINE parts == Each(k.composite, of)
  <2>1. v \in JoinedValues(k, parts)
    BY <1>6, OneSource
  <2>2. parts \in Seq(SUBSET Texts) /\ Len(parts) = Len(k.composite)
    <3>1. \A i \in DOMAIN k.composite : of[k.composite[i]] \in SUBSET Texts
      BY <1>1
    <3> QED
      BY <1>1, <3>1, EachOf
  <2>3. parts # <<>>
    <3>1. Len(k.composite) # 0
      BY <1>1, <1>6
    <3> HIDE DEF parts
    <3> QED
      BY <2>2, <3>1
  <2> HIDE DEF parts
  <2>4. PICK f \in [1..Len(parts) -> SUBSET Texts] : JoinedValues(k, parts) = f[Len(parts)]
    BY <2>2, <2>3, JoinRun
  <2>5. Len(parts) \in 1..Len(parts)
    BY <2>2, <2>3
  <2> QED
    BY <2>1, <2>4, <2>5
<1> QED
  BY <1>2, <1>3, <1>4, <1>5, <1>6, OneSource

\* What a valid key yields is a text.
LEMMA KeyText ==
  ASSUME DigestsShow, NEW secret, NEW r, IsRequest(r)
  PROVE  \A k \in KeySpecs : validKey(k) => Key(k, secret, r) \subseteq Texts
<1> DEFINE S == {k \in KeySpecs : validKey(k) => Key(k, secret, r) \subseteq Texts}
           of == [p \in KeySpecs |-> Key(p, secret, r)]
<1>1. ASSUME NEW k \in KeySpecs, Parts(k) \subseteq S, validKey(k)
      PROVE  Key(k, secret, r) \subseteq Texts
  <2>1. OneOf(k) /\ \A p \in Parts(k) : p \in KeySpecs /\ validKey(p)
    BY <1>1, ValidKey, KeyParts
  <2>2. \A p \in Parts(k) : of[p] \subseteq Texts
    BY <1>1, <2>1
  <2>3. Key(k, secret, r) = {Finish(k, secret, v) : v \in RawValues(k, of, r)}
    BY KeyOf, Zenon DEF KeyFrom
  <2> HIDE DEF of
  <2>4. ASSUME NEW v \in RawValues(k, of, r)
        PROVE  Finish(k, secret, v) \in Texts
    <3>1. v \in Texts
      BY <2>1, <2>2, RawText
    <3> QED
      BY <3>1, FinishedText
  <2> QED
    BY <2>3, <2>4
<1>2. \A k \in KeySpecs : Parts(k) \subseteq S => k \in S
  BY <1>1
<1>3. \A k \in KeySpecs : k \in S
  <2> HIDE DEF S
  <2> QED
    BY <1>2, ByParts
<1> QED
  BY <1>3

\* A key is covered when it is hashed, or when it has parts and all are covered.
LEMMA CoveredOf ==
  \A k \in KeySpecs : Covered(k) <=> k.hash \/ (Parts(k) # {} /\ \A p \in Parts(k) : Covered(p))
<1> DEFINE F == [KeySpecs -> BOOLEAN]
           G == [x \in KeySpecs \X F |->
                    x[1].hash \/ (Parts(x[1]) # {} /\ \A p \in Parts(x[1]) : x[2][p])]
           Eq(f) == f = [k \in KeySpecs |-> k.hash \/ (Parts(k) # {} /\ \A p \in Parts(k) : f[p])]
           covered == CHOOSE f : Eq(f)
<1>1. ASSUME NEW k \in KeySpecs, NEW f \in F
      PROVE  G[<<k, f>>] = (k.hash \/ (Parts(k) # {} /\ \A p \in Parts(k) : f[p]))
  OBVIOUS
<1>2. G \in [KeySpecs \X F -> BOOLEAN]
  OBVIOUS
<1>3. ASSUME NEW k \in KeySpecs, NEW f \in F, NEW g \in F, \A p \in Parts(k) : f[p] = g[p]
      PROVE  G[<<k, f>>] = G[<<k, g>>]
  <2>1. (\A p \in Parts(k) : f[p]) <=> (\A p \in Parts(k) : g[p])
    BY <1>3, Zenon
  <2>2. (k.hash \/ (Parts(k) # {} /\ \A p \in Parts(k) : f[p]))
        = (k.hash \/ (Parts(k) # {} /\ \A p \in Parts(k) : g[p]))
    BY <2>1
  <2> QED
    BY <1>1, <2>2, Zenon
<1>4. PICK f \in F : f = [k \in KeySpecs |-> G[<<k, f>>]]
  <2> HIDE DEF G
  <2>1. BOOLEAN # {} /\ LooksAtParts(G, BOOLEAN)
    BY Zenon, <1>3 DEF LooksAtParts
  <2>2. Solvable(G, BOOLEAN)
    BY <1>2, <2>1, Recursion, Zenon
  <2> QED
    BY <2>2, Zenon DEF Solvable
<1>5. Eq(f)
  <2> HIDE DEF G
  <2>1. \A k \in KeySpecs : f[k] = (k.hash \/ (Parts(k) # {} /\ \A p \in Parts(k) : f[p]))
    BY <1>1, <1>4, Zenon
  <2> QED
    BY <1>1, <1>4, Zenon
<1>6. Eq(covered)
  <2> HIDE DEF Eq
  <2> QED
    BY <1>5, Zenon
<1>7. \A k : Covered(k) = covered[k]
  BY Zenon DEF Covered
<1>8. ASSUME NEW k \in KeySpecs
      PROVE  covered[k] = (k.hash \/ (Parts(k) # {} /\ \A p \in Parts(k) : covered[p]))
  <2> HIDE DEF covered
  <2> QED
    BY <1>6, Zenon
<1> HIDE DEF covered
<1> QED
  BY <1>7, <1>8, Zenon

\* A character that gives nothing away, and a value made of such characters that
\* normalising cannot empty of digests.
Hidden(k, c) == IsDigest(c) \/ \E n \in Nodes(k) : c \in {Separator(n), Fold(Separator(n))}
Hides(k, v)  == v = <<>> \/ ((\A c \in ToSet(v) : Hidden(k, c)) /\ \E c \in ToSet(v) : IsDigest(c))

\* What hides in a part hides in the whole.
LEMMA HidesAbove ==
  ASSUME NEW k \in KeySpecs, NEW p \in Parts(k), NEW v, Hides(p, v)
  PROVE  Hides(k, v)
<1>1. Nodes(p) \subseteq Nodes(k)
  BY NodesOf
<1>2. \A c : Hidden(p, c) => Hidden(k, c)
  BY <1>1, Zenon DEF Hidden
<1> QED
  BY <1>2, Zenon DEF Hides

\* No value gives nothing away.
LEMMA NothingHides ==
  \A k : Hides(k, <<>>)
BY DEF Hides

\* A digest hides.
LEMMA DigestHides ==
  ASSUME DigestsShow, NEW k, NEW s \in Texts
  PROVE  Hides(k, Digest(s))
<1> DEFINE d == Digest(s)
<1>1. d \in Texts /\ Len(d) = 1 /\ IsDigest(d[1])
  BY DigestText
<1> HIDE DEF d
<1>2. DOMAIN d = 1..1
  BY <1>1, TextLength
<1>3. ToSet(d) = {d[1]}
  BY <1>2 DEF ToSet
<1>4. Hides(k, d)
  BY <1>1, <1>3, Zenon DEF Hides, Hidden
<1> QED
  BY <1>4 DEF d

\* Folding a hidden character hides it still.
LEMMA FoldHides ==
  ASSUME NEW k, NEW c, Hidden(k, c)
  PROVE  Hidden(k, Fold(c)) /\ (IsDigest(c) => IsDigest(Fold(c)))
<1>1. IsDigest(c) => IsDigest(Fold(c))
  BY Zenon DEF IsDigest, Fold, Alphabet
<1>2. \A b : Fold(Fold(b)) = Fold(b)
  BY DEF Fold
<1> QED
  BY <1>1, <1>2, Zenon DEF Hidden

\* A normaliser lets no hidden value out.
LEMMA NormalisedHides ==
  ASSUME NEW k, NEW s \in Texts, Hides(k, s)
  PROVE  Hides(k, Normalise(k, s))
<1>1. Hides(k, Digits(s))
  <2>1. CASE s = <<>>
    <3>1. ToSet(s) = {}
      BY <2>1 DEF ToSet
    <3>2. Digits(s) \in Texts /\ ToSet(Digits(s)) = {}
      BY <3>1, DigitsText
    <3>3. Digits(s) = <<>>
      <4> DEFINE d == Digits(s)
      <4>1. d \in Texts /\ ToSet(d) = {}
        BY <3>2
      <4> HIDE DEF d
      <4>2. DOMAIN d = 1..Len(d) /\ Len(d) \in Nat
        BY <4>1, TextLength
      <4>3. DOMAIN d = {}
        BY Zenon, <4>1 DEF ToSet
      <4>4. Len(d) = 0
        BY <4>2, <4>3
      <4>5. d = <<>>
        BY <4>1, <4>4 DEF Texts
      <4> QED
        BY <4>5 DEF d
    <3> QED
      BY <3>3, NothingHides
  <2>2. CASE s # <<>>
    <3>1. PICK c \in ToSet(s) : IsDigest(c)
      BY <2>2 DEF Hides
    <3>2. ToSet(Digits(s)) \subseteq ToSet(s) /\ c \in ToSet(Digits(s))
      BY <3>1, DigitsText DEF IsDigit
    <3>3. \A d \in ToSet(s) : Hidden(k, d)
      BY <2>2, Zenon DEF Hides
    <3> QED
      BY <3>1, <3>2, <3>3 DEF Hides
  <2> QED
    BY <2>1, <2>2
<1>2. Hides(k, TrimSpace(s))
  <2>1. CASE s = <<>>
    <3>1. TrimSpace(s) = <<>>
      BY <2>1 DEF TrimSpace
    <3> QED
      BY <3>1, NothingHides
  <2>2. CASE s # <<>>
    <3>1. PICK c \in ToSet(s) : IsDigest(c)
      BY <2>2 DEF Hides
    <3>2. c # " "
      BY Zenon, <3>1 DEF IsDigest, Alphabet
    <3>3. ToSet(TrimSpace(s)) \subseteq ToSet(s) /\ c \in ToSet(TrimSpace(s))
      BY Zenon, <3>1, <3>2, TrimText
    <3>4. \A d \in ToSet(s) : Hidden(k, d)
      BY <2>2, Zenon DEF Hides
    <3> QED
      BY <3>1, <3>3, <3>4 DEF Hides
  <2> QED
    BY <2>1, <2>2
<1>3. Hides(k, Lower(s))
  <2>1. ToSet(s) = {s[i] : i \in DOMAIN s} /\ ToSet(Lower(s)) = {Fold(s[i]) : i \in DOMAIN s}
    BY DEF ToSet, Lower
  <2>2. CASE s = <<>>
    <3>1. Lower(s) = <<>>
      BY <2>2 DEF Lower
    <3> QED
      BY <3>1, NothingHides
  <2>3. CASE s # <<>>
    <3>1. PICK i \in DOMAIN s : IsDigest(s[i])
      BY <2>1, <2>3 DEF Hides
    <3>2. \A j \in DOMAIN s : Hidden(k, s[j])
      BY <2>1, <2>3 DEF Hides
    <3>3. ASSUME NEW d \in ToSet(Lower(s))
          PROVE  Hidden(k, d)
      <4>1. PICK j \in DOMAIN s : d = Fold(s[j])
        BY <2>1
      <4> QED
        BY <3>2, <4>1, FoldHides
    <3>4. Fold(s[i]) \in ToSet(Lower(s)) /\ IsDigest(Fold(s[i]))
      BY <2>1, <3>1, <3>2, FoldHides
    <3> QED
      BY <3>3, <3>4 DEF Hides
  <2> QED
    BY <2>2, <2>3
<1>4. Hides(k, IPSubnet(s))
  <2>1. TrimSpace(s) \notin {<<"ip1">>, <<"ip2">>}
    <3> DEFINE t == TrimSpace(s)
    <3>1. t \in Texts /\ Hides(k, t)
      BY Zenon, <1>2, TrimText
    <3>2. ASSUME NEW a \in {"ip1", "ip2"}, t = <<a>>
          PROVE  FALSE
      <4>1. ToSet(<<a>>) = {a}
        BY DEF ToSet
      <4>2. t # <<>> /\ ToSet(t) = {a}
        BY <3>2, <4>1
      <4> HIDE DEF t
      <4>3. IsDigest(a)
        BY <3>1, <4>2, Zenon DEF Hides
      <4> QED
        BY Zenon, <4>3 DEF IsDigest, Alphabet
    <3> QED
      BY <3>2
  <2> QED
    BY <2>1 DEF IPSubnet
<1> QED
  BY <1>1, <1>2, <1>3, <1>4 DEF Normalise

\* The characters of two texts put together are those of both.
LEMMA ConcatSet ==
  ASSUME NEW s \in Texts, NEW t \in Texts
  PROVE  ToSet(s \o t) = ToSet(s) \union ToSet(t)
<1> DEFINE w == s \o t
<1>1. /\ w \in Texts /\ Len(w) = Len(s) + Len(t)
      /\ \A i \in 1..(Len(s) + Len(t)) : w[i] = IF i <= Len(s) THEN s[i] ELSE t[i - Len(s)]
  BY TextConcat
<1> HIDE DEF w
<1>2. /\ DOMAIN s = 1..Len(s) /\ Len(s) \in Nat
      /\ DOMAIN t = 1..Len(t) /\ Len(t) \in Nat
      /\ DOMAIN w = 1..(Len(s) + Len(t))
  BY <1>1, TextLength
<1>3. ASSUME NEW i \in DOMAIN w
      PROVE  (\E j \in DOMAIN s : w[i] = s[j]) \/ \E j \in DOMAIN t : w[i] = t[j]
  <2>1. CASE i <= Len(s)
    <3>1. i \in DOMAIN s /\ w[i] = s[i]
      BY <1>1, <1>2, <2>1
    <3> QED
      BY <3>1
  <2>2. CASE ~(i <= Len(s))
    <3>1. i - Len(s) \in DOMAIN t /\ w[i] = t[i - Len(s)]
      BY <1>1, <1>2, <2>2
    <3> QED
      BY <3>1
  <2> QED
    BY <2>1, <2>2
<1>4. ASSUME NEW j \in DOMAIN s
      PROVE  \E i \in DOMAIN w : w[i] = s[j]
  <2>1. j \in DOMAIN w /\ w[j] = s[j]
    BY <1>1, <1>2
  <2> QED
    BY <2>1
<1>5. ASSUME NEW j \in DOMAIN t
      PROVE  \E i \in DOMAIN w : w[i] = t[j]
  <2>1. Len(s) + j \in DOMAIN w /\ w[Len(s) + j] = t[j]
    BY <1>1, <1>2
  <2> QED
    BY <2>1
<1>6. ToSet(w) = ToSet(s) \union ToSet(t)
  <2>1. \A c \in ToSet(w) : c \in ToSet(s) \/ c \in ToSet(t)
    BY <1>3 DEF ToSet
  <2>2. \A c \in ToSet(s) : c \in ToSet(w)
    BY <1>4 DEF ToSet
  <2>3. \A c \in ToSet(t) : c \in ToSet(w)
    BY <1>5 DEF ToSet
  <2> QED
    BY <2>1, <2>2, <2>3
<1> QED
  BY <1>6 DEF w

\* Joining hidden values with the separator of the key hides them.
LEMMA JoinedHides ==
  ASSUME NEW k \in KeySpecs, NEW s \in Texts, NEW t \in Texts, Hides(k, s), Hides(k, t)
  PROVE  Hides(k, Join(k, s, t))
<1>1. CASE s = <<>> \/ t = <<>>
  BY <1>1, NothingHides, Zenon DEF Join
<1>2. CASE s # <<>> /\ t # <<>>
  <2> DEFINE c == Separator(k)
             u == s \o <<c>>
             w == u \o t
  <2>1. c \in Chars /\ Hidden(k, c)
    <3>1. k \in Nodes(k)
      BY NodesOf
    <3> QED
      BY <3>1, KeyFields DEF Hidden
  <2>2. Join(k, s, t) = w
    BY <1>2, Zenon DEF Join
  <2> HIDE DEF c
  <2>3. <<c>> \in Texts /\ Len(<<c>>) = 1 /\ <<c>>[1] = c
    BY <2>1, OneChar
  <2>4. u \in Texts /\ ToSet(u) = ToSet(s) \union ToSet(<<c>>)
    BY Zenon, <2>3, TextConcat, ConcatSet
  <2>5. ToSet(<<c>>) = {c}
    BY DEF ToSet
  <2> HIDE DEF u
  <2>6. w \in Texts /\ ToSet(w) = ToSet(u) \union ToSet(t)
    BY Zenon, <2>4, TextConcat, ConcatSet
  <2> HIDE DEF w
  <2>7. ToSet(w) = ToSet(s) \union {c} \union ToSet(t)
    BY <2>4, <2>5, <2>6
  <2>8. /\ \A b \in ToSet(s) : Hidden(k, b)
        /\ \A b \in ToSet(t) : Hidden(k, b)
        /\ \E b \in ToSet(s) : IsDigest(b)
    BY <1>2, Zenon DEF Hides
  <2>9. Hides(k, w)
    BY <2>1, <2>7, <2>8, Zenon DEF Hides
  <2> QED
    BY <2>2, <2>9
<1> QED
  BY <1>1, <1>2

\* What a key takes from hidden parts hides.
LEMMA RawHides ==
  ASSUME NEW k \in KeySpecs, OneOf(k), Parts(k) # {}, NEW of,
         \A p \in Parts(k) : of[p] \subseteq Texts /\ \A v \in of[p] : Hides(k, v),
         NEW r, NEW v \in RawValues(k, of, r)
  PROVE  Hides(k, v)
<1>1. /\ k.first \in Seq(KeySpecs) /\ k.composite \in Seq(KeySpecs)
      /\ \A i \in DOMAIN k.first : k.first[i] \in Parts(k)
      /\ \A i \in DOMAIN k.composite : k.composite[i] \in Parts(k)
  BY KeyFields DEF Parts, ToSet
<1>2. CASE k.first # <<>>
  <2>1. v \in FirstValues(k, Each(k.first, of))
    BY <1>2, OneSource
  <2>2. v = <<>> \/ \E i \in DOMAIN Each(k.first, of) : v \in Each(k.first, of)[i]
    BY <2>1, FirstIsPart
  <2>3. \A i \in DOMAIN Each(k.first, of) : i \in DOMAIN k.first /\ Each(k.first, of)[i] = of[k.first[i]]
    BY DEF Each
  <2> QED
    BY <1>1, <2>2, <2>3, NothingHides
<1>3. CASE k.composite # <<>>
  <2> DEFINE parts == Each(k.composite, of)
             N == Len(parts)
  <2>1. v \in JoinedValues(k, parts)
    BY <1>3, OneSource
  <2>2. /\ parts \in Seq(SUBSET Texts) /\ N = Len(k.composite)
        /\ \A i \in DOMAIN k.composite : parts[i] = of[k.composite[i]]
    <3>1. \A i \in DOMAIN k.composite : of[k.composite[i]] \in SUBSET Texts
      BY <1>1
    <3> QED
      BY Zenon, <1>1, <3>1, EachOf
  <2>3. N \in Nat /\ N >= 1 /\ DOMAIN k.composite = 1..N
    <3>1. Len(k.composite) # 0 /\ Len(k.composite) \in Nat /\ DOMAIN k.composite = 1..Len(k.composite)
      BY <1>1, <1>3
    <3> HIDE DEF parts
    <3> QED
      BY <2>2, <3>1
  <2>4. \A i \in 1..N : parts[i] \subseteq Texts /\ \A s \in parts[i] : Hides(k, s)
    BY <1>1, <2>2, <2>3
  <2> HIDE DEF parts
  <2>5. PICK f \in [1..N -> SUBSET Texts] :
             Assembles(f, k, parts) /\ JoinedValues(k, parts) = f[N]
    BY <2>2, <2>3, JoinRun
  <2> DEFINE T == {n \in 1..N : \A s \in f[n] : Hides(k, s)}
  <2>6. 1 \in T
    BY <2>3, <2>4, <2>5 DEF Assembles
  <2>7. ASSUME NEW n \in (1 + 1)..N, n - 1 \in T
        PROVE  n \in T
    <3>1. n \in 2..N /\ n \in 1..N /\ n - 1 \in 1..N
      BY <2>3
    <3>2. f[n] = Joins(k, f[n - 1], parts[n])
      BY <2>5, <3>1 DEF Assembles
    <3>3. f[n - 1] \subseteq Texts /\ parts[n] \subseteq Texts
      BY <2>4, <2>5, <3>1
    <3>4. ASSUME NEW s \in f[n - 1], NEW t \in parts[n]
          PROVE  Hides(k, Join(k, s, t))
      BY <2>4, <2>7, <3>1, <3>3, JoinedHides
    <3>5. \A s \in Joins(k, f[n - 1], parts[n]) : Hides(k, s)
      BY <3>4 DEF Joins
    <3> QED
      BY <3>1, <3>2, <3>5
  <2>8. N \in T
    <3>1. 1 \in Int /\ N \in Int /\ N \in 1..N
      BY <2>3
    <3> HIDE DEF T, N
    <3> QED
      BY Zenon, <2>6, <2>7, <3>1, Along
  <2> QED
    BY <2>1, <2>5, <2>8
<1>4. CASE k.first = <<>> /\ k.composite = <<>>
  BY <1>4, OneSource
<1> QED
  BY <1>2, <1>3, <1>4

\* What a covered key yields hides.
LEMMA KeyHides ==
  ASSUME DigestsShow, NEW secret, NEW r, IsRequest(r)
  PROVE  \A k \in KeySpecs : validKey(k) /\ Covered(k) => \A v \in Key(k, secret, r) : Hides(k, v)
<1> DEFINE S == {k \in KeySpecs :
                    validKey(k) /\ Covered(k) => \A v \in Key(k, secret, r) : Hides(k, v)}
           of == [p \in KeySpecs |-> Key(p, secret, r)]
<1>1. ASSUME NEW k \in KeySpecs, Parts(k) \subseteq S, validKey(k), Covered(k)
      PROVE  \A v \in Key(k, secret, r) : Hides(k, v)
  <2>1. OneOf(k) /\ \A p \in Parts(k) : p \in KeySpecs /\ validKey(p)
    BY <1>1, ValidKey, KeyParts
  <2>2. \A p \in Parts(k) : of[p] \subseteq Texts /\ of[p] = Key(p, secret, r)
    BY <2>1, KeyText
  <2>3. Key(k, secret, r) = {Finish(k, secret, v) : v \in RawValues(k, of, r)}
    BY KeyOf, Zenon DEF KeyFrom
  <2> HIDE DEF of
  <2>4. ASSUME NEW v \in RawValues(k, of, r)
        PROVE  Hides(k, Finish(k, secret, v))
    <3> DEFINE t == Normalise(k, v)
    <3>1. v \in Texts
      BY <2>1, <2>2, RawText
    <3>2. t \in Texts
      BY <3>1, NormalisedText
    <3>3. Finish(k, secret, v) = Hash(k, secret, t)
      BY Zenon DEF Finish
    <3>4. CASE k.hash
      <4> HIDE DEF t
      <4>1. Hides(k, Digest(t)) /\ Hides(k, <<>>)
        BY <3>2, DigestHides, NothingHides
      <4>2. Hash(k, secret, t) \in {<<>>, Digest(t)}
        BY <3>4 DEF Hash
      <4> QED
        BY <3>3, <4>1, <4>2
    <3>5. CASE ~k.hash
      <4>1. Parts(k) # {} /\ \A p \in Parts(k) : Covered(p)
        BY <1>1, <3>5, CoveredOf
      <4>2. ASSUME NEW p \in Parts(k), NEW u \in of[p]
            PROVE  Hides(k, u)
        <5>1. Hides(p, u)
          BY <1>1, <2>1, <2>2, <4>1, <4>2
        <5> QED
          BY <5>1, HidesAbove
      <4>3. Hides(k, v)
        BY <2>1, <2>2, <4>1, <4>2, RawHides
      <4>4. Hides(k, t)
        BY <3>1, <4>3, NormalisedHides
      <4> HIDE DEF t
      <4>5. Hash(k, secret, t) = t
        BY <3>5 DEF Hash
      <4> QED
        BY <3>3, <4>4, <4>5
    <3> QED
      BY <3>4, <3>5
  <2> QED
    BY <2>3, <2>4
<1>2. \A k \in KeySpecs : Parts(k) \subseteq S => k \in S
  BY <1>1
<1>3. \A k \in KeySpecs : k \in S
  <2> HIDE DEF S
  <2> QED
    BY <1>2, ByParts
<1> QED
  BY <1>3

----------------------------------------------------------------------------
\* No value of a part contains the separator.
Separable(k, parts) == \A j \in DOMAIN parts : \A v \in parts[j] : ~Contains(v, Separator(k))

\* Two lists of parts that join to the same value agree part by part.
LEMMA JoinsOnce ==
  ASSUME NEW k \in KeySpecs, NEW P \in Seq(SUBSET Texts), NEW Q \in Seq(SUBSET Texts),
         P # <<>>, Len(P) = Len(Q), Separable(k, P), Separable(k, Q),
         NEW v, v # <<>>, v \in JoinedValues(k, P), v \in JoinedValues(k, Q)
  PROVE  \A j \in 1..Len(P) : P[j] \intersect Q[j] # {}
<1> DEFINE N == Len(P)
           c == Separator(k)
<1>1. N \in Nat /\ N >= 1 /\ N = Len(Q) /\ DOMAIN P = 1..N /\ DOMAIN Q = 1..N /\ Q # <<>>
  OBVIOUS
<1>2. /\ c \in Chars
      /\ \A j \in 1..N : P[j] \subseteq Texts /\ Q[j] \subseteq Texts
      /\ \A j \in 1..N : \A s \in P[j] : ~Contains(s, c)
      /\ \A j \in 1..N : \A s \in Q[j] : ~Contains(s, c)
  <2>1. c \in Chars
    BY KeyFields
  <2>2. \A j \in 1..N : P[j] \subseteq Texts /\ Q[j] \subseteq Texts
    BY <1>1
  <2> HIDE DEF N
  <2> QED
    BY <1>1, <2>1, <2>2, Zenon DEF Separable
<1>3. PICK f \in [1..N -> SUBSET Texts] : Assembles(f, k, P) /\ JoinedValues(k, P) = f[N]
  BY JoinRun
<1>4. PICK g \in [1..N -> SUBSET Texts] : Assembles(g, k, Q) /\ JoinedValues(k, Q) = g[N]
  BY <1>1, JoinRun
<1> HIDE DEF N
<1> DEFINE Agree(n) == \A s \in f[n] : s \in g[n] /\ s # <<>> => \A j \in 1..n : P[j] \intersect Q[j] # {}
           T == {n \in 1..N : Agree(n)}
<1>5. 1 \in T
  <2>1. f[1] = P[1] /\ g[1] = Q[1] /\ 1 \in 1..N
    BY <1>1, <1>3, <1>4 DEF Assembles
  <2>2. \A j \in 1..1 : j = 1
    OBVIOUS
  <2> QED
    BY <2>1, <2>2
<1>6. ASSUME NEW n \in (1 + 1)..N, n - 1 \in T
      PROVE  n \in T
  <2>1. n \in 2..N /\ n \in 1..N /\ n - 1 \in 1..N /\ \A j \in 1..n : j = n \/ j \in 1..(n - 1)
    BY <1>1
  <2>2. f[n] = Joins(k, f[n - 1], P[n]) /\ g[n] = Joins(k, g[n - 1], Q[n])
    BY <1>1, <1>3, <1>4, <2>1 DEF Assembles, N
  <2>3. f[n - 1] \subseteq Texts /\ g[n - 1] \subseteq Texts
    BY <2>1
  <2>4. ASSUME NEW u \in f[n], u \in g[n], u # <<>>
        PROVE  \A j \in 1..n : P[j] \intersect Q[j] # {}
    <3>1. PICK s \in f[n - 1], t \in P[n] : u = Join(k, s, t)
      BY <2>2 DEF Joins
    <3>2. PICK a \in g[n - 1], b \in Q[n] : u = Join(k, a, b)
      BY <2>2, <2>4 DEF Joins
    <3>3. s # <<>> /\ u = s \o <<c>> \o t
      BY <2>4, <3>1, Zenon DEF Join
    <3>4. u = a \o <<c>> \o b
      BY <2>4, <3>2, Zenon DEF Join
    <3>5. s \in Texts /\ t \in Texts /\ a \in Texts /\ b \in Texts /\ ~Contains(t, c) /\ ~Contains(b, c)
      BY <1>2, <2>1, <2>3, <3>1, <3>2
    <3> HIDE DEF c
    <3>6. s = a /\ t = b
      <4>1. Around(c, s, t) = Around(c, a, b) /\ c \in Chars
        BY <1>2, <3>3, <3>4, Zenon DEF Around
      <4> QED
        BY <3>5, <4>1, SplitsOnce
    <3>7. \A j \in 1..(n - 1) : P[j] \intersect Q[j] # {}
      BY Zenon, <1>6, <3>1, <3>2, <3>3, <3>6
    <3>8. P[n] \intersect Q[n] # {}
      BY <3>1, <3>2, <3>6
    <3> QED
      BY Zenon, <2>1, <3>7, <3>8
  <2> QED
    BY Zenon, <2>1, <2>4
<1>7. N \in T
  <2>1. 1 \in Int /\ N \in Int /\ N \in 1..N
    BY <1>1
  <2> HIDE DEF T
  <2> QED
    BY Zenon, <1>5, <1>6, <2>1, Along
<1> QED
  BY <1>3, <1>4, <1>7 DEF N

\* The values of the parts of a composite key.
PartValues(k, secret, r) == [j \in DOMAIN k.composite |-> Key(k.composite[j], secret, r)]

\* A composite key that is not normalised yields the same value for two requests
\* only if their parts agree.
LEMMA KeySeparates ==
  ASSUME DigestsShow, DigestsDiffer, NEW k \in KeySpecs, validKey(k), k.composite # <<>>,
         k.normalise = Blank, NEW secret, NEW r, IsRequest(r), NEW q, IsRequest(q),
         Separable(k, PartValues(k, secret, r)), Separable(k, PartValues(k, secret, q)),
         NEW v, v # <<>>, v \in Key(k, secret, r), v \in Key(k, secret, q)
  PROVE  \A j \in DOMAIN k.composite :
            PartValues(k, secret, r)[j] \intersect PartValues(k, secret, q)[j] # {}
<1>1. k.composite \in Seq(KeySpecs) /\ \A i \in DOMAIN k.composite : k.composite[i] \in Parts(k)
  BY KeyFields DEF Parts, ToSet
<1>2. OneOf(k) /\ \A p \in Parts(k) : p \in KeySpecs /\ validKey(p)
  BY ValidKey, KeyParts
<1>3. ASSUME NEW x, IsRequest(x), v \in Key(k, secret, x)
      PROVE  /\ PartValues(k, secret, x) \in Seq(SUBSET Texts)
             /\ Len(PartValues(k, secret, x)) = Len(k.composite)
             /\ \E raw \in JoinedValues(k, PartValues(k, secret, x)) :
                   raw \in Texts /\ raw # <<>> /\ v = Hash(k, secret, raw)
  <2> DEFINE of == [p \in KeySpecs |-> Key(p, secret, x)]
             V == PartValues(k, secret, x)
  <2>1. \A p \in Parts(k) : of[p] \subseteq Texts /\ of[p] = Key(p, secret, x)
    BY <1>2, <1>3, KeyText
  <2>2. Key(k, secret, x) = {Finish(k, secret, u) : u \in RawValues(k, of, x)}
    BY KeyOf, Zenon DEF KeyFrom
  <2> HIDE DEF of
  <2>3. V = Each(k.composite, of)
    BY <1>1, <2>1 DEF PartValues, Each
  <2>4. V \in Seq(SUBSET Texts) /\ Len(V) = Len(k.composite)
    <3>1. \A i \in DOMAIN k.composite : of[k.composite[i]] \in SUBSET Texts
      BY <1>1, <2>1
    <3> HIDE DEF V
    <3> QED
      BY Zenon, <1>1, <2>3, <3>1, EachOf
  <2>5. RawValues(k, of, x) = JoinedValues(k, V)
    <3> HIDE DEF V
    <3> QED
      BY <1>2, <2>3, OneSource
  <2>6. PICK raw \in RawValues(k, of, x) : v = Finish(k, secret, raw)
    BY <1>3, <2>2
  <2>7. raw \in Texts
    BY <1>2, <1>3, <2>1, RawText
  <2>8. v = Hash(k, secret, raw)
    <3>1. Blank # "digits" /\ Blank # "lower" /\ Blank # "trim" /\ Blank # "ipsubnet"
      BY Zenon DEF Blank
    <3>2. Normalise(k, raw) = raw
      BY <3>1 DEF Normalise
    <3> QED
      BY <2>6, <3>2 DEF Finish
  <2>9. raw # <<>>
    BY <2>8 DEF Hash
  <2> QED
    BY <2>4, <2>5, <2>6, <2>7, <2>8, <2>9
<1> DEFINE P == PartValues(k, secret, r)
           Q == PartValues(k, secret, q)
<1>4. PICK a \in JoinedValues(k, P) : a \in Texts /\ a # <<>> /\ v = Hash(k, secret, a)
  BY <1>3
<1>5. PICK b \in JoinedValues(k, Q) : b \in Texts /\ b # <<>> /\ v = Hash(k, secret, b)
  BY <1>3
<1>6. a = b
  <2>1. CASE ~k.hash
    BY <1>4, <1>5, <2>1 DEF Hash
  <2>2. CASE k.hash
    <3>1. v = Digest(a) /\ v = Digest(b)
      BY <1>4, <1>5, <2>2 DEF Hash
    <3>2. HMAC(a) = HMAC(b)
      <4>1. Digest(a)[1] = HMAC(a) /\ Digest(b)[1] = HMAC(b)
        BY <1>4, <1>5, DigestText
      <4> QED
        BY <3>1, <4>1, Zenon
    <3> QED
      BY <1>4, <1>5, <3>2, Zenon DEF DigestsDiffer
  <2> QED
    BY <2>1, <2>2
<1>7. /\ P \in Seq(SUBSET Texts) /\ Q \in Seq(SUBSET Texts)
      /\ Len(P) = Len(k.composite) /\ Len(Q) = Len(k.composite)
      /\ Separable(k, P) /\ Separable(k, Q)
  BY <1>3
<1> HIDE DEF P, Q
<1>8. Len(k.composite) # 0 /\ DOMAIN k.composite = 1..Len(k.composite)
  BY <1>1
<1>9. P # <<>> /\ Len(P) = Len(Q)
  BY <1>7, <1>8
<1>10. \A j \in 1..Len(P) : P[j] \intersect Q[j] # {}
  BY <1>4, <1>5, <1>6, <1>7, <1>9, JoinsOnce
<1> QED
  BY <1>7, <1>8, <1>10 DEF P, Q
=============================================================================
