----------------------------- MODULE TextProofs -----------------------------
(***************************************************************************)
(* Texts: what Lower, TrimSpace, Before and Digits return, and that every  *)
(* value taken from a request, normalised and hashed is a text.  Lower     *)
(* folds a text character by character; the others only leave characters   *)
(* out.                                                                    *)
(***************************************************************************)
EXTENDS Startup, WellFoundedInduction, TLAPS

\* Min is the least.
LEMMA Least ==
  ASSUME NEW S, S \subseteq Nat, S # {}
  PROVE  Min(S) \in S /\ \A y \in S : Min(S) <= y
<1> DEFINE R == OpToRel(<, Nat)
<1>1. PICK i \in S : \A j \in S : <<j, i>> \notin R
  <2> HIDE DEF R
  <2>1. IsWellFoundedOn(R, Nat)
    BY Zenon, NatLessThanWellFounded DEF R
  <2> QED
    BY <2>1, WFMin, Zenon
<1>2. ASSUME NEW j \in S
      PROVE  i <= j
  <2>1. i \in Nat /\ j \in Nat /\ <<j, i>> \notin R
    BY Zenon, <1>1
  <2>2. j < i => <<j, i>> \in R
    BY <2>1 DEF OpToRel
  <2> HIDE DEF R
  <2> QED
    BY <2>1, <2>2
<1> QED
  BY Zenon, <1>2 DEF Min

\* Max is the greatest.
LEMMA Greatest ==
  ASSUME NEW N \in Nat, NEW S, S \subseteq 0..N, S # {}
  PROVE  Max(S) \in S /\ \A y \in S : Max(S) >= y
<1> DEFINE T == {m \in Nat : N - m \in S}
<1>1. PICK x : x \in S
  OBVIOUS
<1>2. x \in 0..N /\ N - (N - x) = x /\ N - x \in Nat
  BY <1>1
<1>3. T \subseteq Nat /\ N - x \in T
  BY <1>1, <1>2
<1>4. PICK m \in T : \A y \in T : m <= y
  <2> HIDE DEF T
  <2> QED
    BY Zenon, <1>3, Least
<1>5. ASSUME NEW j \in S
      PROVE  N - m >= j
  <2>1. j \in 0..N /\ N - (N - j) = j /\ N - j \in Nat
    OBVIOUS
  <2>2. m <= N - j
    BY <1>4, <2>1
  <2> QED
    BY <2>1, <2>2
<1> QED
  BY Zenon, <1>4, <1>5 DEF Max

\* Sequences with the same elements are the same.
LEMMA SameElements ==
  ASSUME NEW S, NEW s \in Seq(S), NEW t \in Seq(S), Len(s) = Len(t), \A i \in 1..Len(s) : s[i] = t[i]
  PROVE  s = t
OBVIOUS

\* Induction along a range.
LEMMA Along ==
  ASSUME NEW lo \in Int, NEW hi \in Int, NEW S,
         lo <= hi => lo \in S,
         \A n \in (lo + 1)..hi : n - 1 \in S => n \in S
  PROVE  \A n \in lo..hi : n \in S
<1> SUFFICES ASSUME NEW n \in lo..hi, n \notin S
             PROVE  FALSE
  OBVIOUS
<1> DEFINE T == {m \in Nat : lo + m <= hi /\ lo + m \notin S}
<1>1. n - lo \in Nat /\ lo + (n - lo) = n
  OBVIOUS
<1>2. T \subseteq Nat /\ n - lo \in T
  BY <1>1
<1>3. PICK m \in T : \A j \in T : m <= j
  <2> HIDE DEF T
  <2> QED
    BY <1>2, Least, Zenon
<1>4. m # 0 /\ m - 1 \in Nat /\ lo + m \in (lo + 1)..hi /\ lo + (m - 1) = (lo + m) - 1
  OBVIOUS
<1>5. m - 1 \notin T
  BY <1>3, <1>4
<1>6. (lo + m) - 1 \in S
  BY <1>4, <1>5
<1> QED
  BY <1>4, <1>6

\* The same from 0, up to the end.
LEMMA Upto ==
  ASSUME NEW N \in Nat, NEW S, 0 \in S, \A n \in 1..N : n - 1 \in S => n \in S
  PROVE  N \in S
<1>1. 0 \in Int /\ N \in Int /\ (0 + 1)..N = 1..N /\ N \in 0..N
  OBVIOUS
<1>2. \A n \in 0..N : n \in S
  BY <1>1, Along
<1> QED
  BY <1>1, <1>2

\* f is computed from b along lo..hi, one step of G at a time.
Runs(f, lo, hi, b, G) ==
  /\ f[lo] = b
  /\ \A n \in (lo + 1)..hi : f[n] = G[<<f[n - 1], n>>]

\* Such a computation exists.
LEMMA Counting ==
  ASSUME NEW V, NEW lo \in Int, NEW hi \in Int, lo <= hi, NEW b \in V,
         NEW G \in [V \X ((lo + 1)..hi) -> V]
  PROVE  \E f \in [lo..hi -> V] : Runs(f, lo, hi, b, G)
<1> DEFINE S == {n \in lo..hi : \E f \in [lo..n -> V] : Runs(f, lo, n, b, G)}
<1>1. lo \in S
  <2> DEFINE f == [n \in lo..lo |-> b]
  <2>1. f \in [lo..lo -> V] /\ Runs(f, lo, lo, b, G)
    BY DEF Runs
  <2> QED
    BY <2>1
<1>2. ASSUME NEW n \in (lo + 1)..hi, n - 1 \in S
      PROVE  n \in S
  <2>1. PICK f \in [lo..(n - 1) -> V] : Runs(f, lo, n - 1, b, G)
    BY <1>2
  <2> DEFINE g == [i \in lo..n |-> IF i = n THEN G[<<f[n - 1], n>>] ELSE f[i]]
  <2>2. f[n - 1] \in V
    OBVIOUS
  <2>3. g \in [lo..n -> V]
    BY <2>2
  <2>4. g[lo] = b
    BY <2>1 DEF Runs
  <2>5. ASSUME NEW i \in (lo + 1)..n
        PROVE  g[i] = G[<<g[i - 1], i>>]
    <3>1. CASE i = n
      <4>1. g[n] = G[<<f[n - 1], n>>] /\ g[n - 1] = f[n - 1]
        OBVIOUS
      <4> HIDE DEF g
      <4> QED
        BY <3>1, <4>1
    <3>2. CASE i # n
      <4>1. i \in (lo + 1)..(n - 1) /\ i - 1 \in lo..n /\ i - 1 # n
        BY <3>2
      <4>2. g[i] = f[i] /\ g[i - 1] = f[i - 1]
        BY <3>2, <4>1
      <4>3. f[i] = G[<<f[i - 1], i>>]
        BY <2>1, <4>1 DEF Runs
      <4> HIDE DEF g
      <4> QED
        BY <4>2, <4>3
    <3> QED
      BY <3>1, <3>2
  <2> HIDE DEF g
  <2>6. Runs(g, lo, n, b, G)
    BY <2>4, <2>5 DEF Runs
  <2> QED
    BY <2>3, <2>6
<1>3. \A n \in lo..hi : n \in S
  <2> HIDE DEF S
  <2> QED
    BY <1>1, <1>2, Along
<1> QED
  BY <1>3

\* Texts are sequences.
LEMMA EmptyText ==
  <<>> \in Texts /\ Len(<<>>) = 0
BY DEF Texts

\* A text is a function on its positions, and only the empty one has no length.
LEMMA TextLength ==
  ASSUME NEW s \in Texts
  PROVE  /\ Len(s) \in Nat /\ DOMAIN s = 1..Len(s)
         /\ \A i \in 1..Len(s) : s[i] \in Chars
         /\ Len(s) = 0 <=> s = <<>>
BY DEF Texts

\* Appending a character.
LEMMA TextAppend ==
  ASSUME NEW s \in Texts, NEW c \in Chars
  PROVE  /\ Append(s, c) \in Texts /\ Append(s, c) # <<>>
         /\ Len(Append(s, c)) = Len(s) + 1
         /\ \A i \in 1..Len(s) : Append(s, c)[i] = s[i]
         /\ Append(s, c)[Len(s) + 1] = c
BY DEF Texts

\* A text that is not empty has a last character.
LEMMA TextEnds ==
  ASSUME NEW s \in Texts, s # <<>>
  PROVE  \E t \in Texts : \E c \in Chars : s = Append(t, c)
<1>1. SubSeq(s, 1, Len(s) - 1) \in Texts /\ s[Len(s)] \in Chars /\ s = Append(SubSeq(s, 1, Len(s) - 1), s[Len(s)])
  BY DEF Texts
<1> QED
  BY Zenon, <1>1

\* Induction over texts.
LEMMA ByAppending ==
  ASSUME NEW S, <<>> \in S,
         \A s \in Texts : \A c \in Chars : s \in S => Append(s, c) \in S
  PROVE  \A s \in Texts : s \in S
<1> SUFFICES ASSUME NEW r \in Texts, r \notin S
             PROVE  FALSE
  OBVIOUS
<1> DEFINE T == {n \in Nat : \E s \in Texts : Len(s) = n /\ s \notin S}
<1>1. T \subseteq Nat /\ Len(r) \in T
  BY TextLength
<1>2. PICK n \in T : \A j \in T : n <= j
  <2> HIDE DEF T
  <2> QED
    BY <1>1, Least, Zenon
<1>3. PICK s \in Texts : Len(s) = n /\ s \notin S
  OBVIOUS
<1>4. PICK t \in Texts : \E c \in Chars : s = Append(t, c)
  BY Zenon, <1>3, TextEnds
<1>5. PICK c \in Chars : s = Append(t, c)
  BY <1>4
<1>6. Len(t) \in Nat /\ Len(t) < n
  BY <1>3, <1>5, TextAppend, TextLength
<1>7. t \in S
  BY <1>2, <1>6
<1> QED
  BY <1>3, <1>5, <1>7

\* f keeps the digits of s, character by character.
Sifts(f, s) == f[0] = <<>> /\ \A n \in 1..Len(s) : f[n] = Keep(f[n - 1], s[n])

\* One step of Digits stays in the texts.
LEMMA KeepType ==
  ASSUME NEW s \in Texts, NEW c \in Chars
  PROVE  Keep(s, c) \in Texts
BY TextAppend DEF Keep

\* Digits is such a computation.
LEMMA DigitsRun ==
  ASSUME NEW s \in Texts
  PROVE  \E f : Sifts(f, s) /\ Digits(s) = f[Len(s)]
<1> DEFINE Eq(f) == f = [n \in 0..Len(s) |-> IF n = 0 THEN <<>> ELSE Keep(f[n - 1], s[n])]
           kept == CHOOSE f : Eq(f)
           G == [x \in Texts \X (1..Len(s)) |-> Keep(x[1], s[x[2]])]
<1>1. Len(s) \in Nat /\ \A n \in 1..Len(s) : s[n] \in Chars
  BY TextLength
<1>2. G \in [Texts \X (1..Len(s)) -> Texts]
  BY <1>1, KeepType
<1>3. PICK f \in [0..Len(s) -> Texts] : Runs(f, 0, Len(s), <<>>, G)
  <2>1. <<>> \in Texts /\ 0 \in Int /\ Len(s) \in Int /\ 0 <= Len(s) /\ (0 + 1)..Len(s) = 1..Len(s)
    BY <1>1, EmptyText
  <2> HIDE DEF G
  <2>2. G \in [Texts \X ((0 + 1)..Len(s)) -> Texts]
    BY <1>2, <2>1
  <2> QED
    BY <2>1, <2>2, Counting, Zenon
<1>4. Eq(f)
  <2>1. f[0] = <<>>
    BY <1>3 DEF Runs
  <2>2. ASSUME NEW n \in 0..Len(s), n # 0
        PROVE  f[n] = Keep(f[n - 1], s[n])
    <3>1. n \in (0 + 1)..Len(s) /\ n - 1 \in 0..Len(s) /\ n \in 1..Len(s)
      BY <1>1, <2>2
    <3>2. f[n] = G[<<f[n - 1], n>>]
      <4> HIDE DEF G
      <4> QED
        BY <1>3, <3>1 DEF Runs
    <3>3. f[n - 1] \in Texts
      BY <3>1
    <3> QED
      BY <3>1, <3>2, <3>3
  <2> QED
    BY <2>1, <2>2
<1>5. Eq(kept)
  <2> HIDE DEF Eq
  <2> QED
    BY <1>4, Zenon
<1>6. Digits(s) = kept[Len(s)]
  BY Zenon DEF Digits
<1> HIDE DEF kept
<1>7. Sifts(kept, s)
  <2>1. kept[0] = <<>>
    BY <1>1, <1>5
  <2>2. ASSUME NEW n \in 1..Len(s)
        PROVE  kept[n] = Keep(kept[n - 1], s[n])
    <3>1. n \in 0..Len(s) /\ n # 0
      BY <1>1
    <3> QED
      BY <1>5, <3>1
  <2> HIDE DEF Eq
  <2> QED
    BY <2>1, <2>2 DEF Sifts
<1> QED
  BY <1>6, <1>7

\* One more character is one more step.
LEMMA DigitsOf ==
  /\ Digits(<<>>) = <<>>
  /\ \A s \in Texts : \A c \in Chars : Digits(Append(s, c)) = Keep(Digits(s), c)
<1>1. Digits(<<>>) = <<>>
  <2> QED
    BY EmptyText, DigitsRun DEF Sifts
<1>2. ASSUME NEW s \in Texts, NEW c \in Chars
      PROVE  Digits(Append(s, c)) = Keep(Digits(s), c)
  <2> DEFINE t == Append(s, c)
             N == Len(s)
  <2>1. /\ N \in Nat /\ t \in Texts /\ Len(t) = N + 1 /\ t[N + 1] = c
        /\ \A n \in 1..N : t[n] = s[n]
    BY TextLength, TextAppend
  <2> HIDE DEF t
  <2>2. PICK f : Sifts(f, s) /\ Digits(s) = f[N]
    BY DigitsRun
  <2>3. PICK g : Sifts(g, t) /\ Digits(t) = g[N + 1]
    BY <2>1, DigitsRun
  <2> DEFINE S == {n \in 0..N : f[n] = g[n]}
  <2>4. 0 \in S
    BY <2>1, <2>2, <2>3 DEF Sifts
  <2>5. ASSUME NEW n \in 1..N, n - 1 \in S
        PROVE  n \in S
    <3>1. n \in 1..N /\ n \in 1..Len(t) /\ t[n] = s[n] /\ n \in 0..N
      BY <2>1
    <3>2. f[n] = Keep(f[n - 1], s[n]) /\ g[n] = Keep(g[n - 1], s[n])
      BY <2>2, <2>3, <3>1 DEF Sifts
    <3> QED
      BY <2>5, <3>1, <3>2
  <2>6. N \in S
    <3> HIDE DEF S, N
    <3> QED
      BY <2>1, <2>4, <2>5, Upto
  <2>7. g[N + 1] = Keep(g[N], c)
    <3>1. N + 1 \in 1..Len(t) /\ (N + 1) - 1 = N
      BY <2>1
    <3> QED
      BY <2>1, <2>3, <3>1 DEF Sifts
  <2> QED
    BY <2>2, <2>3, <2>6, <2>7 DEF t
<1> QED
  BY <1>1, <1>2

\* Part of a text.
LEMMA TextSub ==
  ASSUME NEW s \in Texts, NEW m \in Int, m >= 1, NEW n \in Int, n <= Len(s)
  PROVE  /\ SubSeq(s, m, n) \in Texts
         /\ Len(SubSeq(s, m, n)) = IF m <= n THEN n - m + 1 ELSE 0
         /\ \A i \in 1..(n - m + 1) : SubSeq(s, m, n)[i] = s[m + i - 1]
BY DEF Texts

\* Two texts put together.
LEMMA TextConcat ==
  ASSUME NEW s \in Texts, NEW t \in Texts
  PROVE  /\ s \o t \in Texts
         /\ Len(s \o t) = Len(s) + Len(t)
         /\ \A i \in 1..(Len(s) + Len(t)) : (s \o t)[i] = IF i <= Len(s) THEN s[i] ELSE t[i - Len(s)]
BY DEF Texts

\* Texts with the same characters are the same.
LEMMA TextEqual ==
  ASSUME NEW s \in Texts, NEW t \in Texts, Len(s) = Len(t), \A i \in 1..Len(s) : s[i] = t[i]
  PROVE  s = t
BY DEF Texts

\* A text of one character.
LEMMA OneChar ==
  ASSUME NEW c \in Chars
  PROVE  <<c>> \in Texts /\ Len(<<c>>) = 1 /\ <<c>>[1] = c
BY DEF Texts

\* Folding a character yields one.
LEMMA FoldType ==
  ASSUME NEW c \in Chars
  PROVE  Fold(c) \in Chars
<1>1. "a" \in Chars /\ "id" \in Chars
  BY Zenon, CharsAssumption DEF Alphabet
<1> QED
  BY <1>1 DEF Fold

\* strings.ToLower folds every character.
LEMMA LowerText ==
  ASSUME NEW s \in Texts
  PROVE  /\ Lower(s) \in Texts /\ Len(Lower(s)) = Len(s)
         /\ \A i \in 1..Len(s) : Lower(s)[i] = Fold(s[i])
<1>1. \A i \in 1..Len(s) : Fold(s[i]) \in Chars
  BY TextLength, FoldType
<1>2. DOMAIN s = 1..Len(s) /\ Len(s) \in Nat
  BY TextLength
<1> QED
  BY <1>1, <1>2 DEF Lower, Texts

\* Trimming leaves what is not blank, in place.
LEMMA Trimmed ==
  ASSUME NEW s \in Texts
  PROVE  \E m \in 1..(Len(s) + 1), n \in 0..Len(s) :
           /\ TrimSpace(s) = SubSeq(s, m, n)
           /\ \A i \in 1..Len(s) : s[i] # " " => i \in m..n
<1> DEFINE solid == {i \in DOMAIN s : s[i] # " "}
<1>1. Len(s) \in Nat /\ DOMAIN s = 1..Len(s)
  BY TextLength
<1>2. CASE solid = {}
  <2>1. TrimSpace(s) = <<>>
    BY Zenon, <1>2 DEF TrimSpace
  <2>2. SubSeq(s, 1, 0) = <<>>
    BY DEF Texts
  <2>3. 1 \in 1..(Len(s) + 1) /\ 0 \in 0..Len(s)
    BY <1>1
  <2> QED
    BY Zenon, <1>1, <1>2, <2>1, <2>2, <2>3
<1>3. CASE solid # {}
  <2> DEFINE m == Min(solid)
             n == Max(solid)
  <2>1. TrimSpace(s) = SubSeq(s, m, n)
    BY Zenon, <1>3 DEF TrimSpace
  <2>2. \A i \in solid : i \in DOMAIN s
    BY Zenon
  <2> HIDE DEF solid
  <2>3. \A i \in solid : i \in 1..Len(s)
    BY <1>1, <2>2
  <2>4. \A i \in 1..Len(s) : i \in Nat /\ i \in 0..Len(s)
    BY <1>1
  <2>5. solid \subseteq Nat /\ solid \subseteq 0..Len(s) /\ solid \subseteq 1..Len(s)
    BY <2>3, <2>4, Zenon
  <2>6. m \in solid /\ \A y \in solid : m <= y
    BY Zenon, <1>3, <2>5, Least
  <2>7. n \in solid /\ \A y \in solid : n >= y
    BY Zenon, <1>1, <1>3, <2>5, Greatest
  <2>8. m \in 1..Len(s) /\ n \in 1..Len(s)
    BY <2>3, <2>6, <2>7, Zenon
  <2> HIDE DEF m, n
  <2>9. m \in 1..(Len(s) + 1) /\ n \in 0..Len(s)
    BY <1>1, <2>8
  <2>10. ASSUME NEW i \in 1..Len(s), s[i] # " "
        PROVE  i \in m..n
    <3>1. i \in solid
      BY Zenon, <1>1, <2>10 DEF solid
    <3> QED
      BY <2>6, <2>7, <2>9, <3>1
  <2> QED
    BY Zenon, <2>1, <2>9, <2>10
<1> QED
  BY Zenon, <1>2, <1>3

\* strings.TrimSpace adds no character, and takes only spaces away.
LEMMA TrimText ==
  ASSUME NEW s \in Texts
  PROVE  /\ TrimSpace(s) \in Texts
         /\ ToSet(TrimSpace(s)) \subseteq ToSet(s)
         /\ \A c \in ToSet(s) : c # " " => c \in ToSet(TrimSpace(s))
<1>1. PICK m \in 1..(Len(s) + 1), n \in 0..Len(s) :
           /\ TrimSpace(s) = SubSeq(s, m, n)
           /\ \A i \in 1..Len(s) : s[i] # " " => i \in m..n
  BY Zenon, Trimmed
<1> DEFINE t == SubSeq(s, m, n)
<1>2. /\ Len(s) \in Nat /\ DOMAIN s = 1..Len(s)
      /\ m \in Int /\ m >= 1 /\ n \in Int /\ n <= Len(s)
  BY TextLength
<1>3. /\ t \in Texts
      /\ Len(t) = IF m <= n THEN n - m + 1 ELSE 0
      /\ \A i \in 1..(n - m + 1) : t[i] = s[m + i - 1]
  BY <1>2, TextSub
<1> HIDE DEF t
<1>4. DOMAIN t = 1..Len(t)
  BY <1>3, TextLength
<1>5. ASSUME NEW i \in DOMAIN t
      PROVE  t[i] \in ToSet(s)
  <2>1. i \in 1..(n - m + 1) /\ m + i - 1 \in DOMAIN s
    BY <1>2, <1>3, <1>4
  <2> QED
    BY <1>3, <2>1 DEF ToSet
<1>6. ASSUME NEW i \in DOMAIN s, s[i] # " "
      PROVE  s[i] \in ToSet(t)
  <2>1. i \in m..n
    BY Zenon, <1>1, <1>2, <1>6
  <2>2. i - m + 1 \in 1..(n - m + 1) /\ m + (i - m + 1) - 1 = i /\ i - m + 1 \in DOMAIN t
    BY <1>2, <1>3, <1>4, <2>1
  <2>3. t[i - m + 1] = s[i]
    BY <1>3, <2>2
  <2> QED
    BY <2>2, <2>3 DEF ToSet
<1>7. TrimSpace(s) = t
  BY Zenon, <1>1 DEF t
<1>8. ToSet(t) \subseteq ToSet(s)
  BY <1>5 DEF ToSet
<1>9. \A c \in ToSet(s) : c # " " => c \in ToSet(t)
  <2>1. ASSUME NEW c \in ToSet(s), c # " "
        PROVE  c \in ToSet(t)
    <3>1. PICK i \in DOMAIN s : c = s[i]
      BY DEF ToSet
    <3> QED
      BY Zenon, <1>6, <2>1, <3>1
  <2> QED
    BY Zenon, <2>1
<1> QED
  BY Zenon, <1>3, <1>7, <1>8, <1>9

\* What is before a character is part of the text.
LEMMA BeforeBound ==
  ASSUME NEW s \in Texts, NEW c
  PROVE  Before(s, c) \in 0..Len(s)
<1> DEFINE I == {i \in 1..Len(s) : s[i] = c}
<1>1. Len(s) \in Nat
  BY TextLength
<1>2. CASE Contains(s, c)
  <2>1. I # {} /\ I \subseteq Nat /\ I \subseteq 1..Len(s)
    BY <1>1, <1>2 DEF Contains
  <2>2. Before(s, c) = Min(I) - 1
    BY <1>2, <2>1 DEF Before, SelectInSeq
  <2> HIDE DEF I
  <2>3. Min(I) \in 1..Len(s)
    BY Zenon, <2>1, Least
  <2> QED
    BY <1>1, <2>2, <2>3
<1>3. CASE ~Contains(s, c)
  BY <1>1, <1>3 DEF Before
<1> QED
  BY <1>2, <1>3

\* Digits adds no character, and keeps every digit.
LEMMA DigitsText ==
  \A s \in Texts :
     /\ Digits(s) \in Texts
     /\ ToSet(Digits(s)) \subseteq ToSet(s)
     /\ \A c \in ToSet(s) : IsDigit(c) => c \in ToSet(Digits(s))
<1> DEFINE Good(s) == /\ Digits(s) \in Texts
                      /\ ToSet(Digits(s)) \subseteq ToSet(s)
                      /\ \A c \in ToSet(s) : IsDigit(c) => c \in ToSet(Digits(s))
           S == {s \in Texts : Good(s)}
<1>0. ASSUME NEW s \in Texts, NEW c \in Chars
      PROVE  ToSet(Append(s, c)) = ToSet(s) \union {c}
  <2> DEFINE t == Append(s, c)
  <2>1. /\ t \in Texts /\ Len(t) = Len(s) + 1 /\ t[Len(s) + 1] = c
        /\ \A i \in 1..Len(s) : t[i] = s[i]
    BY TextAppend
  <2> HIDE DEF t
  <2>2. DOMAIN s = 1..Len(s) /\ Len(s) \in Nat /\ DOMAIN t = 1..(Len(s) + 1)
    BY <2>1, TextLength
  <2>3. ToSet(t) = ToSet(s) \union {c}
    BY <2>1, <2>2 DEF ToSet
  <2> QED
    BY <2>3 DEF t
<1>1. <<>> \in S
  <2>1. ToSet(<<>>) = {}
    BY DEF ToSet
  <2> QED
    BY <2>1, EmptyText, DigitsOf
<1>2. ASSUME NEW s \in Texts, NEW c \in Chars, s \in S
      PROVE  Append(s, c) \in S
  <2>1. Digits(Append(s, c)) = Keep(Digits(s), c) /\ Digits(s) \in Texts /\ Append(s, c) \in Texts
    BY <1>2, DigitsOf, TextAppend
  <2>2. ToSet(Append(s, c)) = ToSet(s) \union {c}
    BY <1>0
  <2>3. CASE IsDigit(c)
    <3>1. Digits(Append(s, c)) = Append(Digits(s), c)
      BY <2>1, <2>3 DEF Keep
    <3>2. Append(Digits(s), c) \in Texts /\ ToSet(Append(Digits(s), c)) = ToSet(Digits(s)) \union {c}
      BY <1>0, <2>1, TextAppend
    <3> QED
      BY Zenon, <1>2, <2>1, <2>2, <3>1, <3>2
  <2>4. CASE ~IsDigit(c)
    <3>1. Digits(Append(s, c)) = Digits(s)
      BY <2>1, <2>4 DEF Keep
    <3> QED
      BY <1>2, <2>1, <2>2, <2>4, <3>1
  <2> QED
    BY <2>3, <2>4
<1>3. \A s \in Texts : s \in S
  <2> HIDE DEF S
  <2> QED
    BY <1>1, <1>2, ByAppending
<1> QED
  BY <1>3

----------------------------------------------------------------------------
\* The values of a request are texts.
LEMMA PathText ==
  ASSUME NEW r, IsRequest(r)
  PROVE  originalPath(r) \in Texts
<1>1. r.uri \in Texts /\ r.url \in Texts
  BY DEF IsRequest
<1>2. Before(r.uri, "?") \in 0..Len(r.uri) /\ Len(r.uri) \in Nat
  BY <1>1, BeforeBound, TextLength
<1>3. SubSeq(r.uri, 1, Before(r.uri, "?")) \in Texts
  <2> DEFINE n == Before(r.uri, "?")
  <2>1. 1 \in Int /\ 1 >= 1 /\ n \in Int /\ n <= Len(r.uri)
    BY <1>2
  <2> HIDE DEF n
  <2>2. SubSeq(r.uri, 1, n) \in Texts
    BY <1>1, <2>1, TextSub
  <2> QED
    BY <2>2 DEF n
<1> QED
  BY <1>1, <1>3 DEF originalPath

\* Of a query or of the headers.
Textual(q) == \A n \in DOMAIN q : q[n] \in Texts

\* The query and the headers of a request hold texts.
LEMMA QueryTextual ==
  ASSUME NEW r, IsRequest(r)
  PROVE  Textual(originalQuery(r)) /\ Textual(r.header)
<1>1. Textual(r.uriQuery) /\ Textual(r.urlQuery) /\ Textual(r.header)
  BY Zenon DEF IsRequest, Textual
<1>2. Textual(<<>>)
  BY DEF Textual
<1> QED
  BY <1>1, <1>2 DEF originalQuery

\* A parameter or header, trimmed.
LEMMA GetText ==
  ASSUME NEW q, Textual(q), NEW n
  PROVE  Get(q, n) \in Texts
<1>1. n \in DOMAIN q => TrimSpace(q[n]) \in Texts
  BY Zenon, TrimText DEF Textual
<1> QED
  BY <1>1, EmptyText DEF Get

\* A field of the body.
LEMMA FieldText ==
  ASSUME NEW r, IsRequest(r), NEW p
  PROVE  Field(r, p) \in Texts
BY EmptyText, Zenon DEF Field, IsRequest

\* The value of a header key.
LEMMA HeaderText ==
  ASSUME NEW r, IsRequest(r), NEW names
  PROVE  HeaderValue(r, names) \in Texts
<1> DEFINE V(n) == LET v == Get(r.header, n) IN TrimSpace(SubSeq(v, 1, Before(v, ",")))
           found == FirstOf(names, {n \in ToSet(names) : V(n) # <<>>})
<1>1. ASSUME NEW n
      PROVE  V(n) \in Texts
  <2> DEFINE v == Get(r.header, n)
             b == Before(v, ",")
  <2>1. v \in Texts
    BY QueryTextual, GetText
  <2>2. b \in 0..Len(v) /\ Len(v) \in Nat
    BY Zenon, <2>1, BeforeBound, TextLength
  <2>3. V(n) = TrimSpace(SubSeq(v, 1, b))
    BY Zenon
  <2> HIDE DEF v, b
  <2>4. 1 \in Int /\ 1 >= 1 /\ b \in Int /\ b <= Len(v)
    BY <2>2
  <2>5. SubSeq(v, 1, b) \in Texts
    BY <2>1, <2>4, TextSub
  <2>6. TrimSpace(SubSeq(v, 1, b)) \in Texts
    BY Zenon, <2>5, TrimText
  <2> HIDE DEF V
  <2> QED
    BY <2>6, <2>3
<1>2. HeaderValue(r, names) = IF found = {} THEN <<>> ELSE V(CHOOSE n \in found : TRUE)
  BY Zenon DEF HeaderValue
<1> HIDE DEF V, found
<1> QED
  BY <1>1, <1>2, EmptyText, Zenon

\* The value of a query key, whichever spelling was met first.
LEMMA QueryText ==
  ASSUME NEW r, IsRequest(r), NEW names, NEW v \in QueryValue(r, names)
  PROVE  v \in Texts
<1> DEFINE q == originalQuery(r)
           exact == FirstOf(names, {n \in ToSet(names) : Get(q, n) # <<>>})
           loose == FirstOf(names, {n \in ToSet(names) : Spellings(q, n) # {}})
<1>1. Textual(q)
  BY QueryTextual
<1>2. QueryValue(r, names) = CASE exact # {} -> {Get(q, n) : n \in exact}
                               [] exact = {} /\ Loosely(q, names) # {} -> Loosely(q, names)
                               [] OTHER -> {<<>>}
  BY Zenon DEF QueryValue
<1>3. Loosely(q, names) = UNION {{TrimSpace(q[k]) : k \in Spellings(q, n)} : n \in loose}
  BY Zenon DEF Loosely
<1>4. ASSUME NEW n
      PROVE  Get(q, n) \in Texts
  BY <1>1, GetText
<1>5. ASSUME NEW n, NEW k \in Spellings(q, n)
      PROVE  TrimSpace(q[k]) \in Texts
  BY Zenon, <1>1, TrimText DEF Textual, Spellings
<1> HIDE DEF q, exact, loose
<1>6. CASE exact # {}
  <2>1. v \in {Get(q, n) : n \in exact}
    BY <1>2, <1>6
  <2> QED
    BY <1>4, <2>1
<1>7. CASE exact = {} /\ Loosely(q, names) # {}
  <2>1. v \in Loosely(q, names)
    BY <1>2, <1>7
  <2>2. PICK n \in loose : v \in {TrimSpace(q[k]) : k \in Spellings(q, n)}
    BY <1>3, <2>1
  <2> QED
    BY <1>5, <2>2
<1>8. CASE exact = {} /\ Loosely(q, names) = {}
  <2>1. v = <<>>
    BY <1>2, <1>8
  <2> QED
    BY <2>1, EmptyText
<1> QED
  BY <1>6, <1>7, <1>8, Zenon

\* Every normaliser yields a text.
LEMMA NormalisedText ==
  ASSUME NEW k, NEW s \in Texts
  PROVE  Normalise(k, s) \in Texts
<1>1. <<"net", "/", "1">> \in Texts
  <2>1. "net" \in Chars /\ "/" \in Chars /\ "1" \in Chars
    BY Zenon, CharsAssumption DEF Alphabet
  <2> QED
    BY <2>1 DEF Texts
<1>2. IPSubnet(s) \in Texts
  BY <1>1, Zenon DEF IPSubnet
<1>3. Digits(s) \in Texts /\ Lower(s) \in Texts /\ TrimSpace(s) \in Texts
  BY Zenon, DigitsText, LowerText, TrimText
<1> QED
  BY <1>2, <1>3 DEF Normalise

\* What is assumed of HMAC-SHA256: a digest is no character of the alphabet, and
\* texts that differ have digests that differ.
DigestsShow   == \A s \in Texts : HMAC(s) \in Chars /\ IsDigest(HMAC(s))
DigestsDiffer == \A s, t \in Texts : HMAC(s) = HMAC(t) => s = t

\* A digest is a text of one character.
LEMMA DigestText ==
  ASSUME DigestsShow, NEW s \in Texts
  PROVE  Digest(s) \in Texts /\ Len(Digest(s)) = 1 /\ Digest(s)[1] = HMAC(s) /\ IsDigest(HMAC(s))
<1>1. HMAC(s) \in Chars /\ IsDigest(HMAC(s))
  BY Zenon DEF DigestsShow
<1> DEFINE c == HMAC(s)
<1>2. c \in Chars
  BY <1>1
<1> HIDE DEF c
<1>3. <<c>> \in Texts /\ Len(<<c>>) = 1 /\ <<c>>[1] = c
  BY <1>2, OneChar
<1> QED
  BY <1>1, <1>3, Zenon DEF Digest, c

\* Normalising and hashing yield a text.
LEMMA FinishedText ==
  ASSUME DigestsShow, NEW k, NEW secret, NEW s \in Texts
  PROVE  Finish(k, secret, s) \in Texts
<1> DEFINE t == Normalise(k, s)
<1>1. t \in Texts
  BY NormalisedText
<1>2. Finish(k, secret, s) = Hash(k, secret, t)
  BY Zenon DEF Finish
<1> HIDE DEF t
<1>3. Digest(t) \in Texts /\ <<>> \in Texts
  BY <1>1, DigestText, EmptyText
<1>4. Hash(k, secret, t) \in Texts
  BY <1>1, <1>3 DEF Hash
<1> QED
  BY <1>2, <1>4

----------------------------------------------------------------------------
\* Two texts around a separator.
Around(c, s, t) == s \o <<c>> \o t

\* A text splits in one way at the last of its separators.
LEMMA SplitsOnce ==
  ASSUME NEW c \in Chars, NEW s \in Texts, NEW t \in Texts, NEW a \in Texts, NEW b \in Texts,
         ~Contains(t, c), ~Contains(b, c), Around(c, s, t) = Around(c, a, b)
  PROVE  s = a /\ t = b
<1>1. ASSUME NEW x \in Texts, NEW y \in Texts
      PROVE  /\ Len(x \o <<c>> \o y) = Len(x) + 1 + Len(y)
             /\ (x \o <<c>> \o y)[Len(x) + 1] = c
             /\ \A i \in 1..Len(x) : (x \o <<c>> \o y)[i] = x[i]
             /\ \A i \in 1..Len(y) : (x \o <<c>> \o y)[Len(x) + 1 + i] = y[i]
  <2> DEFINE e == <<c>>
             u == x \o e
             w == u \o y
  <2>1. e \in Texts /\ Len(e) = 1 /\ e[1] = c
    BY OneChar
  <2> HIDE DEF e
  <2>2. Len(x) \in Nat /\ Len(y) \in Nat
    BY TextLength
  <2>3. /\ u \in Texts /\ Len(u) = Len(x) + 1 /\ u[Len(x) + 1] = c
        /\ \A i \in 1..Len(x) : u[i] = x[i]
    <3>1. /\ u \in Texts /\ Len(u) = Len(x) + Len(e)
          /\ \A i \in 1..(Len(x) + Len(e)) : u[i] = IF i <= Len(x) THEN x[i] ELSE e[i - Len(x)]
      BY <2>1, TextConcat, Zenon
    <3> HIDE DEF u
    <3> QED
      BY <2>1, <2>2, <3>1
  <2> HIDE DEF u
  <2>4. /\ Len(w) = Len(x) + 1 + Len(y)
        /\ \A i \in 1..(Len(x) + 1 + Len(y)) :
              w[i] = IF i <= Len(x) + 1 THEN u[i] ELSE y[i - (Len(x) + 1)]
    <3>1. /\ Len(w) = Len(u) + Len(y)
          /\ \A i \in 1..(Len(u) + Len(y)) : w[i] = IF i <= Len(u) THEN u[i] ELSE y[i - Len(u)]
      BY <2>3, TextConcat, Zenon
    <3> HIDE DEF w
    <3> QED
      BY <2>3, <3>1
  <2> HIDE DEF w
  <2>5. /\ Len(w) = Len(x) + 1 + Len(y)
        /\ w[Len(x) + 1] = c
        /\ \A i \in 1..Len(x) : w[i] = x[i]
        /\ \A i \in 1..Len(y) : w[Len(x) + 1 + i] = y[i]
    BY <2>2, <2>3, <2>4
  <2> QED
    BY <2>5 DEF w, u, e
<1> DEFINE w == s \o <<c>> \o t
           z == a \o <<c>> \o b
<1>2. /\ Len(w) = Len(s) + 1 + Len(t) /\ w[Len(s) + 1] = c
      /\ \A i \in 1..Len(s) : w[i] = s[i]
      /\ \A i \in 1..Len(t) : w[Len(s) + 1 + i] = t[i]
  BY <1>1
<1>3. /\ Len(w) = Len(a) + 1 + Len(b) /\ w[Len(a) + 1] = c
      /\ \A i \in 1..Len(a) : w[i] = a[i]
      /\ \A i \in 1..Len(b) : w[Len(a) + 1 + i] = b[i]
  <2>1. /\ Len(z) = Len(a) + 1 + Len(b) /\ z[Len(a) + 1] = c
        /\ \A i \in 1..Len(a) : z[i] = a[i]
        /\ \A i \in 1..Len(b) : z[Len(a) + 1 + i] = b[i]
    BY <1>1, Zenon
  <2>2. w = z
    BY Zenon DEF Around
  <2> HIDE DEF w, z
  <2> QED
    BY <2>1, <2>2, Zenon
<1> HIDE DEF w
<1>4. (\A i \in 1..Len(t) : t[i] # c) /\ (\A i \in 1..Len(b) : b[i] # c)
  BY DEF Contains
<1>5. Len(s) \in Nat /\ Len(t) \in Nat /\ Len(a) \in Nat /\ Len(b) \in Nat
  BY TextLength
<1>6. ~(Len(s) < Len(a))
  <2>1. SUFFICES ASSUME Len(s) < Len(a) PROVE FALSE
    OBVIOUS
  <2>2. Len(a) - Len(s) \in 1..Len(t) /\ Len(s) + 1 + (Len(a) - Len(s)) = Len(a) + 1
    BY <1>2, <1>3, <1>5, <2>1
  <2>3. w[Len(a) + 1] = t[Len(a) - Len(s)]
    BY <1>2, <2>2
  <2> QED
    BY <1>3, <1>4, <2>2, <2>3
<1>7. ~(Len(a) < Len(s))
  <2>1. SUFFICES ASSUME Len(a) < Len(s) PROVE FALSE
    OBVIOUS
  <2>2. Len(s) - Len(a) \in 1..Len(b) /\ Len(a) + 1 + (Len(s) - Len(a)) = Len(s) + 1
    BY <1>2, <1>3, <1>5, <2>1
  <2>3. w[Len(s) + 1] = b[Len(s) - Len(a)]
    BY <1>3, <2>2
  <2> QED
    BY <1>2, <1>4, <2>2, <2>3
<1>8. Len(s) = Len(a) /\ Len(t) = Len(b)
  BY <1>2, <1>3, <1>5, <1>6, <1>7
<1>9. (\A i \in 1..Len(s) : s[i] = a[i]) /\ (\A i \in 1..Len(t) : t[i] = b[i])
  BY <1>2, <1>3, <1>8
<1> QED
  BY <1>8, <1>9, TextEqual
=============================================================================
