----------------------------- MODULE PathProofs -----------------------------
(***************************************************************************)
(* Paths by their segments.  Split, the reference cut of a path at its     *)
(* slashes, loses nothing, and the strings that matchesPath trims, folds   *)
(* and compares cover exactly what a comparison of segments covers.        *)
(***************************************************************************)
EXTENDS TextProofs

\* f cuts s into segments, character by character.
Cuts(f, s) == f[0] = <<<<>>>> /\ \A n \in 1..Len(s) : f[n] = CutAt(f[n - 1], s[n])

\* Lists of segments.
SegmentLists == {x \in Seq(Texts) : x # <<>>}

\* One step of Split stays in the lists of segments.
LEMMA CutType ==
  ASSUME NEW x \in SegmentLists, NEW c \in Chars
  PROVE  CutAt(x, c) \in SegmentLists
<1> DEFINE n == Len(x)
<1>1. x \in Seq(Texts) /\ n \in Nat /\ n >= 1 /\ n \in 1..n
  BY DEF SegmentLists
<1>2. x[n] \in Texts
  BY <1>1
<1>3. Append(x[n], c) \in Texts /\ <<>> \in Texts
  BY <1>2, TextAppend, EmptyText
<1>4. CASE c = "/"
  <2>1. Append(x, <<>>) \in Seq(Texts) /\ Append(x, <<>>) # <<>>
    BY <1>1, <1>3
  <2> QED
    BY <1>4, <2>1 DEF CutAt, SegmentLists
<1>5. CASE c # "/"
  <2> DEFINE a == Append(x[n], c)
             y == [x EXCEPT ![n] = a]
  <2>1. y \in Seq(Texts) /\ Len(y) = n
    <3>1. a \in Texts
      BY <1>3
    <3> HIDE DEF a
    <3> QED
      BY <1>1, <3>1
  <2>2. y # <<>>
    <3> HIDE DEF y
    <3> QED
      BY <1>1, <2>1
  <2>3. CutAt(x, c) = y
    BY <1>5 DEF CutAt
  <2> HIDE DEF y
  <2> QED
    BY <2>1, <2>2, <2>3 DEF SegmentLists
<1> QED
  BY <1>4, <1>5

\* So is Split.
LEMMA SplitRun ==
  ASSUME NEW s \in Texts
  PROVE  \E f : Cuts(f, s) /\ Split(s) = f[Len(s)]
<1> DEFINE Eq(f) == f = [n \in 0..Len(s) |-> IF n = 0 THEN <<<<>>>> ELSE CutAt(f[n - 1], s[n])]
           upto == CHOOSE f : Eq(f)
           G == [x \in SegmentLists \X (1..Len(s)) |-> CutAt(x[1], s[x[2]])]
<1>1. Len(s) \in Nat /\ \A n \in 1..Len(s) : s[n] \in Chars
  BY TextLength
<1>2. G \in [SegmentLists \X (1..Len(s)) -> SegmentLists]
  BY <1>1, CutType
<1>3. PICK f \in [0..Len(s) -> SegmentLists] : Runs(f, 0, Len(s), <<<<>>>>, G)
  <2>1. /\ <<<<>>>> \in SegmentLists /\ 0 \in Int /\ Len(s) \in Int /\ 0 <= Len(s)
        /\ (0 + 1)..Len(s) = 1..Len(s)
    <3>1. <<>> \in Texts
      BY EmptyText
    <3>2. <<<<>>>> \in Seq(Texts) /\ <<<<>>>> # <<>>
      BY <3>1
    <3> QED
      BY <1>1, <3>2 DEF SegmentLists
  <2> HIDE DEF G
  <2>2. G \in [SegmentLists \X ((0 + 1)..Len(s)) -> SegmentLists]
    BY <1>2, <2>1
  <2> QED
    BY <2>1, <2>2, Counting, Zenon
<1>4. Eq(f)
  <2>1. f[0] = <<<<>>>>
    BY <1>3 DEF Runs
  <2>2. ASSUME NEW n \in 0..Len(s), n # 0
        PROVE  f[n] = CutAt(f[n - 1], s[n])
    <3>1. n \in (0 + 1)..Len(s) /\ n - 1 \in 0..Len(s) /\ n \in 1..Len(s)
      BY <1>1, <2>2
    <3>2. f[n] = G[<<f[n - 1], n>>]
      <4> HIDE DEF G
      <4> QED
        BY <1>3, <3>1 DEF Runs
    <3>3. f[n - 1] \in SegmentLists
      BY <3>1
    <3> QED
      BY <3>1, <3>2, <3>3
  <2> QED
    BY Zenon, <2>1, <2>2
<1>5. Eq(upto)
  <2> HIDE DEF Eq
  <2> QED
    BY <1>4, Zenon
<1>6. Split(s) = upto[Len(s)]
  BY Zenon DEF Split
<1> HIDE DEF upto
<1>7. Cuts(upto, s)
  <2>1. upto[0] = <<<<>>>>
    BY <1>1, <1>5
  <2>2. ASSUME NEW n \in 1..Len(s)
        PROVE  upto[n] = CutAt(upto[n - 1], s[n])
    <3>1. n \in 0..Len(s) /\ n # 0
      BY <1>1
    <3> QED
      BY <1>5, <3>1
  <2> HIDE DEF Eq
  <2> QED
    BY <2>1, <2>2 DEF Cuts
<1> QED
  BY <1>6, <1>7

\* Split cuts the empty text into one empty segment, and goes on by characters.
LEMMA SplitOf ==
  /\ Split(<<>>) = <<<<>>>>
  /\ \A s \in Texts : \A c \in Chars : Split(Append(s, c)) = CutAt(Split(s), c)
<1>1. Split(<<>>) = <<<<>>>>
  <2> QED
    BY Zenon, EmptyText, SplitRun DEF Cuts
<1>2. ASSUME NEW s \in Texts, NEW c \in Chars
      PROVE  Split(Append(s, c)) = CutAt(Split(s), c)
  <2> DEFINE t == Append(s, c)
             N == Len(s)
  <2>1. /\ N \in Nat /\ t \in Texts /\ Len(t) = N + 1 /\ t[N + 1] = c
        /\ \A n \in 1..N : t[n] = s[n]
    BY TextLength, TextAppend
  <2> HIDE DEF t
  <2>2. PICK f : Cuts(f, s) /\ Split(s) = f[N]
    BY SplitRun
  <2>3. PICK g : Cuts(g, t) /\ Split(t) = g[N + 1]
    BY <2>1, SplitRun
  <2> DEFINE S == {n \in 0..N : f[n] = g[n]}
  <2>4. 0 \in S
    <3>1. 0 \in 0..N /\ f[0] = <<<<>>>> /\ g[0] = <<<<>>>>
      BY <2>1, <2>2, <2>3 DEF Cuts
    <3> QED
      BY <3>1
  <2>5. ASSUME NEW n \in 1..N, n - 1 \in S
        PROVE  n \in S
    <3>1. n \in 1..N /\ n \in 1..Len(t) /\ t[n] = s[n] /\ n \in 0..N
      BY <2>1
    <3>2. f[n] = CutAt(f[n - 1], s[n]) /\ g[n] = CutAt(g[n - 1], s[n])
      BY <2>2, <2>3, <3>1 DEF Cuts
    <3> QED
      BY <2>5, <3>1, <3>2
  <2>6. N \in S
    <3> HIDE DEF S, N
    <3> QED
      BY <2>1, <2>4, <2>5, Upto
  <2>7. g[N + 1] = CutAt(g[N], c)
    <3>1. N + 1 \in 1..Len(t) /\ (N + 1) - 1 = N
      BY <2>1
    <3> QED
      BY <2>1, <2>3, <3>1 DEF Cuts
  <2> QED
    BY <2>2, <2>3, <2>6, <2>7 DEF t
<1> QED
  BY <1>1, <1>2

\* Prefixes, element by element.
LEMMA PrefixIs ==
  ASSUME NEW D, NEW s \in Seq(D), NEW t \in Seq(D)
  PROVE  IsPrefix(s, t) <=> Len(s) <= Len(t) /\ \A i \in 1..Len(s) : s[i] = t[i]
<1>1. ASSUME Len(s) <= Len(t)
      PROVE  SubSeq(s, 1, Len(s)) = SubSeq(t, 1, Len(s)) <=> \A i \in 1..Len(s) : s[i] = t[i]
  <2> DEFINE a == SubSeq(s, 1, Len(s))
             b == SubSeq(t, 1, Len(s))
  <2>1. /\ a \in Seq(D) /\ Len(a) = Len(s) /\ \A i \in 1..Len(s) : a[i] = s[i]
        /\ b \in Seq(D) /\ Len(b) = Len(s) /\ \A i \in 1..Len(s) : b[i] = t[i]
    BY <1>1
  <2> HIDE DEF a, b
  <2>2. a = b <=> \A i \in 1..Len(s) : a[i] = b[i]
    BY <2>1
  <2>3. a = b <=> \A i \in 1..Len(s) : s[i] = t[i]
    BY <2>1, <2>2
  <2> QED
    BY <2>3 DEF a, b
<1> QED
  BY <1>1 DEF IsPrefix

\* A prefix of a longer sequence is all of it or one of what was there.
LEMMA PrefixOfAppend ==
  ASSUME NEW D, NEW s \in Seq(D), NEW t \in Seq(D), NEW c \in D
  PROVE  IsPrefix(s, Append(t, c)) <=> s = Append(t, c) \/ IsPrefix(s, t)
<1> DEFINE a == Append(t, c)
<1>1. /\ a \in Seq(D) /\ Len(a) = Len(t) + 1 /\ \A i \in 1..Len(t) : a[i] = t[i]
  OBVIOUS
<1> HIDE DEF a
<1>0. SUFFICES IsPrefix(s, a) <=> s = a \/ IsPrefix(s, t)
  BY DEF a
<1>2. IsPrefix(s, a) <=> Len(s) <= Len(a) /\ \A i \in 1..Len(s) : s[i] = a[i]
  BY <1>1, PrefixIs
<1>3. IsPrefix(s, t) <=> Len(s) <= Len(t) /\ \A i \in 1..Len(s) : s[i] = t[i]
  BY PrefixIs
<1>4. Len(s) \in Nat /\ Len(t) \in Nat /\ Len(a) \in Nat
  BY <1>1
<1>5. CASE Len(s) <= Len(t)
  <2>1. \A i \in 1..Len(s) : i \in 1..Len(t)
    BY <1>4, <1>5
  <2>2. Len(s) # Len(a) /\ Len(s) <= Len(a)
    BY <1>1, <1>4, <1>5
  <2>3. (\A i \in 1..Len(s) : s[i] = a[i]) <=> (\A i \in 1..Len(s) : s[i] = t[i])
    BY <1>1, <2>1, Zenon
  <2>4. IsPrefix(s, a) <=> IsPrefix(s, t)
    BY <1>2, <1>3, <1>5, <2>2, <2>3, Zenon
  <2>5. s # a
    BY <2>2
  <2> QED
    BY <2>4, <2>5
<1>6. CASE Len(s) > Len(t)
  <2>1. Len(s) <= Len(a) <=> Len(s) = Len(a)
    BY <1>1, <1>4, <1>6
  <2>2. ASSUME Len(s) = Len(a), \A i \in 1..Len(s) : s[i] = a[i]
        PROVE  s = a
    BY <1>1, <2>2, SameElements
  <2>3. s = a => Len(s) = Len(a) /\ \A i \in 1..Len(s) : s[i] = a[i]
    BY Zenon
  <2>4. ~IsPrefix(s, t)
    BY <1>3, <1>4, <1>6
  <2>5. IsPrefix(s, a) <=> s = a
    BY <1>2, <2>1, <2>2, <2>3, Zenon
  <2> QED
    BY <2>4, <2>5
<1> QED
  BY <1>4, <1>5, <1>6

\* What a cut does to a list of segments.
LEMMA CutIs ==
  ASSUME NEW x \in SegmentLists, NEW c \in Chars
  PROVE  /\ Len(x) \in Nat /\ Len(x) >= 1 /\ x[Len(x)] \in Texts
         /\ c = "/" => /\ CutAt(x, c) = Append(x, <<>>)
                       /\ Len(CutAt(x, c)) = Len(x) + 1
                       /\ \A i \in 1..Len(x) : CutAt(x, c)[i] = x[i]
                       /\ Last(CutAt(x, c)) = <<>>
         /\ c # "/" => /\ Len(CutAt(x, c)) = Len(x)
                       /\ \A i \in 1..(Len(x) - 1) : CutAt(x, c)[i] = x[i]
                       /\ Last(CutAt(x, c)) = Append(x[Len(x)], c)
<1>1. x \in Seq(Texts) /\ Len(x) \in Nat /\ Len(x) >= 1 /\ Len(x) \in 1..Len(x)
  BY DEF SegmentLists
<1>2. x[Len(x)] \in Texts
  BY <1>1
<1>3. ASSUME c = "/"
      PROVE  /\ CutAt(x, c) = Append(x, <<>>)
             /\ Len(CutAt(x, c)) = Len(x) + 1
             /\ \A i \in 1..Len(x) : CutAt(x, c)[i] = x[i]
             /\ Last(CutAt(x, c)) = <<>>
  <2>1. CutAt(x, c) = Append(x, <<>>)
    BY <1>3 DEF CutAt
  <2>2. /\ Len(Append(x, <<>>)) = Len(x) + 1
        /\ \A i \in 1..Len(x) : Append(x, <<>>)[i] = x[i]
        /\ Append(x, <<>>)[Len(x) + 1] = <<>>
    BY <1>1
  <2> QED
    BY <2>1, <2>2 DEF Last
<1>4. ASSUME c # "/"
      PROVE  /\ Len(CutAt(x, c)) = Len(x)
             /\ \A i \in 1..(Len(x) - 1) : CutAt(x, c)[i] = x[i]
             /\ Last(CutAt(x, c)) = Append(x[Len(x)], c)
  <2> DEFINE n == Len(x)
             a == Append(x[n], c)
             y == [x EXCEPT ![n] = a]
  <2>1. CutAt(x, c) = y
    BY <1>4 DEF CutAt
  <2>2. a \in Texts
    BY <1>2, TextAppend
  <2> HIDE DEF a
  <2>3. Len(y) = n /\ (\A i \in 1..(n - 1) : y[i] = x[i]) /\ y[n] = a
    BY <1>1, <2>2
  <2> HIDE DEF y
  <2> QED
    BY <2>1, <2>3 DEF Last, a
<1> QED
  BY <1>1, <1>2, <1>3, <1>4

\* A text splits into a list of segments.
LEMMA SplitType ==
  \A s \in Texts : Split(s) \in SegmentLists
<1> DEFINE S == {s \in Texts : Split(s) \in SegmentLists}
<1>1. <<>> \in S
  <2>1. <<<<>>>> \in Seq(Texts) /\ <<<<>>>> # <<>>
    BY EmptyText
  <2> QED
    BY Zenon, <2>1, EmptyText, SplitOf DEF SegmentLists
<1>2. ASSUME NEW s \in Texts, NEW c \in Chars, s \in S
      PROVE  Append(s, c) \in S
  BY <1>2, SplitOf, TextAppend, CutType
<1>3. \A s \in Texts : s \in S
  <2> HIDE DEF S
  <2> QED
    BY <1>1, <1>2, ByAppending
<1> QED
  BY <1>3

\* A list of segments that has seen a character is not that of the empty text.
LEMMA CutNeverBare ==
  ASSUME NEW x \in SegmentLists, NEW c \in Chars
  PROVE  CutAt(x, c) # <<<<>>>>
<1>1. Len(<<<<>>>>) = 1 /\ Last(<<<<>>>>) = <<>>
  BY DEF Last
<1>2. Append(x[Len(x)], c) # <<>>
  BY CutIs, TextAppend
<1>3. CASE c = "/"
  BY <1>1, <1>3, CutIs
<1>4. CASE c # "/"
  BY <1>1, <1>2, <1>4, CutIs
<1> QED
  BY <1>3, <1>4

\* A text ends in one way.
LEMMA TextAppendInjective ==
  ASSUME NEW s \in Texts, NEW t \in Texts, NEW c \in Chars, NEW d \in Chars,
         Append(s, c) = Append(t, d)
  PROVE  s = t /\ c = d
<1> DEFINE a == Append(s, c)
<1>0. /\ Len(a) = Len(s) + 1 /\ (\A i \in 1..Len(s) : a[i] = s[i]) /\ a[Len(s) + 1] = c
      /\ Len(a) = Len(t) + 1 /\ (\A i \in 1..Len(t) : a[i] = t[i]) /\ a[Len(t) + 1] = d
      /\ Len(s) \in Nat /\ Len(t) \in Nat
  <2>1. Len(a) = Len(s) + 1 /\ (\A i \in 1..Len(s) : a[i] = s[i]) /\ a[Len(s) + 1] = c
    BY Zenon, TextAppend
  <2>2. Len(a) = Len(t) + 1 /\ (\A i \in 1..Len(t) : a[i] = t[i]) /\ a[Len(t) + 1] = d
    BY TextAppend
  <2> QED
    BY <2>1, <2>2, TextLength
<1> HIDE DEF a
<1>1. Len(s) = Len(t)
  BY <1>0
<1>2. c = d
  BY <1>0, <1>1
<1>3. \A i \in 1..Len(s) : s[i] = t[i]
  BY <1>0, <1>1
<1> QED
  BY <1>1, <1>2, <1>3, TextEqual

\* A step of Split can be undone.
LEMMA CutInjective ==
  ASSUME NEW x \in SegmentLists, NEW y \in SegmentLists, NEW c \in Chars, NEW d \in Chars,
         CutAt(x, c) = CutAt(y, d)
  PROVE  x = y /\ c = d
<1>0. x \in Seq(Texts) /\ y \in Seq(Texts)
  BY DEF SegmentLists
<1>1. Append(x[Len(x)], c) # <<>> /\ Append(y[Len(y)], d) # <<>>
  BY Zenon, CutIs, TextAppend
<1>2. c = "/" <=> d = "/"
  BY <1>1, CutIs
<1>3. CASE c = "/"
  <2>1. Len(x) = Len(y) /\ \A i \in 1..Len(x) : x[i] = y[i]
    BY <1>2, <1>3, CutIs
  <2> QED
    BY <1>0, <1>2, <1>3, <2>1
<1>4. CASE c # "/"
  <2>1. Len(x) = Len(y) /\ \A i \in 1..(Len(x) - 1) : x[i] = y[i]
    BY <1>2, <1>4, CutIs
  <2>2. Append(x[Len(x)], c) = Append(y[Len(y)], d)
    BY <1>2, <1>4, CutIs
  <2>3. x[Len(x)] = y[Len(y)] /\ c = d
    <3> DEFINE u == x[Len(x)]
               v == y[Len(y)]
    <3>1. u \in Texts /\ v \in Texts /\ Append(u, c) = Append(v, d)
      BY <2>2, CutIs
    <3> HIDE DEF u, v
    <3>2. u = v /\ c = d
      BY <3>1, TextAppendInjective
    <3> QED
      BY <3>2 DEF u, v
  <2>4. \A i \in 1..Len(x) : x[i] = y[i]
    BY <2>1, <2>3, CutIs
  <2> QED
    BY <1>0, <2>1, <2>3, <2>4
<1> QED
  BY <1>3, <1>4

\* Texts with the same segments are the same.
LEMMA SplitInjective ==
  \A s \in Texts : \A t \in Texts : Split(s) = Split(t) => s = t
<1> DEFINE S == {s \in Texts : \A t \in Texts : Split(s) = Split(t) => s = t}
<1>1. <<>> \in S
  <2>1. SUFFICES ASSUME NEW t \in Texts, Split(<<>>) = Split(t), t # <<>>
                 PROVE  FALSE
    BY EmptyText
  <2>2. PICK u \in Texts : \E d \in Chars : t = Append(u, d)
    BY <2>1, TextEnds
  <2>3. PICK d \in Chars : t = Append(u, d)
    BY <2>2
  <2>4. CutAt(Split(u), d) = <<<<>>>>
    BY <2>1, <2>3, SplitOf
  <2> QED
    BY <2>4, SplitType, CutNeverBare
<1>2. ASSUME NEW s \in Texts, NEW c \in Chars, s \in S
      PROVE  Append(s, c) \in S
  <2>0. Append(s, c) \in Texts /\ Split(Append(s, c)) = CutAt(Split(s), c) /\ Split(s) \in SegmentLists
    BY TextAppend, SplitOf, SplitType
  <2>1. SUFFICES ASSUME NEW t \in Texts, CutAt(Split(s), c) = Split(t)
                 PROVE  Append(s, c) = t
    BY <2>0
  <2>2. t # <<>>
    BY <2>0, <2>1, SplitOf, CutNeverBare
  <2>3. PICK u \in Texts : \E d \in Chars : t = Append(u, d)
    BY <2>2, TextEnds
  <2>4. PICK d \in Chars : t = Append(u, d)
    BY <2>3
  <2>5. CutAt(Split(s), c) = CutAt(Split(u), d)
    BY <2>1, <2>4, SplitOf
  <2>6. Split(s) = Split(u) /\ c = d
    BY <2>0, <2>5, SplitType, CutInjective
  <2> QED
    BY <1>2, <2>4, <2>6
<1>3. \A s \in Texts : s \in S
  <2> HIDE DEF S
  <2> QED
    BY <1>1, <1>2, ByAppending
<1> QED
  BY <1>3

\* The slash and the star are characters.
LEMMA Marks ==
  "/" \in Chars /\ "*" \in Chars
BY Zenon, CharsAssumption DEF Alphabet

\* What a list of segments begins with after one more character.
LEMMA PrefixOfCut ==
  ASSUME NEW x \in SegmentLists, NEW y \in SegmentLists, NEW c \in Chars
  PROVE  IsPrefix(y, CutAt(x, c)) <=> y = CutAt(x, c) \/ (IsPrefix(y, x) /\ (c = "/" \/ y # x))
<1> DEFINE z == CutAt(x, c)
<1>0. SUFFICES IsPrefix(y, z) <=> y = z \/ (IsPrefix(y, x) /\ (c = "/" \/ y # x))
  OBVIOUS
<1>1. x \in Seq(Texts) /\ y \in Seq(Texts) /\ z \in Seq(Texts)
  BY CutType DEF SegmentLists
<1>2. CASE c = "/"
  <2>1. z = Append(x, <<>>) /\ <<>> \in Texts
    BY <1>2, CutIs, EmptyText
  <2>2. IsPrefix(y, Append(x, <<>>)) <=> y = Append(x, <<>>) \/ IsPrefix(y, x)
    BY <1>1, <2>1, PrefixOfAppend
  <2> QED
    BY <1>2, <2>1, <2>2, Zenon
<1>3. CASE c # "/"
  <2>1. Len(z) = Len(x) /\ (\A i \in 1..(Len(x) - 1) : z[i] = x[i]) /\ Len(x) \in Nat
    BY <1>3, CutIs
  <2> HIDE DEF z
  <2>2. Len(y) \in Nat
    BY <1>1
  <2>3. IsPrefix(y, z) <=> Len(y) <= Len(x) /\ \A i \in 1..Len(y) : y[i] = z[i]
    BY <1>1, <2>1, PrefixIs
  <2>4. IsPrefix(y, x) <=> Len(y) <= Len(x) /\ \A i \in 1..Len(y) : y[i] = x[i]
    BY <1>1, PrefixIs
  <2>5. CASE Len(y) < Len(x)
    <3>1. y # z /\ y # x
      BY <2>1, <2>5
    <3>2. \A i \in 1..Len(y) : z[i] = x[i]
      BY <2>1, <2>2, <2>5
    <3>3. IsPrefix(y, z) <=> IsPrefix(y, x)
      BY <2>3, <2>4, <3>2, Zenon
    <3> QED
      BY <1>3, <3>1, <3>3
  <2>6. CASE Len(y) = Len(x)
    <3>1. (\A i \in 1..Len(y) : y[i] = x[i]) => y = x
      BY <1>1, <2>6, SameElements
    <3>2. (\A i \in 1..Len(y) : y[i] = z[i]) => y = z
      BY <1>1, <2>1, <2>6, SameElements
    <3>3. y = z => \A i \in 1..Len(y) : y[i] = z[i]
      BY Zenon
    <3>4. Len(y) <= Len(x)
      BY <2>1, <2>2, <2>6
    <3> QED
      BY <1>3, <2>3, <2>4, <3>1, <3>2, <3>3, <3>4, Zenon
  <2>7. CASE Len(y) > Len(x)
    <3>1. ~IsPrefix(y, z) /\ ~IsPrefix(y, x)
      BY <2>1, <2>2, <2>3, <2>4, <2>7
    <3>2. y # z
      BY <2>1, <2>2, <2>7
    <3> QED
      BY <3>1, <3>2
  <2> QED
    BY <2>1, <2>2, <2>5, <2>6, <2>7
<1> QED
  BY <1>2, <1>3

\* One path is under another exactly when its segments begin with the other's.
LEMMA SplitPrefix ==
  ASSUME NEW b \in Texts
  PROVE  \A p \in Texts : IsPrefix(Split(b), Split(p)) <=> p = b \/ IsPrefix(Append(b, "/"), p)
<1> DEFINE a == Append(b, "/")
           S == {p \in Texts : IsPrefix(Split(b), Split(p)) <=> p = b \/ IsPrefix(a, p)}
<1>0. a \in Texts /\ Len(a) = Len(b) + 1 /\ a # <<>> /\ Len(b) \in Nat /\ Split(b) \in SegmentLists
  BY Zenon, Marks, TextAppend, TextLength, SplitType
<1>1. <<>> \in S
  <2>1. ~IsPrefix(a, <<>>)
    BY <1>0, EmptyText DEF IsPrefix
  <2>2. Split(<<>>) = <<<<>>>> /\ Split(<<>>) \in SegmentLists
    BY SplitOf, SplitType, EmptyText
  <2>3. IsPrefix(Split(b), Split(<<>>)) => Split(b) = Split(<<>>)
    <3>1. SUFFICES ASSUME IsPrefix(Split(b), <<<<>>>>)
                   PROVE  Split(b) = <<<<>>>>
      BY <2>2
    <3> DEFINE x == Split(b)
               y == <<<<>>>>
    <3>2. x \in Seq(Texts) /\ y \in Seq(Texts) /\ Len(y) = 1 /\ Len(x) \in Nat /\ Len(x) >= 1
      BY <1>0, <2>2 DEF SegmentLists
    <3> HIDE DEF x, y
    <3>3. Len(x) <= Len(y) /\ \A i \in 1..Len(x) : x[i] = y[i]
      <4>1. IsPrefix(x, y)
        BY <3>1 DEF x, y
      <4>2. x \in Seq(Texts) /\ y \in Seq(Texts)
        BY <3>2
      <4> QED
        BY <4>1, <4>2, PrefixIs
    <3>4. Len(x) = Len(y)
      BY <3>2, <3>3
    <3>5. x = y
      BY <3>2, <3>3, <3>4, SameElements
    <3> QED
      BY <3>5 DEF x, y
  <2>4. <<>> = b => IsPrefix(Split(b), Split(<<>>))
    <3>1. Split(b) \in Seq(Texts)
      BY <1>0 DEF SegmentLists
    <3>2. IsPrefix(Split(b), Split(b))
      BY <3>1, PrefixIs
    <3> QED
      BY <3>2
  <2> QED
    BY <2>1, <2>3, <2>4, EmptyText, SplitInjective
<1>2. ASSUME NEW q \in Texts, NEW c \in Chars, q \in S
      PROVE  Append(q, c) \in S
  <2> DEFINE p == Append(q, c)
  <2>1. p \in Texts /\ Split(p) = CutAt(Split(q), c) /\ Split(q) \in SegmentLists
    BY TextAppend, SplitOf, SplitType
  <2>2. IsPrefix(Split(b), Split(p))
          <=> Split(b) = Split(p) \/ (IsPrefix(Split(b), Split(q)) /\ (c = "/" \/ Split(b) # Split(q)))
    BY <1>0, <2>1, PrefixOfCut
  <2>3. IsPrefix(a, p) <=> a = p \/ IsPrefix(a, q)
    BY Zenon, <1>0, PrefixOfAppend DEF Texts
  <2>4. a = p <=> b = q /\ c = "/"
    BY Marks, TextAppendInjective
  <2> HIDE DEF p
  <2>5. (Split(b) = Split(p) <=> b = p) /\ (Split(b) = Split(q) <=> b = q)
    BY <2>1, SplitInjective
  <2>6. IsPrefix(a, q) => q # b
    <3>1. IsPrefix(a, q) => Len(a) <= Len(q)
      BY DEF IsPrefix
    <3> QED
      BY <1>0, <3>1
  <2>7. IsPrefix(Split(b), Split(q)) <=> q = b \/ IsPrefix(a, q)
    BY <1>2
  <2>8. IsPrefix(Split(b), Split(p)) <=> p = b \/ IsPrefix(a, p)
    BY <2>2, <2>3, <2>4, <2>5, <2>6, <2>7, Zenon
  <2> QED
    BY <2>1, <2>8 DEF p
<1>3. \A p \in Texts : p \in S
  <2> HIDE DEF S
  <2> QED
    BY <1>1, <1>2, ByAppending
<1> QED
  BY <1>3

\* strings.HasPrefix compares character by character.
LEMMA TextPrefix ==
  ASSUME NEW s \in Texts, NEW t \in Texts
  PROVE  IsPrefix(s, t) <=> Len(s) <= Len(t) /\ \A i \in 1..Len(s) : s[i] = t[i]
BY PrefixIs DEF Texts

\* Suffixes of one and of two characters.
LEMMA Reversed ==
  ASSUME NEW s \in Texts
  PROVE  /\ Reverse(s) \in Texts /\ Len(Reverse(s)) = Len(s)
         /\ \A i \in 1..Len(s) : Reverse(s)[i] = s[(Len(s) - i) + 1]
<1>1. Len(s) \in Nat /\ \A i \in 1..Len(s) : s[i] \in Chars
  BY TextLength
<1>2. \A i \in 1..Len(s) : s[(Len(s) - i) + 1] \in Chars
  BY <1>1
<1> QED
  BY <1>1, <1>2 DEF Reverse, Texts

\* strings.HasSuffix of a slash looks at the last character.
LEMMA EndsInSlash ==
  ASSUME NEW s \in Texts
  PROVE  IsSuffix(<<"/">>, s) <=> Len(s) >= 1 /\ s[Len(s)] = "/"
<1> DEFINE t == <<"/">>
<1>1. t \in Texts /\ Len(t) = 1 /\ t[1] = "/" /\ Len(s) \in Nat
  BY Marks, OneChar, TextLength
<1>2. Reverse(t) \in Texts /\ Len(Reverse(t)) = 1 /\ Reverse(t)[1] = "/"
  <2> HIDE DEF t
  <2>1. Reverse(t)[1] = t[(Len(t) - 1) + 1] /\ Len(Reverse(t)) = Len(t) /\ Reverse(t) \in Texts
    BY <1>1, Reversed
  <2> QED
    BY <1>1, <2>1
<1> HIDE DEF t
<1>3. IsPrefix(Reverse(t), Reverse(s)) <=> 1 <= Len(s) /\ "/" = Reverse(s)[1]
  <2>1. Reverse(s) \in Texts /\ Len(Reverse(s)) = Len(s)
    BY Reversed
  <2>2. IsPrefix(Reverse(t), Reverse(s)) <=> Len(Reverse(t)) <= Len(Reverse(s)) /\ \A i \in 1..Len(Reverse(t)) : Reverse(t)[i] = Reverse(s)[i]
    BY <1>2, <2>1, TextPrefix, Zenon
  <2>3. (\A i \in 1..Len(Reverse(t)) : Reverse(t)[i] = Reverse(s)[i]) <=> "/" = Reverse(s)[1]
    BY <1>2
  <2> QED
    BY <1>2, <2>1, <2>2, <2>3
<1>4. 1 <= Len(s) => Reverse(s)[1] = s[Len(s)]
  BY <1>1, Reversed
<1> QED
  BY <1>1, <1>3, <1>4 DEF IsSuffix, t

\* strings.HasSuffix of a slash and a star looks at the last two.
LEMMA EndsInWild ==
  ASSUME NEW s \in Texts
  PROVE  IsSuffix(<<"/", "*">>, s) <=> Len(s) >= 2 /\ s[Len(s) - 1] = "/" /\ s[Len(s)] = "*"
<1> DEFINE t == <<"/", "*">>
<1>1. t \in Texts /\ Len(t) = 2 /\ t[1] = "/" /\ t[2] = "*" /\ Len(s) \in Nat
  BY Marks, TextLength DEF Texts
<1>2. Reverse(t) \in Texts /\ Len(Reverse(t)) = 2 /\ Reverse(t)[1] = "*" /\ Reverse(t)[2] = "/"
  <2> HIDE DEF t
  <2>1. /\ Len(Reverse(t)) = Len(t) /\ Reverse(t) \in Texts
        /\ Reverse(t)[1] = t[(Len(t) - 1) + 1] /\ Reverse(t)[2] = t[(Len(t) - 2) + 1]
    BY <1>1, Reversed
  <2> QED
    BY <1>1, <2>1
<1> HIDE DEF t
<1>3. IsPrefix(Reverse(t), Reverse(s)) <=> 2 <= Len(s) /\ "*" = Reverse(s)[1] /\ "/" = Reverse(s)[2]
  <2>1. Reverse(s) \in Texts /\ Len(Reverse(s)) = Len(s)
    BY Reversed
  <2>2. IsPrefix(Reverse(t), Reverse(s)) <=> Len(Reverse(t)) <= Len(Reverse(s)) /\ \A i \in 1..Len(Reverse(t)) : Reverse(t)[i] = Reverse(s)[i]
    BY <1>2, <2>1, TextPrefix, Zenon
  <2>3. (\A i \in 1..Len(Reverse(t)) : Reverse(t)[i] = Reverse(s)[i])
          <=> "*" = Reverse(s)[1] /\ "/" = Reverse(s)[2]
    <3>1. 1..Len(Reverse(t)) = {1, 2}
      BY <1>2
    <3> QED
      BY <1>2, <3>1
  <2> QED
    BY <1>2, <2>1, <2>2, <2>3
<1>4. 2 <= Len(s) => Reverse(s)[1] = s[Len(s)] /\ Reverse(s)[2] = s[Len(s) - 1]
  BY <1>1, Reversed
<1> QED
  BY <1>1, <1>3, <1>4 DEF IsSuffix, t

\* Folding neither makes nor takes away a slash or a star.
LEMMA FoldMarks ==
  ASSUME NEW c
  PROVE  (Fold(c) = "/" <=> c = "/") /\ (Fold(c) = "*" <=> c = "*")
BY DEF Fold

\* normalisePath drops one trailing slash, unless the path is nothing else.
LEMMA NormalPath ==
  ASSUME NEW p \in Texts
  PROVE  /\ Len(p) > 1 /\ p[Len(p)] = "/" => normalisePath(p) = SubSeq(p, 1, Len(p) - 1)
         /\ ~(Len(p) > 1 /\ p[Len(p)] = "/") => normalisePath(p) = p
<1>1. Len(p) \in Nat /\ Len(<<"/">>) = 1
  BY TextLength
<1>2. IsSuffix(<<"/">>, p) <=> Len(p) >= 1 /\ p[Len(p)] = "/"
  BY EndsInSlash
<1>3. CASE Len(p) > 1 /\ p[Len(p)] = "/"
  <2>1. IsSuffix(<<"/">>, p)
    BY <1>1, <1>2, <1>3
  <2> QED
    BY <1>1, <1>3, <2>1 DEF normalisePath, TrimSuffix
<1>4. CASE Len(p) > 1 /\ p[Len(p)] # "/"
  <2>1. ~IsSuffix(<<"/">>, p)
    BY <1>2, <1>4
  <2> QED
    BY <1>4, <2>1 DEF normalisePath, TrimSuffix
<1>5. CASE ~(Len(p) > 1)
  BY <1>5 DEF normalisePath
<1> QED
  BY <1>3, <1>4, <1>5

\* A normalised path is a text.
LEMMA NormalText ==
  ASSUME NEW p \in Texts
  PROVE  normalisePath(p) \in Texts
<1>1. Len(p) \in Nat
  BY TextLength
<1>2. Len(p) > 1 => SubSeq(p, 1, Len(p) - 1) \in Texts
  BY <1>1, TextSub
<1> QED
  BY Zenon, <1>2, NormalPath

\* Folding and taking the trailing slash away commute.
LEMMA LowerNormal ==
  ASSUME NEW p \in Texts
  PROVE  Lower(normalisePath(p)) = normalisePath(Lower(p))
<1> DEFINE q == Lower(p)
<1>1. q \in Texts /\ Len(q) = Len(p) /\ \A i \in 1..Len(p) : q[i] = Fold(p[i])
  BY LowerText
<1> HIDE DEF q
<1>2. Len(p) \in Nat
  BY TextLength
<1>3. Len(p) > 1 => (q[Len(q)] = "/" <=> p[Len(p)] = "/")
  BY <1>1, <1>2, FoldMarks
<1>4. CASE Len(p) > 1 /\ p[Len(p)] = "/"
  <2> DEFINE n == Len(p) - 1
             a == SubSeq(p, 1, n)
             b == SubSeq(q, 1, n)
  <2>1. normalisePath(p) = a /\ normalisePath(q) = b
    BY <1>1, <1>3, <1>4, NormalPath
  <2>2. /\ a \in Texts /\ Len(a) = n /\ \A i \in 1..n : a[i] = p[i]
        /\ b \in Texts /\ Len(b) = n /\ \A i \in 1..n : b[i] = q[i]
    <3>1. 1 \in Int /\ 1 >= 1 /\ n \in Int /\ n <= Len(p) /\ n <= Len(q) /\ 1 <= n /\ n - 1 + 1 = n
      BY <1>1, <1>2, <1>4
    <3>2. \A i \in 1..n : 1 + i - 1 = i
      BY <3>1
    <3> HIDE DEF n
    <3>3. a \in Texts /\ Len(a) = n /\ \A i \in 1..n : a[i] = p[i]
      BY <3>1, <3>2, TextSub
    <3>4. b \in Texts /\ Len(b) = n /\ \A i \in 1..n : b[i] = q[i]
      BY <1>1, <3>1, <3>2, TextSub
    <3> QED
      BY Zenon, <3>3, <3>4
  <2> HIDE DEF a, b
  <2>3. Lower(a) \in Texts /\ Len(Lower(a)) = n /\ \A i \in 1..n : Lower(a)[i] = Fold(a[i])
    BY <2>2, LowerText
  <2>4. \A i \in 1..n : Lower(a)[i] = b[i]
    BY <1>1, <1>2, <2>2, <2>3
  <2>5. Lower(a) = b
    BY <2>2, <2>3, <2>4, TextEqual
  <2> QED
    BY <2>1, <2>5 DEF q
<1>5. CASE ~(Len(p) > 1 /\ p[Len(p)] = "/")
  <2>1. normalisePath(p) = p /\ normalisePath(q) = q
    BY <1>1, <1>3, <1>5, NormalPath
  <2> QED
    BY <2>1 DEF q
<1> QED
  BY <1>4, <1>5

\* What precedes the last element, and the last.
LEMMA FrontOfAppend ==
  ASSUME NEW D, NEW s \in Seq(D), NEW c \in D
  PROVE  Front(Append(s, c)) = s /\ Last(Append(s, c)) = c
<1> DEFINE a == Append(s, c)
           f == SubSeq(a, 1, Len(s))
<1>1. a \in Seq(D) /\ Len(a) = Len(s) + 1 /\ a[Len(s) + 1] = c /\ \A i \in 1..Len(s) : a[i] = s[i]
  OBVIOUS
<1> HIDE DEF a
<1>2. f \in Seq(D) /\ Len(f) = Len(s) /\ \A i \in 1..Len(s) : f[i] = a[i]
  BY <1>1
<1> HIDE DEF f
<1>3. f = s
  BY <1>1, <1>2, SameElements
<1>4. Len(a) - 1 = Len(s)
  BY <1>1
<1> QED
  BY <1>1, <1>3, <1>4 DEF Front, Last, a, f

\* The reference's segments are those of the normalised, folded path.
LEMMA SegmentsAre ==
  ASSUME NEW p \in Texts
  PROVE  Segments(p) = Split(normalisePath(Lower(p)))
<1> DEFINE q == Lower(p)
<1>1. q \in Texts /\ Len(q) = Len(p) /\ Len(p) \in Nat
  BY LowerText, TextLength
<1>2. Segments(p) = IF Len(q) > 1 /\ Last(Split(q)) = <<>> THEN Front(Split(q)) ELSE Split(q)
  BY <1>1 DEF Segments
<1> HIDE DEF q
<1>3. SUFFICES ASSUME Len(q) > 1
               PROVE  Segments(p) = Split(normalisePath(q))
  <2>1. ~(Len(q) > 1) => normalisePath(q) = q
    BY <1>1, NormalPath
  <2> QED
    BY <1>2, <2>1 DEF q
<1>4. q # <<>>
  BY <1>3, EmptyText
<1>5. PICK u \in Texts : \E c \in Chars : q = Append(u, c)
  BY <1>1, <1>4, TextEnds
<1>6. PICK c \in Chars : q = Append(u, c)
  BY <1>5
<1>7. Len(q) = Len(u) + 1 /\ q[Len(q)] = c /\ Len(u) \in Nat
  BY <1>6, TextAppend, TextLength
<1>8. Split(q) = CutAt(Split(u), c) /\ Split(u) \in SegmentLists
  BY <1>6, SplitOf, SplitType
<1>9. CASE c = "/"
  <2>1. Split(q) = Append(Split(u), <<>>) /\ Last(Split(q)) = <<>>
    BY <1>8, <1>9, CutIs
  <2>2. Front(Append(Split(u), <<>>)) = Split(u)
    BY <1>8, EmptyText, FrontOfAppend DEF SegmentLists
  <2>3. Front(Append(u, c)) = u
    BY FrontOfAppend DEF Texts
  <2>4. normalisePath(q) = SubSeq(q, 1, Len(q) - 1)
    BY <1>1, <1>3, <1>7, <1>9, NormalPath
  <2>5. normalisePath(q) = u
    BY <1>6, <2>3, <2>4 DEF Front
  <2> QED
    BY <1>2, <1>3, <2>1, <2>2, <2>5
<1>10. CASE c # "/"
  <2>1. Last(Split(q)) # <<>>
    BY <1>8, <1>10, CutIs, TextAppend
  <2>2. normalisePath(q) = q
    BY <1>1, <1>7, <1>10, NormalPath
  <2> QED
    BY <1>2, <2>1, <2>2
<1> QED
  BY <1>9, <1>10

\* A last segment "*" is a star at the end.
LEMMA LastStar ==
  ASSUME NEW s \in Texts, Last(Split(s)) = <<"*">>
  PROVE  Len(s) >= 1 /\ s[Len(s)] = "*"
<1>0. <<"*">> # <<>> /\ <<"*">> \in Texts /\ Len(<<"*">>) = 1 /\ <<"*">>[1] = "*"
  BY Marks, OneChar
<1>1. s # <<>>
  <2>1. Last(<<<<>>>>) = <<>>
    BY DEF Last
  <2> QED
    BY <1>0, <2>1, SplitOf
<1>2. PICK u \in Texts : \E c \in Chars : s = Append(u, c)
  BY <1>1, TextEnds
<1>3. PICK c \in Chars : s = Append(u, c)
  BY <1>2
<1>4. Len(s) = Len(u) + 1 /\ s[Len(s)] = c /\ Len(u) \in Nat
  BY <1>3, TextAppend, TextLength
<1>5. Split(s) = CutAt(Split(u), c) /\ Split(u) \in SegmentLists
  BY <1>3, SplitOf, SplitType
<1> DEFINE v == Split(u)[Len(Split(u))]
<1>6. c # "/" /\ v \in Texts /\ Append(v, c) = <<"*">>
  BY Zenon, <1>0, <1>5, CutIs
<1> HIDE DEF v
<1>7. Len(Append(v, c)) = Len(v) + 1 /\ Len(v) \in Nat /\ Append(v, c)[Len(v) + 1] = c
  BY Zenon, <1>6, TextAppend, TextLength
<1>8. c = "*"
  <2>1. Len(v) + 1 = 1
    BY <1>0, <1>6, <1>7
  <2> QED
    BY <1>0, <1>6, <1>7, <2>1
<1> QED
  BY <1>4, <1>8

\* A text with a slash has two segments at least.
LEMMA SlashSplits ==
  \A s \in Texts : (\E i \in 1..Len(s) : s[i] = "/") => Len(Split(s)) >= 2
<1> DEFINE S == {s \in Texts : (\E i \in 1..Len(s) : s[i] = "/") => Len(Split(s)) >= 2}
<1>1. <<>> \in S
  BY EmptyText
<1>2. ASSUME NEW s \in Texts, NEW c \in Chars, s \in S
      PROVE  Append(s, c) \in S
  <2> DEFINE a == Append(s, c)
  <2>1. /\ a \in Texts /\ Len(a) = Len(s) + 1 /\ a[Len(s) + 1] = c /\ Len(s) \in Nat
        /\ \A i \in 1..Len(s) : a[i] = s[i]
    BY TextAppend, TextLength
  <2>2. Split(a) = CutAt(Split(s), c) /\ Split(s) \in SegmentLists
    BY SplitOf, SplitType
  <2> HIDE DEF a
  <2>3. SUFFICES ASSUME NEW i \in 1..Len(a), a[i] = "/"
                 PROVE  Len(Split(a)) >= 2
    BY Zenon, <2>1 DEF a
  <2>4. CASE c = "/"
    BY <2>2, <2>4, CutIs
  <2>5. CASE c # "/"
    <3>1. i \in 1..Len(s) /\ s[i] = "/"
      BY <2>1, <2>3, <2>5
    <3>2. Len(Split(s)) >= 2
      BY <1>2, <3>1
    <3> QED
      BY <2>2, <2>5, <3>2, CutIs
  <2> QED
    BY <2>4, <2>5
<1>3. \A s \in Texts : s \in S
  <2> HIDE DEF S
  <2> QED
    BY <1>1, <1>2, ByAppending
<1> QED
  BY <1>3

\* A pattern that ends in "/*", and one that does not.
LEMMA WildBase ==
  ASSUME NEW s \in Texts, IsSuffix(<<"/", "*">>, s)
  PROVE  LET b == TrimSuffix(s, <<"/", "*">>)
         IN  b \in Texts /\ s = Append(Append(b, "/"), "*")
<1> DEFINE n == Len(s) - 2
           b == SubSeq(s, 1, n)
           t == Append(Append(b, "/"), "*")
<1>1. Len(s) >= 2 /\ s[Len(s) - 1] = "/" /\ s[Len(s)] = "*" /\ Len(s) \in Nat
  BY EndsInWild, TextLength
<1>2. TrimSuffix(s, <<"/", "*">>) = b
  <2>1. Len(<<"/", "*">>) = 2
    OBVIOUS
  <2> QED
    BY <2>1 DEF TrimSuffix
<1>3. n \in Nat /\ n <= Len(s) /\ Len(s) = n + 1 + 1
  BY <1>1
<1> HIDE DEF n
<1>4. b \in Texts /\ Len(b) = n /\ \A i \in 1..n : b[i] = s[i]
  <2>1. 1 \in Int /\ 1 >= 1 /\ n \in Int /\ n - 1 + 1 = n /\ (n >= 1 \/ n = 0)
    BY <1>3
  <2>2. \A i \in 1..n : 1 + i - 1 = i
    BY <1>3
  <2> QED
    BY <1>3, <2>1, <2>2, TextSub
<1> HIDE DEF b
<1>5. /\ Append(b, "/") \in Texts /\ Len(Append(b, "/")) = n + 1 /\ Append(b, "/")[n + 1] = "/"
      /\ \A i \in 1..n : Append(b, "/")[i] = s[i]
  BY <1>4, Marks, TextAppend
<1>6. /\ t \in Texts /\ Len(t) = n + 1 + 1 /\ t[n + 1 + 1] = "*"
      /\ \A i \in 1..(n + 1) : t[i] = Append(b, "/")[i]
  BY <1>5, Marks, TextAppend
<1> HIDE DEF t
<1>7. s[n + 1] = "/" /\ s[n + 1 + 1] = "*"
  BY <1>1, <1>3
<1>8. ASSUME NEW i \in 1..Len(s)
      PROVE  s[i] = t[i]
  <2>1. i \in 1..n \/ i = n + 1 \/ i = n + 1 + 1
    BY <1>3
  <2>2. CASE i \in 1..n
    <3>1. i \in 1..(n + 1)
      BY <1>3, <2>2
    <3> QED
      BY <1>5, <1>6, <2>2, <3>1
  <2>3. CASE i = n + 1
    <3>1. i \in 1..(n + 1)
      BY <1>3, <2>3
    <3> QED
      BY <1>5, <1>6, <1>7, <2>3, <3>1
  <2>4. CASE i = n + 1 + 1
    BY <1>6, <1>7, <2>4
  <2> QED
    BY <2>1, <2>2, <2>3, <2>4
<1>9. s = t
  BY <1>3, <1>6, <1>8, TextEqual
<1> QED
  BY <1>2, <1>4, <1>9 DEF t

\* What the reference says of one pattern and the segments of a path.
SegmentsCover(pattern, path) ==
  LET s == Segments(pattern)
  IN  IF Last(s) = <<"*">> THEN Len(s) = 2 \/ IsPrefix(Front(s), path) ELSE s = path

\* The subtree a pattern ending in "/*" names, by prefix and by segments.
LEMMA WildCovers ==
  ASSUME NEW P \in Texts, NEW p \in Texts, p[1] = "/", IsSuffix(<<"/", "*">>, Lower(p))
  PROVE  MatchesOne(P, p) <=> SegmentsCover(p, Split(P))
<1> DEFINE low == Lower(p)
           b == TrimSuffix(low, <<"/", "*">>)
<1>1. low \in Texts /\ Len(low) = Len(p) /\ \A i \in 1..Len(p) : low[i] = Fold(p[i])
  BY LowerText
<1>2. MatchesOne(P, p) <=> b = <<>> \/ P = b \/ IsPrefix(b \o <<"/">>, P)
  BY DEF MatchesOne, InSubtree
<1>3. b \in Texts /\ low = Append(Append(b, "/"), "*")
  BY <1>1, WildBase, Zenon
<1>4. Segments(p) = Split(normalisePath(low))
  BY SegmentsAre
<1> HIDE DEF b
<1>5. b \o <<"/">> = Append(b, "/")
  <2>1. ASSUME NEW c \in Chars
        PROVE  b \o <<c>> = Append(b, c)
    BY <1>3 DEF Texts
  <2> QED
    BY <2>1, Marks
<1>6. Append(b, "/") \in Texts /\ Split(Append(b, "/")) = Append(Split(b), <<>>) /\ Split(b) \in SegmentLists
  <2>1. Append(b, "/") \in Texts /\ Split(b) \in SegmentLists
    BY <1>3, Marks, TextAppend, SplitType
  <2>2. Split(Append(b, "/")) = CutAt(Split(b), "/")
    BY <1>3, Marks, SplitOf
  <2>3. CutAt(Split(b), "/") = Append(Split(b), <<>>)
    BY DEF CutAt
  <2> QED
    BY <2>1, <2>2, <2>3
<1>7. Split(low) = Append(Split(b), <<"*">>)
  <2> DEFINE x == Split(b)
             y == Append(x, <<>>)
  <2>1. x \in Seq(Texts) /\ Split(low) = CutAt(y, "*")
    BY Zenon, <1>3, <1>6, Marks, SplitOf DEF SegmentLists
  <2>2. y \in Seq(Texts) /\ Len(y) = Len(x) + 1 /\ y[Len(x) + 1] = <<>> /\ \A i \in 1..Len(x) : y[i] = x[i]
    BY <2>1, EmptyText
  <2>3. CutAt(y, "*") = [y EXCEPT ![Len(y)] = Append(@, "*")]
    BY DEF CutAt
  <2>4. Append(<<>>, "*") = <<"*">> /\ <<"*">> \in Texts
    BY Marks, OneChar
  <2> HIDE DEF x, y
  <2>5. CutAt(y, "*") = [y EXCEPT ![Len(x) + 1] = <<"*">>]
    BY <2>2, <2>3, <2>4
  <2> DEFINE z == [y EXCEPT ![Len(x) + 1] = <<"*">>]
             w == Append(x, <<"*">>)
             e == <<"*">>
  <2>6. e \in Texts
    BY <2>4
  <2> HIDE DEF e
  <2>7. /\ [y EXCEPT ![Len(x) + 1] = e] \in Seq(Texts) /\ Len([y EXCEPT ![Len(x) + 1] = e]) = Len(x) + 1
        /\ \A i \in 1..Len(x) : [y EXCEPT ![Len(x) + 1] = e][i] = x[i]
        /\ [y EXCEPT ![Len(x) + 1] = e][Len(x) + 1] = e
    BY <2>1, <2>2, <2>6
  <2>8. /\ Append(x, e) \in Seq(Texts) /\ Len(Append(x, e)) = Len(x) + 1
        /\ \A i \in 1..Len(x) : Append(x, e)[i] = x[i]
        /\ Append(x, e)[Len(x) + 1] = e
    BY <2>1, <2>6
  <2>9. [y EXCEPT ![Len(x) + 1] = e] = Append(x, e)
    <3> DEFINE f == [y EXCEPT ![Len(x) + 1] = e]
               g == Append(x, e)
    <3>1. /\ f \in Seq(Texts) /\ g \in Seq(Texts) /\ Len(f) = Len(x) + 1 /\ Len(g) = Len(x) + 1
          /\ \A i \in 1..Len(x) : f[i] = g[i]
          /\ f[Len(x) + 1] = g[Len(x) + 1] /\ Len(x) \in Nat
      BY <2>1, <2>7, <2>8
    <3> HIDE DEF f, g
    <3>2. \A i \in 1..Len(f) : f[i] = g[i]
      <4>1. \A i \in 1..Len(f) : i \in 1..Len(x) \/ i = Len(x) + 1
        BY <3>1
      <4> QED
        BY <3>1, <4>1
    <3>3. f = g
      BY <3>1, <3>2, SameElements
    <3> QED
      BY <3>3 DEF f, g
  <2> QED
    BY <2>1, <2>5, <2>9 DEF x, e
<1>8. <<"*">> \in Texts /\ Len(<<"*">>) = 1 /\ <<"*">> # <<>>
  BY Marks, OneChar
<1>9. Front(Split(low)) = Split(b) /\ Last(Split(low)) = <<"*">> /\ Len(Split(low)) = Len(Split(b)) + 1
  <2> DEFINE e == <<"*">>
             x == Split(b)
  <2>1. x \in Seq(Texts) /\ e \in Texts
    BY <1>6, <1>8 DEF SegmentLists
  <2> HIDE DEF x, e
  <2>2. Front(Append(x, e)) = x /\ Last(Append(x, e)) = e
    BY <2>1, FrontOfAppend
  <2>3. Len(Append(x, e)) = Len(x) + 1
    BY <2>1
  <2> QED
    BY <1>7, <2>2, <2>3 DEF x, e
<1>10. low[Len(low)] = "*" /\ Len(low) \in Nat
  BY <1>3, <1>6, Marks, TextAppend, TextLength
<1>11. normalisePath(low) = low
  BY <1>1, <1>10, NormalPath
<1>12. Segments(p) = Split(low)
  BY <1>4, <1>11
<1>13. SegmentsCover(p, Split(P)) <=> Len(Split(b)) + 1 = 2 \/ IsPrefix(Split(b), Split(P))
  BY Zenon, <1>9, <1>12 DEF SegmentsCover
<1>14. Len(Split(b)) + 1 = 2 <=> b = <<>>
  <2>1. b = <<>> => Len(Split(b)) = 1
    BY SplitOf
  <2>2. ASSUME b # <<>>
        PROVE  Len(Split(b)) >= 2
    <3>1. Len(b) \in Nat /\ Len(b) >= 1
      BY <1>3, <2>2, TextLength
    <3>2. low[1] = "/"
      <4>1. Len(p) >= 1 /\ Len(p) \in Nat
        BY <1>1, <1>3, <1>6, Marks, TextAppend, TextLength
      <4> QED
        BY <1>1, <4>1, FoldMarks
    <3>3. b[1] = Append(b, "/")[1]
      BY <1>3, <3>1, Marks, TextAppend
    <3>4. Append(b, "/")[1] = low[1]
      <4> DEFINE a == Append(b, "/")
      <4>1. a \in Texts /\ Len(a) \in Nat /\ Len(a) >= 1
        BY <1>3, <1>6, <3>1, Marks, TextAppend
      <4> HIDE DEF a
      <4>2. Append(a, "*")[1] = a[1]
        BY <4>1, Marks, TextAppend
      <4> QED
        BY <1>3, <4>2 DEF a
    <3> QED
      BY <1>3, <3>1, <3>2, <3>3, <3>4, SlashSplits
  <2> DEFINE n == Len(Split(b))
  <2>3. n \in Nat
    BY <1>6, CutIs, Marks
  <2>4. (b = <<>> => n = 1) /\ (b # <<>> => n >= 2)
    BY <2>1, <2>2
  <2> HIDE DEF n
  <2>5. n + 1 = 2 <=> b = <<>>
    BY <2>3, <2>4
  <2> QED
    BY <2>5 DEF n
<1>15. IsPrefix(Split(b), Split(P)) <=> P = b \/ IsPrefix(Append(b, "/"), P)
  BY <1>3, SplitPrefix
<1> QED
  BY <1>2, <1>5, <1>13, <1>14, <1>15, Zenon

\* The path any other pattern names, by comparison and by segments.
LEMMA ExactCovers ==
  ASSUME NEW P \in Texts, NEW p \in Texts, validPath(p), ~IsSuffix(<<"/", "*">>, Lower(p))
  PROVE  MatchesOne(P, p) <=> SegmentsCover(p, Split(P))
<1> DEFINE low == Lower(p)
           q == normalisePath(low)
<1>1. /\ low \in Texts /\ Len(low) = Len(p) /\ Len(p) \in Nat /\ q \in Texts
      /\ \A i \in 1..Len(p) : low[i] = Fold(p[i])
  BY LowerText, TextLength, NormalText
<1>2. ~IsSuffix(<<"/", "*">>, p)
  <2>1. SUFFICES ASSUME Len(p) >= 2, p[Len(p) - 1] = "/", p[Len(p)] = "*"
                 PROVE  Len(low) >= 2 /\ low[Len(low) - 1] = "/" /\ low[Len(low)] = "*"
    BY <1>1, EndsInWild
  <2>2. Len(p) \in 1..Len(p) /\ Len(p) - 1 \in 1..Len(p)
    BY <1>1, <2>1
  <2> QED
    BY <1>1, <2>1, <2>2, FoldMarks
<1>3. \A i \in 1..Len(p) : p[i] # "*"
  BY <1>2 DEF validPath, TrimSuffix, Contains
<1>4. \A i \in 1..Len(low) : low[i] # "*"
  BY <1>1, <1>3, FoldMarks
<1>5. Segments(p) = Split(q)
  BY SegmentsAre
<1>6. Last(Split(q)) # <<"*">>
  <2>1. SUFFICES ASSUME Last(Split(q)) = <<"*">>
                 PROVE  FALSE
    OBVIOUS
  <2>2. Len(q) >= 1 /\ q[Len(q)] = "*"
    BY <1>1, <2>1, LastStar
  <2>3. CASE q = low
    BY <1>1, <1>4, <2>2, <2>3
  <2>4. CASE q # low
    <3>1. Len(low) > 1 /\ q = SubSeq(low, 1, Len(low) - 1)
      BY <1>1, <2>4, NormalPath
    <3> DEFINE n == Len(low) - 1
    <3>2. 1 \in Int /\ 1 >= 1 /\ n \in Int /\ n <= Len(low) /\ 1 <= n /\ n - 1 + 1 = n /\ 1 + n - 1 = n /\ n \in 1..n
      BY <1>1, <3>1
    <3>3. n \in 1..Len(low)
      BY <1>1, <3>1
    <3> HIDE DEF n, low, q
    <3>4. Len(SubSeq(low, 1, n)) = n /\ SubSeq(low, 1, n)[n] = low[n]
      BY <1>1, <3>2, TextSub
    <3> QED
      BY <1>4, <2>2, <3>1, <3>3, <3>4 DEF n
  <2> QED
    BY <2>3, <2>4
<1>7. MatchesOne(P, p) <=> P = q
  BY DEF MatchesOne
<1>8. SegmentsCover(p, Split(P)) <=> Split(q) = Split(P)
  BY <1>5, <1>6 DEF SegmentsCover
<1> HIDE DEF q
<1>9. Split(q) = Split(P) <=> P = q
  BY <1>1, SplitInjective
<1> QED
  BY <1>7, <1>8, <1>9

\* The string operations of matchesPath say of a path what its segments say.
LEMMA PathsAgree ==
  ASSUME NEW path \in Texts, NEW p \in Texts, validPath(p)
  PROVE  MatchesOne(Lower(normalisePath(path)), p) <=> SegmentsCover(p, Segments(path))
<1> DEFINE P == Lower(normalisePath(path))
<1>1. P \in Texts
  BY NormalText, LowerText
<1>2. Segments(path) = Split(P)
  BY SegmentsAre, LowerNormal
<1> HIDE DEF P
<1>3. p[1] = "/"
  BY DEF validPath
<1>4. MatchesOne(P, p) <=> SegmentsCover(p, Split(P))
  BY <1>1, <1>3, WildCovers, ExactCovers
<1> QED
  BY <1>2, <1>4 DEF P
=============================================================================
