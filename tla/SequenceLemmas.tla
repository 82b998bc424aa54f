--------------------------- MODULE SequenceLemmas ---------------------------
(***************************************************************************)
(* Lemmas that know nothing of the library: induction over the natural     *)
(* numbers, as a statement on sets; what the operations on a stack kept as *)
(* a sequence give (EXCEPT at the last index, Append, Front); parts of     *)
(* sequences; and the concatenation of a sequence of sequences.            *)
(***************************************************************************)
EXTENDS Integers, SequencesExt, SequenceTheorems, WellFoundedInduction, TLAPS

\* Every nonempty set of natural numbers has a least element.
LEMMA LeastOf ==
    ASSUME NEW T, T \subseteq Nat, T # {}
    PROVE  \E x \in T : \A y \in T : x <= y
<1> DEFINE R == OpToRel(<, Nat)
<1>0. IsWellFoundedOn(R, Nat)
  BY NatLessThanWellFounded
<1> HIDE DEF R
<1>1. PICK x \in T : \A y \in T : ~(<<y, x>> \in R)
  BY <1>0, WFMin
<1>2. \A y \in T : ~(y < x)
  BY <1>1 DEF R, OpToRel
<1> QED BY <1>2

\* Induction: a set that has 0, and n + 1 with every n, has every number.
LEMMA NumberInduction ==
    ASSUME NEW P, 0 \in P, \A n \in Nat : n \in P => n + 1 \in P
    PROVE  Nat \subseteq P
<1> SUFFICES ASSUME Nat \ P # {} PROVE FALSE
  OBVIOUS
<1>1. PICK x \in Nat \ P : \A y \in Nat \ P : x <= y
  BY LeastOf
<1>2. x # 0 /\ x - 1 \in Nat
  BY <1>1
<1>3. x - 1 \in P
  BY <1>1, <1>2
<1> QED BY <1>1, <1>2, <1>3

LEMMA MinIsLeast ==
    ASSUME NEW T, T \subseteq Nat, T # {}
    PROVE  Min(T) \in T /\ \A y \in T : Min(T) <= y
BY LeastOf DEF Min

LEMMA MaxIsGreatest ==
    ASSUME NEW n \in Nat, NEW T, T \subseteq 0 .. n, T # {}
    PROVE  Max(T) \in T /\ \A y \in T : y <= Max(T)
<1> DEFINE U == {x \in Nat : n - x \in T}
<1>1. U # {}
  <2>1. PICK y \in T : TRUE
    OBVIOUS
  <2>2. n - y \in Nat /\ n - (n - y) = y
    BY <2>1
  <2> QED BY <2>1, <2>2
<1>2. PICK x \in U : \A y \in U : x <= y
  <2>1. U \subseteq Nat
    OBVIOUS
  <2> HIDE DEF U
  <2> QED BY <1>1, <2>1, LeastOf
<1>3. n - x \in T /\ \A y \in T : n - x >= y
  <2>1. ASSUME NEW y \in T PROVE n - x >= y
    <3>1. n - y \in Nat /\ n - (n - y) = y
      OBVIOUS
    <3> QED BY <1>2, <3>1
  <2> QED BY <1>2, <2>1
<1>4. Max(T) \in T /\ \A y \in T : Max(T) >= y
  BY <1>3 DEF Max
<1>5. \A y \in T : y \in Nat
  OBVIOUS
<1> QED BY <1>4, <1>5
-----------------------------------------------------------------------------
\* Stacks.

\* A nonempty sequence has its last element among its values.
LEMMA LastInSeq ==
    ASSUME NEW S, NEW s \in Seq(S), s # <<>>
    PROVE  Len(s) \in Nat \ {0} /\ Last(s) = s[Len(s)] /\ Last(s) \in S
BY DEF Last

\* Replacing the top keeps the length and every other level.
LEMMA SetTop ==
    ASSUME NEW S, NEW s \in Seq(S), s # <<>>, NEW x \in S
    PROVE  LET t == [s EXCEPT ![Len(s)] = x] IN
           /\ t \in Seq(S) /\ Len(t) = Len(s) /\ t # <<>>
           /\ t[Len(s)] = x
           /\ \A i \in 1 .. Len(s) - 1 : t[i] = s[i]
<1>1. Len(s) \in 1 .. Len(s)  BY LastInSeq
<1>2. QED  BY <1>1, ExceptSeq

\* Pushing keeps every level below.
LEMMA PushTop ==
    ASSUME NEW S, NEW s \in Seq(S), NEW x \in S
    PROVE  LET t == Append(s, x) IN
           /\ t \in Seq(S) /\ Len(t) = Len(s) + 1 /\ t # <<>>
           /\ t[Len(s) + 1] = x
           /\ \A i \in 1 .. Len(s) : t[i] = s[i]
BY AppendProperties

\* Popping keeps every level below.
LEMMA PopTop ==
    ASSUME NEW S, NEW s \in Seq(S), s # <<>>
    PROVE  /\ Front(s) \in Seq(S) /\ Len(Front(s)) = Len(s) - 1
           /\ \A i \in 1 .. Len(s) - 1 : Front(s)[i] = s[i]
<1>1. PICK n \in Nat : n = Len(s) - 1
  BY LastInSeq
<1>2. n \in Int /\ 1 \in Int /\ \A i \in 1 .. n : s[i] \in S
  BY <1>1, ElementOfSeq
<1>3. /\ SubSeq(s, 1, n) \in Seq(S)
      /\ Len(SubSeq(s, 1, n)) = IF 1 <= n THEN n - 1 + 1 ELSE 0
      /\ \A i \in 1 .. n - 1 + 1 : SubSeq(s, 1, n)[i] = s[1 + i - 1]
  BY <1>2, SubSeqProperties
<1>4. Front(s) = SubSeq(s, 1, n)
  BY <1>1 DEF Front
<1>5. Len(Front(s)) = n
  BY <1>3, <1>4
<1>6. ASSUME NEW i \in 1 .. n PROVE Front(s)[i] = s[i]
  BY <1>3, <1>4
<1>7. QED  BY <1>1, <1>3, <1>4, <1>5, <1>6
-----------------------------------------------------------------------------
\* Parts of sequences.

\* A character appended to a sequence is appended to its tail from m.
LEMMA SubSeqAppend ==
    ASSUME NEW S, NEW s \in Seq(S), NEW c \in S, NEW m \in 1 .. Len(s) + 1
    PROVE  SubSeq(Append(s, c), m, Len(s) + 1) = Append(SubSeq(s, m, Len(s)), c)
<1>1. PICK n \in Nat : n = Len(s)
  BY LenProperties
<1> DEFINE t == Append(s, c)
           u == SubSeq(s, m, n)
           v == SubSeq(t, m, n + 1)
<1>2. m \in Int /\ n \in Int /\ n + 1 \in Int /\ m \in 1 .. n + 1
  BY <1>1
<1>3. t \in Seq(S) /\ Len(t) = n + 1 /\ (\A i \in 1 .. n : t[i] = s[i]) /\ t[n + 1] = c
  BY <1>1, AppendProperties
<1>4. /\ u \in Seq(S) /\ Len(u) = n - m + 1
      /\ \A i \in 1 .. n - m + 1 : u[i] = s[m + i - 1]
  <2>1. \A i \in m .. n : s[i] \in S
    BY <1>1, <1>2, ElementOfSeq
  <2>2. /\ u \in Seq(S) /\ Len(u) = (IF m <= n THEN n - m + 1 ELSE 0)
        /\ \A i \in 1 .. n - m + 1 : u[i] = s[m + i - 1]
    BY <1>2, <2>1, SubSeqProperties
  <2>3. QED
    BY <1>2, <2>2
<1>5. /\ v \in Seq(S) /\ Len(v) = n - m + 2
      /\ \A i \in 1 .. n - m + 2 : v[i] = t[m + i - 1]
  <2> HIDE DEF t
  <2>1. \A i \in m .. n + 1 : t[i] \in S
    BY <1>2, <1>3, ElementOfSeq
  <2>2. /\ v \in Seq(S) /\ Len(v) = (IF m <= n + 1 THEN n + 1 - m + 1 ELSE 0)
        /\ \A i \in 1 .. n + 1 - m + 1 : v[i] = t[m + i - 1]
    BY <1>2, <2>1, SubSeqProperties
  <2>3. m <= n + 1 /\ n + 1 - m + 1 = n - m + 2
    BY <1>2
  <2> HIDE DEF v
  <2> QED
    BY <2>2, <2>3
<1>6. /\ Append(u, c) \in Seq(S) /\ Len(Append(u, c)) = n - m + 2
      /\ \A i \in 1 .. n - m + 1 : Append(u, c)[i] = u[i]
      /\ Append(u, c)[n - m + 2] = c
  <2> HIDE DEF u
  <2>1. /\ Append(u, c) \in Seq(S) /\ Len(Append(u, c)) = Len(u) + 1
        /\ \A i \in 1 .. Len(u) : Append(u, c)[i] = u[i]
        /\ Append(u, c)[Len(u) + 1] = c
    BY <1>4, AppendProperties
  <2>2. QED
    BY <1>2, <1>4, <2>1
<1> HIDE DEF t, u, v
<1>7. ASSUME NEW i \in 1 .. n - m + 2 PROVE v[i] = Append(u, c)[i]
  <2>1. CASE i = n - m + 2
    BY <2>1, <1>2, <1>3, <1>5, <1>6
  <2>2. CASE i \in 1 .. n - m + 1
    <3>1. v[i] = t[m + i - 1] /\ Append(u, c)[i] = u[i] /\ u[i] = s[m + i - 1]
      BY <2>2, <1>2, <1>4, <1>5, <1>6
    <3>2. m + i - 1 \in 1 .. n
      BY <2>2, <1>2
    <3>3. QED
      BY <3>1, <3>2, <1>3
  <2>3. i = n - m + 2 \/ i \in 1 .. n - m + 1
    BY <1>2
  <2>4. QED
    BY <2>1, <2>2, <2>3
<1>8. v = Append(u, c)
  BY <1>2, <1>5, <1>6, <1>7, SeqEqual
<1>9. QED
  BY <1>1, <1>8 DEF t, u, v

LEMMA Associates ==
    ASSUME NEW S
    PROVE  \A x, y, z \in Seq(S) : (x \o y) \o z = x \o (y \o z)
<1> SUFFICES ASSUME NEW x \in Seq(S), NEW y \in Seq(S), NEW z \in Seq(S)
             PROVE  (x \o y) \o z = x \o (y \o z)
  OBVIOUS
<1> QED BY ConcatAssociative

\* What Append puts together can be taken apart.
LEMMA AppendSame ==
    ASSUME NEW S
    PROVE  \A x, y \in Seq(S), a, b \in S : Append(x, a) = Append(y, b) => x = y /\ a = b
<1> SUFFICES ASSUME NEW x \in Seq(S), NEW y \in Seq(S), NEW a \in S, NEW b \in S,
                    Append(x, a) = Append(y, b)
             PROVE  x = y /\ a = b
  OBVIOUS
<1> QED BY AppendInjective
-----------------------------------------------------------------------------
\* FlattenSeq, whose definition is a recursive function.

\* f[i] is the concatenation of the first i sequences of ss.
IsFlat(f, ss, n) == f = [i \in 1 .. n |-> IF i = 1 THEN ss[i] ELSE f[i - 1] \o ss[i]]

LEMMA FlatExists ==
    ASSUME NEW ss, NEW n \in Nat
    PROVE  \E f : IsFlat(f, ss, n)
<1> DEFINE P == {m \in Nat : \E f : IsFlat(f, ss, m)}
<1>1. 0 \in P
  <2> DEFINE f == [i \in 1 .. 0 |-> ss]
  <2>1. f = [i \in 1 .. 0 |-> IF i = 1 THEN ss[i] ELSE f[i - 1] \o ss[i]]
    OBVIOUS
  <2> QED BY <2>1 DEF IsFlat
<1>2. ASSUME NEW m \in Nat, m \in P PROVE m + 1 \in P
  <2>1. PICK f : IsFlat(f, ss, m)
    BY <1>2
  <2> DEFINE x == IF m = 0 THEN ss[m + 1] ELSE f[m] \o ss[m + 1]
             g == [i \in 1 .. m + 1 |-> IF i = m + 1 THEN x ELSE f[i]]
  <2>2. ASSUME NEW i \in 1 .. m + 1
        PROVE  g[i] = IF i = 1 THEN ss[i] ELSE g[i - 1] \o ss[i]
    <3>1. CASE i = m + 1
      <4>1. g[i] = x /\ (i # 1 => g[i - 1] = f[m])
        BY <3>1
      <4> HIDE DEF g
      <4>2. i = 1 <=> m = 0
        BY <3>1
      <4>3. x = IF i = 1 THEN ss[i] ELSE f[m] \o ss[i]
        BY <3>1, <4>2, Zenon
      <4> HIDE DEF x
      <4> QED BY <4>1, <4>3, Zenon
    <3>2. CASE i \in 1 .. m
      <4>1. g[i] = f[i] /\ (i # 1 => g[i - 1] = f[i - 1])
        BY <3>2
      <4>2. f[i] = IF i = 1 THEN ss[i] ELSE f[i - 1] \o ss[i]
        BY <2>1, <3>2, Zenon DEF IsFlat
      <4> HIDE DEF g
      <4> QED BY <4>1, <4>2, Zenon
    <3> QED BY <3>1, <3>2
  <2>3. DOMAIN g = 1 .. m + 1
    OBVIOUS
  <2>4. IsFlat(g, ss, m + 1)
    BY <2>2, <2>3 DEF IsFlat
  <2> QED BY <2>4
<1> HIDE DEF P
<1>3. n \in P
  BY <1>1, <1>2, NumberInduction
<1> QED BY <1>3 DEF P

LEMMA FlattenIsFlat ==
    ASSUME NEW ss, Len(ss) \in Nat \ {0}
    PROVE  \E f : IsFlat(f, ss, Len(ss)) /\ FlattenSeq(ss) = f[Len(ss)]
<1> DEFINE Flat(f) == f = [i \in 1 .. Len(ss) |-> IF i = 1 THEN ss[i] ELSE f[i - 1] \o ss[i]]
           flatten == CHOOSE f : Flat(f)
<1>1. FlattenSeq(ss) = flatten[Len(ss)]
  BY DEF FlattenSeq
<1>2. \E f : Flat(f)
  BY FlatExists DEF IsFlat
<1> HIDE DEF Flat
<1>3. Flat(flatten)
  BY <1>2, Zenon
<1> QED BY <1>1, <1>3 DEF Flat, IsFlat

\* Each part of the concatenation is a sequence too.
LEMMA FlatType ==
    ASSUME NEW S, NEW ss \in Seq(Seq(S)), NEW f, IsFlat(f, ss, Len(ss))
    PROVE  \A k \in 1 .. Len(ss) : f[k] \in Seq(S)
<1>1. Len(ss) \in Nat /\ \A i \in 1 .. Len(ss) : ss[i] \in Seq(S)
  BY ElementOfSeq, LenProperties
<1> DEFINE P == {i \in Nat : i + 1 <= Len(ss) => f[i + 1] \in Seq(S)}
<1>2. 0 \in P
  BY <1>1 DEF IsFlat
<1>3. ASSUME NEW i \in Nat, i \in P PROVE i + 1 \in P
  <2> SUFFICES ASSUME i + 2 <= Len(ss) PROVE f[i + 2] \in Seq(S)
    OBVIOUS
  <2>1. f[i + 1] \in Seq(S) /\ ss[i + 2] \in Seq(S)
    BY <1>1, <1>3
  <2>2. f[i + 2] = f[i + 1] \o ss[i + 2]
    <3> DEFINE k == i + 2
    <3>1. k \in 1 .. Len(ss) /\ k # 1 /\ k - 1 = i + 1
      BY <1>1
    <3> HIDE DEF k
    <3>2. f[k] = f[k - 1] \o ss[k]
      BY <3>1, Zenon DEF IsFlat
    <3> QED BY <3>1, <3>2 DEF k
  <2> QED BY <2>1, <2>2, ConcatProperties
<1> HIDE DEF P
<1>4. Nat \subseteq P
  BY <1>2, <1>3, NumberInduction
<1> SUFFICES ASSUME NEW k \in 1 .. Len(ss) PROVE f[k] \in Seq(S)
  OBVIOUS
<1>5. k - 1 \in P /\ k - 1 + 1 = k /\ k <= Len(ss)
  BY <1>1, <1>4
<1> QED BY <1>5 DEF P

\* A concatenation of sequences over S is one over S.
LEMMA FlattenType ==
    ASSUME NEW S, NEW ss \in Seq(Seq(S))
    PROVE  FlattenSeq(ss) \in Seq(S)
<1>1. CASE Len(ss) = 0
  BY <1>1, EmptySeq DEF FlattenSeq
<1>2. CASE Len(ss) # 0
  <2>1. Len(ss) \in Nat \ {0}
    BY <1>2, LenProperties
  <2>2. PICK f : IsFlat(f, ss, Len(ss)) /\ FlattenSeq(ss) = f[Len(ss)]
    BY <2>1, FlattenIsFlat
  <2>3. \A k \in 1 .. Len(ss) : f[k] \in Seq(S)
    BY <2>2, FlatType
  <2> QED BY <2>1, <2>2, <2>3
<1> QED BY <1>1, <1>2

\* What is in one of the sequences is in their concatenation.
LEMMA FlattenHas ==
    ASSUME NEW S, NEW ss \in Seq(Seq(S)), NEW i \in 1 .. Len(ss)
    PROVE  Range(ss[i]) \subseteq Range(FlattenSeq(ss))
<1>1. Len(ss) \in Nat \ {0} /\ \A j \in 1 .. Len(ss) : ss[j] \in Seq(S)
  BY ElementOfSeq, LenProperties
<1>2. PICK f : IsFlat(f, ss, Len(ss)) /\ FlattenSeq(ss) = f[Len(ss)]
  BY <1>1, FlattenIsFlat
<1>3. \A k \in 1 .. Len(ss) : f[k] \in Seq(S)
  BY <1>2, FlatType
<1>4. \A k \in 1 .. Len(ss) : f[k] = IF k = 1 THEN ss[k] ELSE f[k - 1] \o ss[k]
  BY <1>2, Zenon DEF IsFlat
<1> DEFINE P == {d \in Nat : i + d <= Len(ss) => Range(ss[i]) \subseteq Range(f[i + d])}
<1>5. 0 \in P
  <2>1. i + 0 = i /\ i \in 1 .. Len(ss) /\ (i # 1 => i - 1 \in 1 .. Len(ss))
    BY <1>1
  <2>2. CASE i = 1
    <3>1. f[i] = ss[i]
      BY <2>1, <2>2, <1>4
    <3> QED BY <2>1, <3>1
  <2>3. CASE i # 1
    <3>1. f[i] = f[i - 1] \o ss[i] /\ f[i - 1] \in Seq(S) /\ ss[i] \in Seq(S)
      BY <1>1, <1>3, <1>4, <2>1, <2>3
    <3>2. Range(f[i]) = Range(f[i - 1]) \cup Range(ss[i])
      BY <3>1, RangeConcatenation
    <3> QED BY <2>1, <3>2
  <2> QED BY <2>2, <2>3
<1>6. ASSUME NEW d \in Nat, d \in P PROVE d + 1 \in P
  <2> SUFFICES ASSUME i + (d + 1) <= Len(ss)
               PROVE  Range(ss[i]) \subseteq Range(f[i + (d + 1)])
    OBVIOUS
  <2> DEFINE k == i + (d + 1)
  <2>1. k \in 1 .. Len(ss) /\ k # 1 /\ k - 1 = i + d /\ k - 1 \in 1 .. Len(ss)
    BY <1>1
  <2>2. Range(ss[i]) \subseteq Range(f[k - 1])
    BY <1>6, <2>1
  <2> HIDE DEF k
  <2>3. f[k] = f[k - 1] \o ss[k] /\ f[k - 1] \in Seq(S) /\ ss[k] \in Seq(S)
    BY <1>1, <1>3, <1>4, <2>1
  <2>4. Range(f[k]) = Range(f[k - 1]) \cup Range(ss[k])
    BY <2>3, RangeConcatenation
  <2>5. Range(ss[i]) \subseteq Range(f[k])
    BY <2>2, <2>4
  <2> QED BY <2>5 DEF k
<1> HIDE DEF P
<1>7. Nat \subseteq P
  BY <1>5, <1>6, NumberInduction
<1>8. Len(ss) - i \in P /\ i + (Len(ss) - i) = Len(ss)
  BY <1>1, <1>7
<1> QED BY <1>1, <1>2, <1>8 DEF P
\* The concatenation from its other end: r[k] is that of what follows ss[k],
\* for the k from m on.
IsRestFrom(r, ss, m) ==
    r[Len(ss)] = <<>> /\ \A k \in m + 1 .. Len(ss) : r[k - 1] = ss[k] \o r[k]
IsRest(r, ss) == IsRestFrom(r, ss, 0)

LEMMA RestGrows ==
    ASSUME NEW S, NEW ss \in Seq(Seq(S)), NEW q \in 1 .. Len(ss),
           NEW r \in [q .. Len(ss) -> Seq(S)], IsRestFrom(r, ss, q)
    PROVE  \E g \in [q - 1 .. Len(ss) -> Seq(S)] : IsRestFrom(g, ss, q - 1)
<1> DEFINE n == Len(ss)
           x == ss[q] \o r[q]
           g == [i \in q - 1 .. n |-> IF i = q - 1 THEN x ELSE r[i]]
<1>1. n \in Nat /\ q \in Int /\ ss[q] \in Seq(S) /\ r[q] \in Seq(S) /\ q <= n /\ 1 <= q
  <2>1. n \in Nat /\ q \in Int /\ q <= n /\ 1 <= q /\ q \in q .. n
    BY LenProperties
  <2> QED BY <2>1, ElementOfSeq
<1>2. x \in Seq(S)
  BY <1>1, ConcatProperties
<1> HIDE DEF x
<1>3. g \in [q - 1 .. n -> Seq(S)] /\ g[q - 1] = x /\ \A i \in q .. n : g[i] = r[i]
  BY <1>1, <1>2
<1> HIDE DEF g
<1>4. g[n] = <<>>
  BY <1>1, <1>3 DEF IsRestFrom
<1>5. ASSUME NEW k \in q - 1 + 1 .. n PROVE g[k - 1] = ss[k] \o g[k]
  <2>1. CASE k = q
    <3>1. g[k - 1] = x /\ g[k] = r[q] /\ ss[k] = ss[q]
      BY <1>1, <1>3, <2>1
    <3> QED BY <3>1 DEF x
  <2>2. CASE k # q
    <3>1. k \in q + 1 .. n /\ k - 1 \in q .. n /\ k \in q .. n
      BY <1>1, <2>2
    <3>2. r[k - 1] = ss[k] \o r[k]
      BY <3>1 DEF IsRestFrom
    <3> QED BY <1>3, <3>1, <3>2
  <2> QED BY <2>1, <2>2
<1>6. IsRestFrom(g, ss, q - 1)
  BY <1>4, <1>5 DEF IsRestFrom
<1> QED BY <1>3, <1>6

LEMMA RestExists ==
    ASSUME NEW S, NEW ss \in Seq(Seq(S))
    PROVE  \E r \in [0 .. Len(ss) -> Seq(S)] : IsRest(r, ss)
<1> DEFINE n == Len(ss)
           Has(m) == \E r \in [m .. n -> Seq(S)] : IsRestFrom(r, ss, m)
           P == {j \in Nat : j <= n => Has(n - j)}
<1>1. n \in Nat /\ <<>> \in Seq(S)
  BY EmptySeq, LenProperties
<1>2. 0 \in P
  <2> DEFINE r == [i \in n - 0 .. n |-> <<>>]
  <2>1. r \in [n - 0 .. n -> Seq(S)] /\ r[n] = <<>>
    BY <1>1
  <2>2. n - 0 + 1 .. n = {}
    BY <1>1
  <2> HIDE DEF r
  <2>3. IsRestFrom(r, ss, n - 0)
    BY <2>1, <2>2 DEF IsRestFrom
  <2> QED BY <2>1, <2>3
<1>3. ASSUME NEW j \in Nat, j \in P PROVE j + 1 \in P
  <2>1. ASSUME j + 1 <= n PROVE Has(n - (j + 1))
    <3>1. Has(n - j) /\ n - j \in 1 .. n /\ n - j - 1 = n - (j + 1)
      BY <1>1, <1>3, <2>1
    <3> HIDE DEF n
    <3>2. PICK r \in [n - j .. n -> Seq(S)] : IsRestFrom(r, ss, n - j)
      BY <3>1
    <3>3. Has(n - j - 1)
      BY <3>1, <3>2, RestGrows DEF n
    <3> QED BY <3>1, <3>3
  <2> HIDE DEF Has
  <2> QED BY <2>1
<1> HIDE DEF P
<1>4. n \in P
  BY <1>1, <1>2, <1>3, NumberInduction
<1>5. n - n = 0
  BY <1>1
<1>6. Has(n - n)
  BY <1>1, <1>4 DEF P
<1> QED BY <1>5, <1>6 DEF IsRest

\* It is the same concatenation.
LEMMA FlattenIsRest ==
    ASSUME NEW S, NEW ss \in Seq(Seq(S)), NEW r \in [0 .. Len(ss) -> Seq(S)], IsRest(r, ss)
    PROVE  FlattenSeq(ss) = r[0]
<1> DEFINE n == Len(ss)
<1>1. n \in Nat /\ \A i \in 1 .. n : ss[i] \in Seq(S)
  BY ElementOfSeq, LenProperties
<1>2. r[n] = <<>> /\ \A k \in 1 .. n : r[k - 1] = ss[k] \o r[k]
  <2>1. 0 + 1 = 1
    OBVIOUS
  <2>2. r[n] = <<>> /\ \A k \in 0 + 1 .. n : r[k - 1] = ss[k] \o r[k]
    BY Zenon DEF IsRest, IsRestFrom
  <2> QED BY <2>1, <2>2, Zenon
<1>6. \A k \in 1 .. n : ss[k] \in Seq(S) /\ r[k] \in Seq(S)
  <2>1. \A k \in 1 .. n : k \in 0 .. n
    BY <1>1
  <2> QED BY <1>1, <2>1, Zenon
<1>7. \A x, y, z \in Seq(S) : (x \o y) \o z = x \o (y \o z)
  BY Associates
<1> HIDE DEF n
<1>3. CASE n = 0
  BY <1>2, <1>3, EmptySeq DEF FlattenSeq, n
<1>4. CASE n # 0
  <2>1. PICK f : IsFlat(f, ss, n) /\ FlattenSeq(ss) = f[n]
    BY <1>1, <1>4, FlattenIsFlat DEF n
  <2>2. \A k \in 1 .. n : f[k] \in Seq(S)
    BY <2>1, FlatType DEF n
  <2>3. \A k \in 1 .. n : f[k] = IF k = 1 THEN ss[k] ELSE f[k - 1] \o ss[k]
    BY <2>1, Zenon DEF IsFlat
  <2> DEFINE Whole(k) == f[k] \o r[k] = r[0]
             P == {i \in Nat : i + 1 <= n => Whole(i + 1)}
  <2>4. 0 \in P
    <3>1. 1 \in 1 .. n /\ 1 - 1 = 0 /\ 0 + 1 = 1
      BY <1>1, <1>4
    <3>2. f[1] = ss[1] /\ r[0] = ss[1] \o r[1]
      BY <1>2, <2>3, <3>1
    <3>3. Whole(1)
      BY <3>2
    <3> HIDE DEF Whole
    <3> QED BY <3>1, <3>3
  <2>5. ASSUME NEW i \in Nat, i \in P PROVE i + 1 \in P
    <3>1. ASSUME NEW k \in 1 .. n, k # 1, k - 1 \in 1 .. n, Whole(k - 1) PROVE Whole(k)
      <4>1. f[k] = f[k - 1] \o ss[k] /\ r[k - 1] = ss[k] \o r[k]
        BY <1>2, <2>3, <3>1, Zenon
      <4>2. f[k - 1] \in Seq(S) /\ ss[k] \in Seq(S) /\ r[k] \in Seq(S)
        BY <1>6, <2>2, <3>1, Zenon
      <4>3. (f[k - 1] \o ss[k]) \o r[k] = f[k - 1] \o (ss[k] \o r[k])
        BY <1>7, <4>2, Zenon
      <4> QED BY <3>1, <4>1, <4>3, Zenon
    <3> HIDE DEF Whole
    <3> SUFFICES ASSUME i + 2 <= n PROVE Whole(i + 2)
      OBVIOUS
    <3>2. i + 2 \in 1 .. n /\ i + 2 # 1 /\ (i + 2) - 1 = i + 1 /\ i + 1 \in 1 .. n /\ Whole(i + 1)
      BY <1>1, <2>5
    <3> QED BY <3>1, <3>2
  <2> HIDE DEF P
  <2>6. n - 1 \in P /\ n - 1 + 1 = n
    BY <1>1, <1>4, <2>4, <2>5, NumberInduction
  <2>7. Whole(n)
    <3> HIDE DEF Whole
    <3> QED BY <2>6 DEF P
  <2>8. f[n] \o <<>> = f[n]
    BY <1>1, <1>4, <2>2, ConcatEmptySeq
  <2> QED BY <1>2, <2>1, <2>7, <2>8
<1> QED BY <1>3, <1>4
-----------------------------------------------------------------------------
\* Concatenations that are equal.

\* The elements of a concatenation.
LEMMA ConcatHas ==
    ASSUME NEW S, NEW x \in Seq(S), NEW y \in Seq(S)
    PROVE  /\ x \o y \in Seq(S) /\ Len(x \o y) = Len(x) + Len(y)
           /\ \A i \in 1 .. Len(x) : (x \o y)[i] = x[i]
           /\ \A i \in 1 .. Len(y) : (x \o y)[Len(x) + i] = y[i]
<1>1. Len(x) \in Nat /\ Len(y) \in Nat
  BY LenProperties
<1>2. /\ x \o y \in Seq(S) /\ Len(x \o y) = Len(x) + Len(y)
      /\ \A i \in 1 .. Len(x) + Len(y) : (x \o y)[i] = IF i <= Len(x) THEN x[i] ELSE y[i - Len(x)]
  BY ConcatProperties
<1>3. ASSUME NEW i \in 1 .. Len(y) PROVE (x \o y)[Len(x) + i] = y[i]
  <2>1. Len(x) + i \in 1 .. Len(x) + Len(y) /\ ~(Len(x) + i <= Len(x)) /\ Len(x) + i - Len(x) = i
    BY <1>1
  <2> QED BY <1>2, <2>1
<1>4. ASSUME NEW i \in 1 .. Len(x) PROVE (x \o y)[i] = x[i]
  BY <1>1, <1>2
<1> QED BY <1>2, <1>3, <1>4

LEMMA SameElements ==
    ASSUME NEW S, NEW x \in Seq(S), NEW y \in Seq(S), Len(x) = Len(y),
           \A i \in 1 .. Len(x) : x[i] = y[i]
    PROVE  x = y
OBVIOUS

\* Beginnings of the same length can be cut off.
LEMMA ConcatSame ==
    ASSUME NEW S, NEW x \in Seq(S), NEW y \in Seq(S), NEW a \in Seq(S), NEW b \in Seq(S),
           x \o a = y \o b, Len(x) = Len(y)
    PROVE  x = y /\ a = b
<1>1. Len(x) \in Nat /\ Len(a) \in Nat /\ Len(b) \in Nat /\ Len(a) = Len(b)
  BY ConcatHas, LenProperties
<1>2. \A i \in 1 .. Len(x) : x[i] = y[i]
  BY ConcatHas
<1>3. ASSUME NEW i \in 1 .. Len(a) PROVE a[i] = b[i]
  <2>1. Len(x) + i \in 1 .. Len(x) + Len(a) /\ ~(Len(x) + i <= Len(x)) /\ Len(x) + i - Len(x) = i
    BY <1>1
  <2>2. (x \o a)[Len(x) + i] = a[i] /\ (y \o b)[Len(x) + i] = b[i]
    BY <1>1, <2>1, ConcatProperties
  <2> QED BY <2>2
<1> QED BY <1>1, <1>2, <1>3, SameElements

\* One element before a sequence.
LEMMA FirstIs ==
    ASSUME NEW S, NEW x \in S, NEW a \in Seq(S)
    PROVE  /\ <<x>> \in Seq(S) /\ Len(<<x>>) = 1 /\ <<x>> \o a \in Seq(S)
           /\ (<<x>> \o a)[1] = x /\ <<x>> \o a # <<>>
<1>1. <<x>> \in Seq(S) /\ Len(<<x>>) = 1 /\ <<x>>[1] = x
  OBVIOUS
<1>2. /\ <<x>> \o a \in Seq(S) /\ (<<x>> \o a)[1] = x /\ Len(<<x>> \o a) = 1 + Len(a)
      /\ Len(a) \in Nat
  BY <1>1, ConcatHas, LenProperties
<1> QED BY <1>1, <1>2, EmptySeq

LEMMA FirstSame ==
    ASSUME NEW S
    PROVE  \A x, y \in S, a, b \in Seq(S) : <<x>> \o a = <<y>> \o b => x = y /\ a = b
<1> SUFFICES ASSUME NEW x \in S, NEW y \in S, NEW a \in Seq(S), NEW b \in Seq(S),
                    <<x>> \o a = <<y>> \o b
             PROVE  x = y /\ a = b
  OBVIOUS
<1>1. <<x>> \in Seq(S) /\ <<y>> \in Seq(S) /\ Len(<<x>>) = 1 /\ Len(<<y>>) = 1
  OBVIOUS
<1>2. <<x>> = <<y>> /\ a = b
  BY <1>1, ConcatSame
<1> QED BY <1>2

\* What ends at its first q is told from what follows.
LEMMA DelimitedSame ==
    ASSUME NEW S, NEW x \in Seq(S), NEW y \in Seq(S), NEW a \in Seq(S), NEW b \in Seq(S), NEW q \in S,
           q \notin Range(x), q \notin Range(y), x \o (<<q>> \o a) = y \o (<<q>> \o b)
    PROVE  x = y /\ a = b
<1> DEFINE c == <<q>> \o a
           d == <<q>> \o b
<1>1. c \in Seq(S) /\ d \in Seq(S) /\ c[1] = q /\ d[1] = q /\ c # <<>> /\ d # <<>> /\ (c = d => a = b)
  <2>1. c \in Seq(S) /\ c[1] = q /\ c # <<>>
    BY FirstIs
  <2>2. d \in Seq(S) /\ d[1] = q /\ d # <<>>
    BY FirstIs
  <2>3. ASSUME c = d PROVE a = b
    BY <2>3, FirstSame
  <2> QED BY <2>1, <2>2, <2>3
<1> HIDE DEF c, d
<1>2. x \o c = y \o d
  BY DEF c, d
<1>3. /\ Len(x) \in Nat /\ Len(y) \in Nat /\ Len(c) \in Nat \ {0} /\ Len(d) \in Nat \ {0}
      /\ \A i \in 1 .. Len(x) : x[i] # q
      /\ \A i \in 1 .. Len(y) : y[i] # q
  BY <1>1, EmptySeq, LenProperties DEF Range
<1>4. (x \o c)[Len(x) + 1] = q /\ (y \o d)[Len(y) + 1] = q
  BY <1>1, <1>3, ConcatHas
<1>5. /\ \A i \in 1 .. Len(x) : (x \o c)[i] # q
      /\ \A i \in 1 .. Len(y) : (y \o d)[i] # q
  BY <1>1, <1>3, ConcatHas
<1>6. Len(x) = Len(y)
  <2>1. ~(Len(x) < Len(y))
    <3>1. Len(x) < Len(y) => Len(x) + 1 \in 1 .. Len(y)
      BY <1>3
    <3> QED BY <1>2, <1>4, <1>5, <3>1
  <2>2. ~(Len(y) < Len(x))
    <3>1. Len(y) < Len(x) => Len(y) + 1 \in 1 .. Len(x)
      BY <1>3
    <3> QED BY <1>2, <1>4, <1>5, <3>1
  <2> QED BY <1>3, <2>1, <2>2
<1>7. x = y /\ c = d
  BY <1>1, <1>2, <1>6, ConcatSame
<1> QED BY <1>1, <1>7

-----------------------------------------------------------------------------
\* The beginnings of a concatenation: g[k] is that of the first k sequences.
IsBeginnings(g, ss, S) ==
    /\ g \in [0 .. Len(ss) -> Seq(S)] /\ g[0] = <<>>
    /\ \A k \in 1 .. Len(ss) : g[k] = g[k - 1] \o ss[k]

LEMMA BeginningsExist ==
    ASSUME NEW S, NEW ss \in Seq(Seq(S))
    PROVE  \E g : IsBeginnings(g, ss, S) /\ FlattenSeq(ss) = g[Len(ss)]
<1>1. Len(ss) \in Nat /\ <<>> \in Seq(S) /\ \A i \in 1 .. Len(ss) : ss[i] \in Seq(S)
  BY LenProperties, ElementOfSeq
<1>2. CASE Len(ss) = 0
  <2> DEFINE g == [k \in 0 .. Len(ss) |-> <<>>]
  <2>1. FlattenSeq(ss) = <<>>
    BY <1>2, EmptySeq DEF FlattenSeq
  <2>2. IsBeginnings(g, ss, S) /\ g[Len(ss)] = <<>>
    BY <1>1, <1>2 DEF IsBeginnings
  <2> QED BY <2>1, <2>2
<1>3. CASE Len(ss) # 0
  <2> DEFINE n == Len(ss)
  <2>1. n \in Nat \ {0}
    BY <1>1, <1>3
  <2>2. PICK f : IsFlat(f, ss, n) /\ FlattenSeq(ss) = f[n]
    BY <2>1, FlattenIsFlat
  <2>3. \A k \in 1 .. n : f[k] \in Seq(S)
    BY <2>2, FlatType
  <2>4. \A k \in 1 .. n : f[k] = IF k = 1 THEN ss[k] ELSE f[k - 1] \o ss[k]
    BY <2>2, Zenon DEF IsFlat
  <2> DEFINE g == [k \in 0 .. n |-> IF k = 0 THEN <<>> ELSE f[k]]
  <2>5. g \in [0 .. n -> Seq(S)] /\ g[0] = <<>> /\ g[n] = f[n]
    BY <1>1, <2>1, <2>3
  <2>6. ASSUME NEW k \in 1 .. n PROVE g[k] = g[k - 1] \o ss[k]
    <3>1. g[k] = f[k] /\ g[k - 1] = IF k = 1 THEN <<>> ELSE f[k - 1]
      BY <2>1
    <3>2. <<>> \o ss[k] = ss[k]
      BY <1>1, ConcatEmptySeq
    <3> HIDE DEF g
    <3>3. CASE k = 1
      BY <2>4, <3>1, <3>2, <3>3
    <3>4. CASE k # 1
      BY <2>4, <3>1, <3>4
    <3> QED BY <3>3, <3>4
  <2> HIDE DEF g
  <2>7. IsBeginnings(g, ss, S)
    BY <2>5, <2>6 DEF IsBeginnings
  <2> QED BY <2>2, <2>5, <2>7
<1> QED BY <1>2, <1>3

\* Each beginning is one of all that follow, and so of the whole.
LEMMA BeginningsAgree ==
    ASSUME NEW S, NEW ss \in Seq(Seq(S)), NEW g, IsBeginnings(g, ss, S), NEW k \in 0 .. Len(ss)
    PROVE  Len(g[k]) <= Len(g[Len(ss)]) /\ \A j \in 1 .. Len(g[k]) : g[Len(ss)][j] = g[k][j]
<1> DEFINE n == Len(ss)
           Agree(m) == Len(g[k]) <= Len(g[m]) /\ \A j \in 1 .. Len(g[k]) : g[m][j] = g[k][j]
           P == {d \in Nat : k + d <= n => Agree(k + d)}
<1>1. n \in Nat /\ (\A i \in 1 .. n : ss[i] \in Seq(S)) /\ \A i \in 0 .. n : g[i] \in Seq(S)
  BY LenProperties, ElementOfSeq DEF IsBeginnings
<1>2. \A i \in 1 .. n : g[i] = g[i - 1] \o ss[i]
  BY DEF IsBeginnings
<1>3. 0 \in P
  <2>1. k + 0 = k /\ Len(g[k]) \in Nat
    BY <1>1, LenProperties
  <2> QED BY <2>1
<1>4. ASSUME NEW d \in Nat, d \in P PROVE d + 1 \in P
  <2> SUFFICES ASSUME k + (d + 1) <= n PROVE Agree(k + (d + 1))
    OBVIOUS
  <2> DEFINE m == k + (d + 1)
  <2>1. m \in 1 .. n /\ m - 1 = k + d /\ m - 1 \in 0 .. n /\ k + d <= n
    BY <1>1
  <2>2. Agree(m - 1)
    BY <1>4, <2>1
  <2> HIDE DEF m
  <2>3. g[m] = g[m - 1] \o ss[m] /\ g[m - 1] \in Seq(S) /\ ss[m] \in Seq(S) /\ g[k] \in Seq(S)
    BY <1>1, <1>2, <2>1
  <2> DEFINE a == g[m - 1]
             b == ss[m]
             e == g[k]
  <2>4. a \in Seq(S) /\ b \in Seq(S) /\ e \in Seq(S) /\ Len(e) <= Len(a) /\ \A j \in 1 .. Len(e) : a[j] = e[j]
    BY <2>2, <2>3
  <2>5. g[m] = a \o b
    BY <2>3
  <2> HIDE DEF a, b
  <2>7. Len(e) <= Len(a \o b) /\ \A j \in 1 .. Len(e) : (a \o b)[j] = e[j]
    <3> HIDE DEF e
    <3>1. Len(a \o b) = Len(a) + Len(b) /\ \A j \in 1 .. Len(a) : (a \o b)[j] = a[j]
      BY <2>4, ConcatHas
    <3>2. Len(a) \in Nat /\ Len(b) \in Nat /\ Len(e) \in Nat
      BY <2>4, LenProperties
    <3> DEFINE c == a \o b
    <3> HIDE DEF c
    <3>3. Len(c) = Len(a) + Len(b) /\ \A j \in 1 .. Len(a) : c[j] = a[j]
      BY <3>1 DEF c
    <3>4. Len(e) <= Len(c) /\ \A j \in 1 .. Len(e) : c[j] = e[j]
      BY <2>4, <3>2, <3>3
    <3> QED BY <3>4 DEF c
  <2>6. Agree(m)
    BY <2>5, <2>7
  <2> QED BY <2>6 DEF m
<1> HIDE DEF P
<1>5. Nat \subseteq P
  BY <1>3, <1>4, NumberInduction
<1>6. n - k \in P /\ k + (n - k) = n
  BY <1>1, <1>5
<1> QED BY <1>1, <1>6 DEF P
-----------------------------------------------------------------------------
\* Taking a concatenation of sequences apart.

\* The equations of IsRest, with indices that begin at 0.
Follows(r, ss, n) == \A i \in 0 .. n - 1 : r[i] = ss[i + 1] \o r[i + 1]

LEMMA RestIs ==
    ASSUME NEW ss, NEW n \in Nat, Len(ss) = n, NEW r
    PROVE  IsRest(r, ss) <=> r[n] = <<>> /\ Follows(r, ss, n)
<1>1. ASSUME \A k \in 1 .. n : r[k - 1] = ss[k] \o r[k], NEW i \in 0 .. n - 1
      PROVE  r[i] = ss[i + 1] \o r[i + 1]
  <2>1. i + 1 \in 1 .. n /\ (i + 1) - 1 = i
    OBVIOUS
  <2> QED BY <1>1, <2>1
<1>2. ASSUME \A i \in 0 .. n - 1 : r[i] = ss[i + 1] \o r[i + 1], NEW k \in 1 .. n
      PROVE  r[k - 1] = ss[k] \o r[k]
  <2>1. k - 1 \in 0 .. n - 1 /\ (k - 1) + 1 = k
    OBVIOUS
  <2> QED BY <1>2, <2>1
<1>3. 0 + 1 = 1
  OBVIOUS
<1> QED BY <1>1, <1>2, <1>3 DEF IsRest, IsRestFrom, Follows

\* The rests of a concatenation, from those of its two parts.
JoinedRests(r, q, n, m) == [k \in 0 .. n + m |-> IF k <= n THEN r[k] \o q[0] ELSE q[k - n]]

Joins(w, r, q, n, m) ==
    (\A k \in 0 .. n : w[k] = r[k] \o q[0]) /\ \A k \in 1 .. m : w[n + k] = q[k]

LEMMA JoinedIs ==
    ASSUME NEW n \in Nat, NEW m \in Nat, NEW r, NEW q
    PROVE  Joins(JoinedRests(r, q, n, m), r, q, n, m)
<1>1. \A k \in 0 .. n : k \in 0 .. n + m /\ k <= n
  OBVIOUS
<1>2. \A k \in 1 .. m : n + k \in 0 .. n + m /\ ~(n + k <= n) /\ (n + k) - n = k
  OBVIOUS
<1>3. ASSUME NEW k \in 0 .. n PROVE JoinedRests(r, q, n, m)[k] = r[k] \o q[0]
  BY <1>1, Zenon DEF JoinedRests
<1>4. ASSUME NEW k \in 1 .. m PROVE JoinedRests(r, q, n, m)[n + k] = q[k]
  BY <1>2, Zenon DEF JoinedRests
<1> QED BY <1>3, <1>4, Zenon DEF Joins

Associate(r, ss, x, n) ==
    \A i \in 0 .. n - 1 : (ss[i + 1] \o r[i + 1]) \o x = ss[i + 1] \o (r[i + 1] \o x)

LEMMA RestsJoin ==
    ASSUME NEW n \in Nat, NEW m \in Nat, NEW ss, NEW tt, NEW uu, NEW r, NEW q,
           \A i \in 0 .. n - 1 : uu[i + 1] = ss[i + 1],
           \A i \in 0 .. m - 1 : uu[n + (i + 1)] = tt[i + 1],
           Follows(r, ss, n), Follows(q, tt, m), Associate(r, ss, q[0], n)
    PROVE  JoinedRests(r, q, n, m)[n] = q[0] => Follows(JoinedRests(r, q, n, m), uu, n + m)
<1> DEFINE w == JoinedRests(r, q, n, m)
<1>0. Joins(w, r, q, n, m)
  BY JoinedIs, Zenon
<1>1. \A k \in 0 .. n : w[k] = r[k] \o q[0]
  BY <1>0, Zenon DEF Joins
<1>2. \A k \in 1 .. m : w[n + k] = q[k]
  BY <1>0, Zenon DEF Joins
<1>3. (\A i \in 0 .. n - 1 : i \in 0 .. n /\ i + 1 \in 0 .. n) /\ \A i \in 0 .. m - 1 : i + 1 \in 1 .. m
  OBVIOUS
<1>4. \A i \in 0 .. (n + m) - 1 : i \in 0 .. n - 1 \/ \E k \in 0 .. m - 1 : i = n + k /\ i + 1 = n + (k + 1)
  <2> SUFFICES ASSUME NEW i \in 0 .. (n + m) - 1, i \notin 0 .. n - 1
               PROVE  \E k \in 0 .. m - 1 : i = n + k /\ i + 1 = n + (k + 1)
    OBVIOUS
  <2>1. i - n \in 0 .. m - 1 /\ i = n + (i - n) /\ i + 1 = n + ((i - n) + 1)
    OBVIOUS
  <2> QED BY <2>1
<1>5. \A k \in 0 .. m - 1 : k = 0 \/ k \in 1 .. m
  OBVIOUS
<1>6. n + 0 = n
  OBVIOUS
<1> HIDE DEF w
<1>7. SUFFICES ASSUME w[n] = q[0] PROVE Follows(w, uu, n + m)
  BY DEF w
<1>8. ASSUME NEW i \in 0 .. n - 1 PROVE w[i] = uu[i + 1] \o w[i + 1]
  <2>1. w[i] = r[i] \o q[0] /\ w[i + 1] = r[i + 1] \o q[0]
    BY <1>1, <1>3, Zenon
  <2>2. r[i] = ss[i + 1] \o r[i + 1]
    BY Zenon DEF Follows
  <2>3. (ss[i + 1] \o r[i + 1]) \o q[0] = ss[i + 1] \o (r[i + 1] \o q[0])
    BY Zenon DEF Associate
  <2> QED BY <2>1, <2>2, <2>3, Zenon
<1>9. ASSUME NEW k \in 0 .. m - 1 PROVE w[n + k] = uu[n + (k + 1)] \o w[n + (k + 1)]
  <2>1. q[k] = tt[k + 1] \o q[k + 1]
    BY Zenon DEF Follows
  <2>2. w[n + (k + 1)] = q[k + 1]
    BY <1>2, <1>3, Zenon
  <2>3. w[n + k] = q[k]
    BY <1>2, <1>5, <1>6, <1>7, Zenon
  <2> QED BY <2>1, <2>2, <2>3, Zenon
<1>10. ASSUME NEW i \in 0 .. (n + m) - 1 PROVE w[i] = uu[i + 1] \o w[i + 1]
  BY <1>4, <1>8, <1>9, Zenon
<1> QED BY <1>10, Zenon DEF Follows

\* The first of the sequences, and then the others.
LEMMA FlattenHead ==
    ASSUME NEW S, NEW ss \in Seq(Seq(S)), ss # <<>>
    PROVE  FlattenSeq(ss) = Head(ss) \o FlattenSeq(Tail(ss))
<1>1. Len(ss) \in Nat \ {0}
  BY LenProperties, EmptySeq
<1>2. PICK n \in Nat : Len(ss) = n + 1
  <2>1. \A k \in Nat \ {0} : \E n \in Nat : k = n + 1
    <3> TAKE k \in Nat \ {0}
    <3>1. k - 1 \in Nat /\ k = (k - 1) + 1
      OBVIOUS
    <3> QED BY <3>1
  <2> QED BY <1>1, <2>1, Zenon
<1>3. PICK t : t = Tail(ss)
  OBVIOUS
<1>4. t \in Seq(Seq(S)) /\ Len(t) = n /\ \A k \in 1 .. n : t[k] = ss[k + 1]
  BY <1>2, <1>3, HeadTailProperties
<1>5. PICK r : r \in [0 .. n + 1 -> Seq(S)] /\ IsRest(r, ss)
  BY <1>2, RestExists
<1>6. r[n + 1] = <<>> /\ \A i \in 0 .. n : r[i] = ss[i + 1] \o r[i + 1]
  <2>1. PICK m \in Nat : m = n + 1 /\ m - 1 = n
    OBVIOUS
  <2>2. r[m] = <<>> /\ Follows(r, ss, m)
    BY <1>2, <1>5, <2>1, RestIs, Zenon
  <2>3. \A i \in 0 .. m - 1 : r[i] = ss[i + 1] \o r[i + 1]
    BY <2>2, Zenon DEF Follows
  <2> QED BY <2>1, <2>2, <2>3, Zenon
<1>7. PICK q : q = [k \in 0 .. n |-> r[k + 1]]
  OBVIOUS
<1>8. q \in [0 .. n -> Seq(S)]
  <2>1. \A k \in 0 .. n : r[k + 1] \in Seq(S)
    BY <1>5
  <2> QED BY <1>7, <2>1
<1>9. IsRest(q, t)
  <2>1. q[n] = <<>>
    BY <1>6, <1>7
  <2>2. \A i \in 0 .. n - 1 : q[i] = t[i + 1] \o q[i + 1]
    <3>1. \A i \in 0 .. n - 1 : i + 1 \in 0 .. n /\ i + 1 \in 1 .. n /\ i \in 0 .. n
      OBVIOUS
    <3>2. \A i \in 0 .. n : q[i] = r[i + 1]
      BY <1>7
    <3>3. \A k \in 1 .. n : t[k] = ss[k + 1]
      BY <1>4
    <3>4. \A i \in 0 .. n : r[i] = ss[i + 1] \o r[i + 1]
      BY <1>6
    <3> TAKE i \in 0 .. n - 1
    <3>5. q[i] = r[i + 1] /\ q[i + 1] = r[i + 1 + 1] /\ t[i + 1] = ss[i + 1 + 1]
      BY <3>1, <3>2, <3>3, Zenon
    <3>6. r[i + 1] = ss[i + 1 + 1] \o r[i + 1 + 1]
      BY <3>1, <3>4, Zenon
    <3> QED BY <3>5, <3>6, Zenon
  <2>3. Follows(q, t, n)
    BY <2>2, Zenon DEF Follows
  <2> QED BY <1>4, <2>1, <2>3, RestIs, Zenon
<1>10. FlattenSeq(t) = q[0] /\ FlattenSeq(ss) = r[0]
  BY <1>2, <1>4, <1>5, <1>8, <1>9, FlattenIsRest
<1>11. q[0] = r[0 + 1] /\ 0 \in 0 .. n /\ 0 + 1 = 1
  BY <1>7
<1>12. r[0] = ss[1] \o r[1]
  <2>1. r[0] = ss[0 + 1] \o r[0 + 1]
    BY <1>6, <1>11, Zenon
  <2> QED BY <1>11, <2>1, Zenon
<1>13. Head(ss) = ss[1]
  BY DEF Head
<1> QED BY <1>3, <1>10, <1>11, <1>12, <1>13, Zenon

IsConcat(z, x, y, T) ==
    /\ z \in Seq(T) /\ Len(z) = Len(x) + Len(y)
    /\ \A i \in 1 .. Len(x) : z[i] = x[i]
    /\ \A i \in 1 .. Len(y) : z[Len(x) + i] = y[i]

LEMMA ConcatIs ==
    ASSUME NEW T, NEW x \in Seq(T), NEW y \in Seq(T)
    PROVE  IsConcat(x \o y, x, y, T)
  BY ConcatHas DEF IsConcat

LEMMA FlattenConcat ==
    ASSUME NEW S, NEW ss \in Seq(Seq(S)), NEW tt \in Seq(Seq(S))
    PROVE  FlattenSeq(ss \o tt) = FlattenSeq(ss) \o FlattenSeq(tt)
<1>1. PICK n \in Nat, m \in Nat : Len(ss) = n /\ Len(tt) = m
  BY LenProperties
<1>2. PICK uu : uu = ss \o tt
  OBVIOUS
<1>3. /\ uu \in Seq(Seq(S)) /\ Len(uu) = n + m
      /\ \A k \in 1 .. n : uu[k] = ss[k]
      /\ \A k \in 1 .. m : uu[n + k] = tt[k]
  <2>1. /\ uu \in Seq(Seq(S)) /\ Len(uu) = Len(ss) + Len(tt)
        /\ \A k \in 1 .. Len(ss) : uu[k] = ss[k]
        /\ \A k \in 1 .. Len(tt) : uu[Len(ss) + k] = tt[k]
    <3>1. IsConcat(ss \o tt, ss, tt, Seq(S))
      BY ConcatIs, Zenon
    <3>2. IsConcat(uu, ss, tt, Seq(S))
      BY <1>2, <3>1, Zenon
    <3> QED BY <3>2, Zenon DEF IsConcat
  <2> QED BY <1>1, <2>1, Zenon
<1>4. PICK r : r \in [0 .. n -> Seq(S)] /\ IsRest(r, ss)
  BY <1>1, RestExists
<1>5. PICK q : q \in [0 .. m -> Seq(S)] /\ IsRest(q, tt)
  BY <1>1, RestExists
<1>6. r[n] = <<>> /\ Follows(r, ss, n)
  BY <1>1, <1>4, RestIs, Zenon
<1>7. q[m] = <<>> /\ Follows(q, tt, m)
  BY <1>1, <1>5, RestIs, Zenon
<1>8. (\A k \in 0 .. n : r[k] \in Seq(S)) /\ (\A k \in 0 .. m : q[k] \in Seq(S)) /\ q[0] \in Seq(S)
  BY <1>4, <1>5
<1>9. \A k \in 1 .. n : ss[k] \in Seq(S)
  BY <1>1, ElementOfSeq
<1>10. (\A i \in 0 .. n - 1 : i + 1 \in 0 .. n /\ i + 1 \in 1 .. n) /\ (\A i \in 0 .. m - 1 : i + 1 \in 1 .. m)
       /\ n \in 0 .. n /\ 0 \in 0 .. n /\ n + m \in Nat /\ (m = 0 => n + m = n) /\ (m # 0 => m \in 1 .. m)
  OBVIOUS
<1>11. r[n] \o q[0] = q[0]
  BY <1>6, <1>8, ConcatEmptySeq
<1>12. Associate(r, ss, q[0], n)
  <2>1. \A x, y, z \in Seq(S) : (x \o y) \o z = x \o (y \o z)
    BY Associates
  <2>2. ASSUME NEW i \in 0 .. n - 1 PROVE ss[i + 1] \in Seq(S) /\ r[i + 1] \in Seq(S)
    BY <1>8, <1>9, <1>10, Zenon
  <2>3. ASSUME NEW i \in 0 .. n - 1
        PROVE  (ss[i + 1] \o r[i + 1]) \o q[0] = ss[i + 1] \o (r[i + 1] \o q[0])
    BY <1>8, <2>1, <2>2, Zenon
  <2> QED BY <2>3, Zenon DEF Associate
<1>13. (\A i \in 0 .. n - 1 : uu[i + 1] = ss[i + 1]) /\ (\A i \in 0 .. m - 1 : uu[n + (i + 1)] = tt[i + 1])
  BY <1>3, <1>10, Zenon
<1> DEFINE w == JoinedRests(r, q, n, m)
<1>14. /\ \A k \in 0 .. n : w[k] = r[k] \o q[0]
       /\ \A k \in 1 .. m : w[n + k] = q[k]
  <2>1. Joins(w, r, q, n, m)
    BY JoinedIs, Zenon
  <2> QED BY <2>1, Zenon DEF Joins
<1>15. w[n] = q[0]
  BY <1>10, <1>11, <1>14, Zenon
<1>16. w[n + m] = <<>>
  <2>1. CASE m = 0
    BY <1>7, <1>10, <1>15, <2>1, Zenon
  <2>2. CASE m # 0
    BY <1>7, <1>10, <1>14, <2>2, Zenon
  <2> QED BY <2>1, <2>2, Zenon
<1>17. Follows(w, uu, n + m)
  <2>1. w[n] = q[0] => Follows(w, uu, n + m)
    BY <1>6, <1>7, <1>12, <1>13, RestsJoin, Zenon
  <2> QED BY <1>15, <2>1, Zenon
<1>18. w \in [0 .. n + m -> Seq(S)]
  <2>1. \A k \in 0 .. n : r[k] \o q[0] \in Seq(S)
    <3>1. \A x, y \in Seq(S) : x \o y \in Seq(S)
      BY ConcatHas
    <3> QED BY <1>8, <3>1, Zenon
  <2>2. \A k \in 0 .. m : q[k] \in Seq(S)
    BY <1>8, Zenon
  <2>3. \A k \in 0 .. n + m : IF k <= n THEN k \in 0 .. n ELSE k - n \in 0 .. m
    OBVIOUS
  <2>4. ASSUME NEW k \in 0 .. n + m PROVE (IF k <= n THEN r[k] \o q[0] ELSE q[k - n]) \in Seq(S)
    <3>1. CASE k <= n
      BY <2>1, <2>3, <3>1, Zenon
    <3>2. CASE ~(k <= n)
      BY <2>2, <2>3, <3>2, Zenon
    <3> QED BY <3>1, <3>2, Zenon
  <2> QED BY <2>4, Zenon DEF JoinedRests
<1> HIDE DEF w
<1>19. IsRest(w, uu)
  BY <1>3, <1>10, <1>16, <1>17, RestIs, Zenon
<1>20. FlattenSeq(uu) = w[0]
  <2>1. uu \in Seq(Seq(S)) /\ w \in [0 .. Len(uu) -> Seq(S)]
    BY <1>3, <1>18, Zenon
  <2> QED BY <1>19, <2>1, FlattenIsRest, Zenon
<1>21. FlattenSeq(ss) = r[0] /\ FlattenSeq(tt) = q[0]
  BY <1>1, <1>4, <1>5, FlattenIsRest
<1>22. w[0] = r[0] \o q[0]
  BY <1>10, <1>14, Zenon
<1> QED BY <1>2, <1>20, <1>21, <1>22, Zenon

LEMMA CountDown ==
    \A n, i \in Nat : i + 1 <= n =>
        \E k : k = n - (i + 1) /\ k + 1 = n - i /\ i <= n /\ k \in 0 .. n - 1
<1> SUFFICES ASSUME NEW n \in Nat, NEW i \in Nat, i + 1 <= n
             PROVE  \E k : k = n - (i + 1) /\ k + 1 = n - i /\ i <= n /\ k \in 0 .. n - 1
  OBVIOUS
<1>1. n - (i + 1) \in 0 .. n - 1 /\ (n - (i + 1)) + 1 = n - i /\ i <= n
  OBVIOUS
<1> QED BY <1>1

\* A concatenation of sequences of which all but one are empty.
LEMMA FlattenSole ==
    ASSUME NEW S, NEW ss \in Seq(Seq(S)), NEW j \in 1 .. Len(ss),
           \A i \in 1 .. Len(ss) : i # j => ss[i] = <<>>
    PROVE  FlattenSeq(ss) = ss[j]
<1>1. PICK n \in Nat : n = Len(ss)
  BY LenProperties
<1>2. PICK r \in [0 .. n -> Seq(S)] : IsRest(r, ss) /\ FlattenSeq(ss) = r[0]
  BY <1>1, RestExists, FlattenIsRest
<1>3. r[n] = <<>> /\ Follows(r, ss, n)
  BY <1>1, <1>2, RestIs
<1>4. PICK x : x = ss[j] /\ x \in Seq(S)
  BY ElementOfSeq
<1>5. x \o <<>> = x
  BY <1>4, ConcatEmptySeq
<1>6. \A y \in Seq(S) : <<>> \o y = y
  BY ConcatEmptySeq
<1> DEFINE Rest(k) == IF k >= j THEN <<>> ELSE x
           P == {i \in Nat : i <= n => r[n - i] = Rest(n - i)}
<1>7. 0 \in P
  <2>1. n - 0 = n /\ n >= j /\ n \in Nat
    BY <1>1
  <2> QED BY <1>3, <2>1
<1>8. \A k \in 0 .. n - 1 : r[k + 1] = Rest(k + 1) => r[k] = Rest(k)
  <2> SUFFICES ASSUME NEW k \in 0 .. n - 1, r[k + 1] = Rest(k + 1) PROVE r[k] = Rest(k)
    OBVIOUS
  <2>1. r[k] = ss[k + 1] \o r[k + 1]
    BY <1>3, Zenon DEF Follows
  <2>2. CASE k + 1 = j
    <3>1. k + 1 >= j /\ ~(k >= j)
      BY <2>2
    <3> QED BY <1>4, <1>5, <1>8, <2>1, <2>2, <3>1, Zenon
  <2>3. CASE k + 1 # j
    <3>1. ss[k + 1] = <<>>
      BY <1>1, <2>3
    <3>2. Rest(k + 1) = Rest(k) /\ Rest(k) \in Seq(S)
      <4>1. k + 1 >= j <=> k >= j
        BY <1>1, <2>3
      <4> QED BY <1>4, <4>1, EmptySeq, Zenon
    <3> QED BY <1>6, <2>1, <3>1, <3>2, Zenon
  <2> QED BY <2>2, <2>3
<1> HIDE DEF Rest
<1>9. ASSUME NEW i \in Nat, i \in P PROVE i + 1 \in P
  <2> SUFFICES ASSUME i + 1 <= n PROVE r[n - (i + 1)] = Rest(n - (i + 1))
    OBVIOUS
  <2>1. PICK k : k = n - (i + 1) /\ k + 1 = n - i /\ i <= n /\ k \in 0 .. n - 1
    BY CountDown, Zenon
  <2>2. r[k + 1] = Rest(k + 1)
    BY <1>9, <2>1
  <2> QED BY <1>8, <2>1, <2>2
<1> HIDE DEF P
<1>10. n \in P
  BY <1>7, <1>9, NumberInduction
<1>11. r[0] = x
  <2>1. n <= n /\ n - n = 0 /\ ~(0 >= j)
    BY <1>1
  <2>2. r[n - n] = Rest(n - n)
    BY <1>10, <2>1 DEF P
  <2>3. r[0] = Rest(0)
    BY <2>1, <2>2
  <2> QED BY <2>1, <2>3 DEF Rest
<1> QED BY <1>2, <1>4, <1>11

\* The last element of a concatenation.
LEMMA LastOfConcat ==
    ASSUME NEW S, NEW x \in Seq(S), NEW y \in Seq(S)
    PROVE  /\ x \o y = <<>> <=> x = <<>> /\ y = <<>>
           /\ y # <<>> => Last(x \o y) = Last(y)
           /\ y = <<>> => x \o y = x
<1>1. PICK n \in Nat, m \in Nat : n = Len(x) /\ m = Len(y)
  BY LenProperties
<1>2. PICK z : z = x \o y
  OBVIOUS
<1>3. z \in Seq(S) /\ Len(z) = n + m /\ \A i \in 1 .. m : z[n + i] = y[i]
  BY <1>1, <1>2, ConcatHas
<1>4. (z = <<>> <=> n + m = 0) /\ (x = <<>> <=> n = 0) /\ (y = <<>> <=> m = 0)
  <2>1. \A s \in Seq(S) : s = <<>> <=> Len(s) = 0
    BY EmptySeq
  <2> QED BY <1>1, <1>3, <2>1
<1>5. ASSUME y # <<>> PROVE Last(z) = Last(y)
  <2>1. m \in 1 .. m
    BY <1>4, <1>5
  <2> QED BY <1>1, <1>3, <2>1 DEF Last
<1>6. ASSUME y = <<>> PROVE z = x
  BY <1>2, <1>6, ConcatEmptySeq
<1> QED BY <1>2, <1>4, <1>5, <1>6

-----------------------------------------------------------------------------
\* Beginnings of a sequence.

LEMMA BeginningIs ==
    ASSUME NEW S, NEW s \in Seq(S), NEW i \in 0 .. Len(s)
    PROVE  SubSeq(s, 1, i) \in Seq(S) /\ Len(SubSeq(s, 1, i)) = i
           /\ \A j \in 1 .. i : SubSeq(s, 1, i)[j] = s[j]
<1>1. PICK n \in Nat : n = Len(s)
  BY LenProperties
<1>2. i \in Int /\ 1 \in Int /\ \A j \in 1 .. i : s[j] \in S
  BY <1>1, ElementOfSeq
<1>3. PICK t : t = SubSeq(s, 1, i)
  OBVIOUS
<1>4. /\ t \in Seq(S) /\ Len(t) = (IF 1 <= i THEN i - 1 + 1 ELSE 0)
      /\ \A j \in 1 .. i - 1 + 1 : t[j] = s[1 + j - 1]
  BY <1>2, <1>3, SubSeqProperties
<1>5. (i - 1) + 1 = i /\ \A j \in 1 .. i : (1 + j) - 1 = j
  BY <1>1
<1>6. \A j \in 1 .. i : t[j] = s[j]
  BY <1>4, <1>5
<1>7. Len(t) = i
  BY <1>1, <1>4
<1> QED BY <1>3, <1>4, <1>6, <1>7

\* Sequences that begin alike have the same beginnings.
LEMMA BeginningSame ==
    ASSUME NEW S, NEW x \in Seq(S), NEW y \in Seq(S), NEW i \in 0 .. Len(x), i \in 0 .. Len(y),
           \A j \in 1 .. i : x[j] = y[j]
    PROVE  SubSeq(x, 1, i) = SubSeq(y, 1, i)
<1>1. PICK s, t : s = SubSeq(x, 1, i) /\ t = SubSeq(y, 1, i)
  OBVIOUS
<1>2. s \in Seq(S) /\ Len(s) = i /\ \A j \in 1 .. i : s[j] = x[j]
  BY <1>1, BeginningIs
<1>3. t \in Seq(S) /\ Len(t) = i /\ \A j \in 1 .. i : t[j] = y[j]
  BY <1>1, BeginningIs
<1>4. s = t
  BY <1>2, <1>3, SameElements
<1> QED BY <1>1, <1>4

LEMMA BeginningAll ==
    ASSUME NEW S, NEW s \in Seq(S)
    PROVE  SubSeq(s, 1, Len(s)) = s
<1>1. PICK n \in Nat : n = Len(s)
  BY LenProperties
<1>2. PICK t : t = SubSeq(s, 1, n)
  OBVIOUS
<1>3. t \in Seq(S) /\ Len(t) = n /\ \A j \in 1 .. n : t[j] = s[j]
  BY <1>1, <1>2, BeginningIs
<1>4. t = s
  BY <1>1, <1>3, SameElements
<1> QED BY <1>1, <1>2, <1>4
-----------------------------------------------------------------------------
\* What a concatenation is, and its middle part.

LEMMA ConcatMeets ==
    ASSUME NEW S, NEW a \in Seq(S), NEW b \in Seq(S), NEW c \in Seq(S), NEW m \in Nat, NEW n \in Nat,
           Len(a) = m, Len(b) = n, Len(c) = m + n,
           \A i \in 1 .. m : c[i] = a[i], \A i \in 1 .. n : c[m + i] = b[i]
    PROVE  a \o b = c
<1>1. /\ a \o b \in Seq(S) /\ Len(a \o b) = m + n
      /\ \A i \in 1 .. m + n : (a \o b)[i] = IF i <= m THEN a[i] ELSE b[i - m]
  BY ConcatProperties
<1>2. ASSUME NEW i \in 1 .. m + n PROVE (a \o b)[i] = c[i]
  <2>1. CASE i <= m
    BY <1>1, <2>1
  <2>2. CASE ~(i <= m)
    <3>1. i - m \in 1 .. n /\ m + (i - m) = i
      BY <2>2
    <3> QED BY <1>1, <2>2, <3>1
  <2> QED BY <2>1, <2>2
<1> QED BY <1>1, <1>2, SeqEqual

LEMMA HeadAndTail ==
    ASSUME NEW S, NEW s \in Seq(S), s # <<>>
    PROVE  s = <<Head(s)>> \o Tail(s)
<1>1. PICK n \in Nat : n = Len(s) - 1 /\ Len(s) = 1 + n
  BY LenProperties, EmptySeq
<1>2. /\ Head(s) \in S /\ Head(s) = s[1] /\ Tail(s) \in Seq(S) /\ Len(Tail(s)) = n
      /\ \A i \in 1 .. n : Tail(s)[i] = s[i + 1]
  BY <1>1, HeadTailProperties
<1>3. <<Head(s)>> \in Seq(S) /\ Len(<<Head(s)>>) = 1 /\ \A i \in 1 .. 1 : <<Head(s)>>[i] = s[i]
  BY <1>2
<1>4. \A i \in 1 .. n : s[1 + i] = Tail(s)[i]
  BY <1>1, <1>2
<1> DEFINE a == <<Head(s)>>
           b == Tail(s)
<1>5. /\ a \in Seq(S) /\ b \in Seq(S) /\ Len(a) = 1 /\ Len(b) = n
      /\ \A i \in 1 .. 1 : s[i] = a[i]
      /\ \A i \in 1 .. n : s[1 + i] = b[i]
  BY <1>2, <1>3, <1>4
<1> HIDE DEF a, b
<1>6. a \in Seq(S) /\ b \in Seq(S) /\ s \in Seq(S)
  BY <1>5
<1>7. \A k, m \in Nat : Len(a) = k /\ Len(b) = m /\ Len(s) = k + m
                       /\ (\A i \in 1 .. k : s[i] = a[i]) /\ (\A i \in 1 .. m : s[k + i] = b[i])
                       => a \o b = s
  BY <1>6, ConcatMeets
<1>8. a \o b = s
  BY <1>1, <1>5, <1>7
<1> QED BY <1>8 DEF a, b

LEMMA OneAndThree ==
    ASSUME NEW x, NEW y, NEW z, NEW w
    PROVE  <<x>> \o <<y, z, w>> = <<x, y, z, w>>
<1> DEFINE S == {x, y, z, w}
           a == <<x>>
           b == <<y, z, w>>
           c == <<x, y, z, w>>
<1>1. /\ a \in Seq(S) /\ b \in Seq(S) /\ c \in Seq(S) /\ Len(a) = 1 /\ Len(b) = 3 /\ Len(c) = 1 + 3
      /\ c[1] = a[1] /\ c[2] = b[1] /\ c[3] = b[2] /\ c[4] = b[3]
  OBVIOUS
<1> HIDE DEF a, b, c, S
<1>2. /\ \A i \in 1 .. 1 : c[i] = a[i]
      /\ \A i \in 1 .. 3 : c[1 + i] = b[i]
  BY <1>1
<1>3. PICK T : a \in Seq(T) /\ b \in Seq(T) /\ c \in Seq(T)
  BY <1>1
<1>4. \A m, n \in Nat : Len(a) = m /\ Len(b) = n /\ Len(c) = m + n
                       /\ (\A i \in 1 .. m : c[i] = a[i]) /\ (\A i \in 1 .. n : c[m + i] = b[i])
                       => a \o b = c
  BY <1>3, ConcatMeets
<1>5. a \o b = c
  BY <1>1, <1>2, <1>4
<1> QED BY <1>5 DEF a, b, c

LEMMA OneAndFour ==
    ASSUME NEW x, NEW y, NEW z, NEW w, NEW v
    PROVE  <<x>> \o <<y, z, w, v>> = <<x, y, z, w, v>>
<1> DEFINE S == {x, y, z, w, v}
           a == <<x>>
           b == <<y, z, w, v>>
           c == <<x, y, z, w, v>>
<1>1. /\ a \in Seq(S) /\ b \in Seq(S) /\ c \in Seq(S) /\ Len(a) = 1 /\ Len(b) = 4 /\ Len(c) = 1 + 4
      /\ c[1] = a[1] /\ c[2] = b[1] /\ c[3] = b[2] /\ c[4] = b[3] /\ c[5] = b[4]
  OBVIOUS
<1> HIDE DEF a, b, c, S
<1>2. /\ \A i \in 1 .. 1 : c[i] = a[i]
      /\ \A i \in 1 .. 4 : c[1 + i] = b[i]
  BY <1>1
<1>3. PICK T : a \in Seq(T) /\ b \in Seq(T) /\ c \in Seq(T)
  BY <1>1
<1>4. \A m, n \in Nat : Len(a) = m /\ Len(b) = n /\ Len(c) = m + n
                       /\ (\A i \in 1 .. m : c[i] = a[i]) /\ (\A i \in 1 .. n : c[m + i] = b[i])
                       => a \o b = c
  BY <1>3, ConcatMeets
<1>5. a \o b = c
  BY <1>1, <1>2, <1>4
<1> QED BY <1>5 DEF a, b, c

IsMiddle(x, y, z) == SubSeq((x \o y) \o z, Len(x) + 1, Len(x) + Len(y)) = y

LEMMA MiddleIs ==
    ASSUME NEW S, NEW x \in Seq(S), NEW y \in Seq(S), NEW z \in Seq(S)
    PROVE  IsMiddle(x, y, z)
<1>0. PICK m \in Nat, n \in Nat : m = Len(x) /\ n = Len(y)
  BY LenProperties
<1>1. PICK t : t = (x \o y) \o z
  OBVIOUS
<1>2. PICK v : v = x \o y
  OBVIOUS
<1>3. v \in Seq(S) /\ Len(v) = m + n /\ \A i \in 1 .. n : v[m + i] = y[i]
  BY <1>0, <1>2, ConcatHas
<1>4. t \in Seq(S) /\ \A i \in 1 .. m + n : t[i] = v[i]
  BY <1>1, <1>2, <1>3, ConcatHas
<1>5. ASSUME NEW i \in 1 .. n PROVE m + i \in 1 .. m + n /\ m + i = (m + 1) + i - 1 /\ t[m + i] = y[i] /\ y[i] \in S
  <2>1. m + i \in 1 .. m + n /\ m + i = (m + 1) + i - 1
    OBVIOUS
  <2> QED BY <1>3, <1>4, <2>1
<1>6. ASSUME NEW i \in m + 1 .. m + n PROVE t[i] \in S
  <2>1. i - m \in 1 .. n /\ m + (i - m) = i
    OBVIOUS
  <2> QED BY <1>5, <2>1
<1>7. PICK u : u = SubSeq(t, m + 1, m + n)
  OBVIOUS
<1>8. /\ u \in Seq(S) /\ Len(u) = (IF m + 1 <= m + n THEN (m + n) - (m + 1) + 1 ELSE 0)
      /\ \A i \in 1 .. (m + n) - (m + 1) + 1 : u[i] = t[(m + 1) + i - 1]
  <2>1. m + 1 \in Int /\ m + n \in Int
    OBVIOUS
  <2> QED BY <1>6, <1>7, <2>1, SubSeqProperties
<1>9. Len(u) = n /\ \A i \in 1 .. n : u[i] = y[i]
  <2>1. (m + n) - (m + 1) + 1 = n /\ (m + 1 <= m + n <=> n # 0)
    OBVIOUS
  <2> QED BY <1>5, <1>8, <2>1
<1>10. u = y
  BY <1>0, <1>8, <1>9, SameElements
<1> QED BY <1>0, <1>1, <1>7, <1>10 DEF IsMiddle
=============================================================================
