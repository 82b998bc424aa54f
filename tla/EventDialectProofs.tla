------------------------- MODULE EventDialectProofs -------------------------
(***************************************************************************)
(* What the event parser accepts is a sentence of its dialect, for every   *)
(* alphabet, every length of a text and any nesting.                       *)
(*                                                                         *)
(* The argument is about what a text may still become.  A goal is a set of *)
(* texts; each array or object in progress is within one, from the whole   *)
(* text's at the bottom, and what was read so far is such that whatever    *)
(* the grammar allows behind it makes a text of the innermost goal.        *)
(***************************************************************************)
EXTENDS EventDialect, EventParserProofs

-----------------------------------------------------------------------------
\* The grammar, whose definition is a recursive function.

Short(g, n) == IF n = 0 THEN <<>> ELSE g[n - 1]
IsTable(g, m) == g = [n \in 0 .. m |-> Append(Short(g, n), Entry(Short(g, n), n))]

LEMMA TableExists ==
    ASSUME NEW m \in Nat
    PROVE  \E g : IsTable(g, m)
<1> DEFINE P == {k \in Nat : \E g : IsTable(g, k)}
<1>1. 0 \in P
  <2> DEFINE g == [n \in 0 .. 0 |-> Append(<<>>, Entry(<<>>, n))]
  <2>1. g = [n \in 0 .. 0 |-> Append(Short(g, n), Entry(Short(g, n), n))]
    BY DEF Short
  <2> QED BY <2>1 DEF IsTable
<1>2. ASSUME NEW k \in Nat, k \in P PROVE k + 1 \in P
  <2>1. PICK g : IsTable(g, k)
    BY <1>2
  <2> DEFINE x == Append(g[k], Entry(g[k], k + 1))
             h == [n \in 0 .. k + 1 |-> IF n = k + 1 THEN x ELSE g[n]]
  <2>2. ASSUME NEW n \in 0 .. k + 1
        PROVE  h[n] = Append(Short(h, n), Entry(Short(h, n), n))
    <3>1. CASE n = k + 1
      <4>1. h[n] = x /\ Short(h, n) = g[k]
        BY <3>1 DEF Short
      <4> HIDE DEF h
      <4> QED BY <3>1, <4>1
    <3>2. CASE n \in 0 .. k
      <4>1. h[n] = g[n] /\ Short(h, n) = Short(g, n)
        BY <3>2 DEF Short
      <4>2. g[n] = Append(Short(g, n), Entry(Short(g, n), n))
        BY <2>1, <3>2, Zenon DEF IsTable
      <4> HIDE DEF h
      <4> QED BY <4>1, <4>2, Zenon
    <3> HIDE DEF h
    <3> QED BY <3>1, <3>2
  <2>3. DOMAIN h = 0 .. k + 1 /\ h = [n \in 0 .. k + 1 |-> h[n]]
    OBVIOUS
  <2> HIDE DEF h
  <2>4. h = [n \in 0 .. k + 1 |-> Append(Short(h, n), Entry(Short(h, n), n))]
    BY <2>2, <2>3
  <2>5. IsTable(h, k + 1)
    BY <2>4, Zenon DEF IsTable
  <2> QED BY <2>5
<1> HIDE DEF P
<1>3. m \in P
  BY <1>1, <1>2, NumberInduction
<1> QED BY <1>3 DEF P

LEMMA GrammarIsTable == IsTable(Grammar, MaxChars)
<1> DEFINE Q(g) == g = [n \in 0 .. MaxChars |-> LET short == IF n = 0 THEN <<>> ELSE g[n - 1]
                                               IN Append(short, Entry(short, n))]
<1>1. Grammar = CHOOSE g : Q(g)
  BY DEF Grammar
<1>2. \E g : Q(g)
  BY TableExists, BoundsAssumption DEF IsTable, Short
<1> HIDE DEF Q
<1>3. Q(Grammar)
  BY <1>1, <1>2, Zenon
<1> QED BY <1>3 DEF Q, IsTable, Short

\* The sentences of length n.
At(n) == Grammar[n][n + 1]

LEMMA TableShape ==
    ASSUME NEW n \in 0 .. MaxChars
    PROVE  /\ Len(Grammar[n]) = n + 1 /\ DOMAIN Grammar[n] = 1 .. n + 1
           /\ \A k \in 0 .. n : Grammar[n][k + 1] = At(k)
           /\ At(n) = Entry(Short(Grammar, n), n)
<1> DEFINE U == {Entry(Short(Grammar, k), k) : k \in 0 .. MaxChars}
           Good(k) == /\ Grammar[k] \in Seq(U) /\ Len(Grammar[k]) = k + 1
                      /\ At(k) = Entry(Short(Grammar, k), k)
                      /\ \A j \in 0 .. k : Grammar[k][j + 1] = At(j)
           P == {k \in Nat : k <= MaxChars => Good(k)}
<1>1. ASSUME NEW k \in 0 .. MaxChars
      PROVE  /\ Grammar[k] = Append(Short(Grammar, k), Entry(Short(Grammar, k), k))
             /\ Entry(Short(Grammar, k), k) \in U
  <2>1. Grammar[k] = Append(Short(Grammar, k), Entry(Short(Grammar, k), k))
    BY GrammarIsTable, Zenon DEF IsTable
  <2> QED BY <2>1
<1> HIDE DEF U
<1>2. 0 \in P
  <2>1. /\ Short(Grammar, 0) = <<>> /\ Grammar[0] = Append(<<>>, Entry(<<>>, 0)) /\ Entry(<<>>, 0) \in U
    BY <1>1, BoundsAssumption DEF Short
  <2>2. <<>> \in Seq(U) /\ Len(<<>>) = 0
    BY EmptySeq
  <2>3. Grammar[0] \in Seq(U) /\ Len(Grammar[0]) = 1 /\ Grammar[0][1] = Entry(<<>>, 0)
    <3> DEFINE e == Entry(<<>>, 0)
    <3> HIDE DEF e
    <3> QED BY <2>1, <2>2, AppendProperties DEF e
  <2>4. At(0) = Entry(<<>>, 0)
    BY <2>3 DEF At
  <2>5. Good(0)
    BY <2>1, <2>3, <2>4
  <2> QED BY <2>5
<1>3. ASSUME NEW k \in Nat, k \in P PROVE k + 1 \in P
  <2> SUFFICES ASSUME k + 1 <= MaxChars PROVE Good(k + 1)
    OBVIOUS
  <2>1. Good(k) /\ k + 1 \in 0 .. MaxChars /\ k + 1 # 0 /\ k + 1 - 1 = k
    BY <1>3, BoundsAssumption
  <2> DEFINE e == Entry(Short(Grammar, k + 1), k + 1)
  <2>2. Short(Grammar, k + 1) = Grammar[k]
    BY <2>1 DEF Short
  <2>3. Grammar[k + 1] = Append(Grammar[k], e) /\ e \in U
    BY <1>1, <2>1, <2>2
  <2> HIDE DEF e
  <2>4. /\ Grammar[k + 1] \in Seq(U) /\ Len(Grammar[k + 1]) = k + 2 /\ Grammar[k + 1][k + 2] = e
        /\ \A j \in 1 .. k + 1 : Grammar[k + 1][j] = Grammar[k][j]
    BY <2>1, <2>3, AppendProperties
  <2>5. At(k + 1) = e
    BY <2>4 DEF At
  <2>6. \A j \in 0 .. k + 1 : Grammar[k + 1][j + 1] = At(j)
    <3> SUFFICES ASSUME NEW j \in 0 .. k + 1 PROVE Grammar[k + 1][j + 1] = At(j)
      OBVIOUS
    <3>1. CASE j = k + 1
      BY <2>4, <2>5, <3>1
    <3>2. CASE j \in 0 .. k
      BY <2>1, <2>4, <3>2
    <3> QED BY <3>1, <3>2
  <2> QED BY <2>4, <2>5, <2>6 DEF e
<1> HIDE DEF P
<1>4. Nat \subseteq P
  BY <1>2, <1>3, NumberInduction
<1>5. n \in Nat /\ n \in P /\ n <= MaxChars
  BY <1>4, BoundsAssumption
<1> QED BY <1>5, LenProperties DEF P

\* The sentences of all lengths are among those of the last table.
LEMMA AtInDocuments ==
    ASSUME NEW n \in 0 .. MaxChars, NEW u \in At(n).documents
    PROVE  u \in Documents
<1> DEFINE g == Grammar[MaxChars]
<1>1. MaxChars \in 0 .. MaxChars
  BY BoundsAssumption
<1>2. DOMAIN g = 1 .. MaxChars + 1 /\ g[n + 1] = At(n)
  BY <1>1, TableShape
<1>3. n + 1 \in 1 .. MaxChars + 1
  BY BoundsAssumption
<1> HIDE DEF g
<1>4. At(n) \in Range(g)
  BY <1>2, <1>3 DEF Range
<1> QED BY <1>4 DEF Documents, g

\* One text of each of two sets, put together.
Follow(A, B) == {u \o v : u \in A, v \in B}

Together(short, n) == UNION {Follow(short[k + 1].containers, short[n - k + 1].documents) : k \in 1 .. n - 1}
Shorter(short, m) == IF m < 0 THEN None ELSE short[m + 1]

EntryMeets(e, short, n) ==
    /\ e.containers = Enclose("[", Shorter(short, n - 2).elements, "]") \cup
                          Enclose("{", Shorter(short, n - 2).members, "}")
    /\ e.padded = Strings(n) \cup Numbers(n) \cup Literals(n) \cup e.containers
                      \cup SpaceBefore(Shorter(short, n - 1).padded) \cup SpaceAfter(Shorter(short, n - 1).padded)
    /\ e.names = Names(n) \cup SpaceAfter(Shorter(short, n - 1).names)
    /\ e.member = SpaceBefore(Shorter(short, n - 1).member) \cup
               UNION {Join(short[k + 1].names, ":", short[n - k].padded) : k \in 0 .. n - 1}
    /\ e.elements = e.padded \cup
               UNION {Join(short[k + 1].padded, ",", short[n - k].elements) : k \in 0 .. n - 1}
    /\ e.members = e.member \cup
               UNION {Join(short[k + 1].member, ",", short[n - k].members) : k \in 0 .. n - 1}
    /\ e.documents = (IF n = 0 THEN {<<>>} ELSE e.containers)
               \cup SpaceBefore(Shorter(short, n - 1).documents) \cup Together(short, n)

LEMMA EntryIs ==
    ASSUME NEW short, NEW n
    PROVE  EntryMeets(Entry(short, n), short, n)
<1>1. Entry(short, n).containers = Enclose("[", Shorter(short, n - 2).elements, "]") \cup
                     Enclose("{", Shorter(short, n - 2).members, "}")
  BY DEF Entry, Shorter
<1>2. Entry(short, n).padded = Strings(n) \cup Numbers(n) \cup Literals(n) \cup Entry(short, n).containers
                 \cup SpaceBefore(Shorter(short, n - 1).padded) \cup SpaceAfter(Shorter(short, n - 1).padded)
  BY DEF Entry, Shorter
<1>3. Entry(short, n).names = Names(n) \cup SpaceAfter(Shorter(short, n - 1).names)
  BY DEF Entry, Shorter
<1>4. Entry(short, n).member = SpaceBefore(Shorter(short, n - 1).member) \cup
                 UNION {Join(short[k + 1].names, ":", short[n - k].padded) : k \in 0 .. n - 1}
  BY DEF Entry, Shorter
<1>5. Entry(short, n).elements = Entry(short, n).padded \cup
                 UNION {Join(short[k + 1].padded, ",", short[n - k].elements) : k \in 0 .. n - 1}
  BY DEF Entry
<1>6. Entry(short, n).members = Entry(short, n).member \cup
                 UNION {Join(short[k + 1].member, ",", short[n - k].members) : k \in 0 .. n - 1}
  BY DEF Entry
<1>7. Entry(short, n).documents = (IF n = 0 THEN {<<>>} ELSE Entry(short, n).containers)
                 \cup SpaceBefore(Shorter(short, n - 1).documents) \cup Together(short, n)
  <2> DEFINE X == UNION {{u \o v : u \in short[k + 1].containers, v \in short[n - k + 1].documents} : k \in 1 .. n - 1}
  <2>1. X = Together(short, n)
    BY DEF Together, Follow
  <2>2. Entry(short, n).documents = (IF n = 0 THEN {<<>>} ELSE Entry(short, n).containers)
                      \cup SpaceBefore(Shorter(short, n - 1).documents) \cup X
    BY DEF Entry, Shorter
  <2> HIDE DEF X
  <2> QED BY <2>1, <2>2
<1> QED BY <1>1, <1>2, <1>3, <1>4, <1>5, <1>6, <1>7, Zenon DEF EntryMeets

\* The rules of the grammar, without the table.
LEMMA Rules ==
    ASSUME NEW n \in 0 .. MaxChars
    PROVE  /\ n >= 2 => Enclose("[", At(n - 2).elements, "]") \subseteq At(n).containers
           /\ n >= 2 => Enclose("{", At(n - 2).members, "}") \subseteq At(n).containers
           /\ Strings(n) \cup Numbers(n) \cup Literals(n) \cup At(n).containers \subseteq At(n).padded
           /\ n >= 1 => SpaceBefore(At(n - 1).padded) \cup SpaceAfter(At(n - 1).padded) \subseteq At(n).padded
           /\ Names(n) \subseteq At(n).names
           /\ n >= 1 => SpaceAfter(At(n - 1).names) \subseteq At(n).names
           /\ n >= 1 => SpaceBefore(At(n - 1).member) \subseteq At(n).member
           /\ \A k \in 0 .. n - 1 : Join(At(k).names, ":", At(n - k - 1).padded) \subseteq At(n).member
           /\ At(n).padded \subseteq At(n).elements
           /\ \A k \in 0 .. n - 1 : Join(At(k).padded, ",", At(n - k - 1).elements) \subseteq At(n).elements
           /\ At(n).member \subseteq At(n).members
           /\ \A k \in 0 .. n - 1 : Join(At(k).member, ",", At(n - k - 1).members) \subseteq At(n).members
           /\ n = 0 => <<>> \in At(n).documents
           /\ n >= 1 => At(n).containers \cup SpaceBefore(At(n - 1).documents) \subseteq At(n).documents
           /\ \A k \in 1 .. n - 1 : Follow(At(k).containers, At(n - k).documents) \subseteq At(n).documents
<1> DEFINE short == Short(Grammar, n)
<1>1. At(n) = Entry(short, n)
  BY TableShape
<1>2. ASSUME NEW k \in 0 .. n - 1
      PROVE  short[k + 1] = At(k) /\ short[n - k] = At(n - k - 1)
  <2>1. n - 1 \in 0 .. MaxChars /\ short = Grammar[n - 1] /\ n - k - 1 \in 0 .. n - 1
    BY BoundsAssumption DEF Short
  <2> DEFINE j == n - k - 1
  <2>2. short[k + 1] = At(k) /\ short[j + 1] = At(j)
    BY <2>1, TableShape
  <2>3. j + 1 = n - k
    OBVIOUS
  <2> QED BY <2>2, <2>3
<1>0. ASSUME NEW k \in 1 .. n - 1
      PROVE  short[k + 1] = At(k) /\ short[n - k + 1] = At(n - k)
  <2>1. k \in 0 .. n - 1 /\ n - k \in 0 .. n - 1
    OBVIOUS
  <2> QED BY <1>2, <2>1
<1> HIDE DEF short
<1>3. n >= 1 => Shorter(short, n - 1) = At(n - 1)
  BY <1>2 DEF Shorter
<1>4. n >= 2 => Shorter(short, n - 2) = At(n - 2)
  <2> SUFFICES ASSUME n >= 2 PROVE Shorter(short, n - 2) = At(n - 2)
    OBVIOUS
  <2>1. n - 2 \in 0 .. n - 1 /\ ~(n - 2 < 0)
    OBVIOUS
  <2> QED BY <1>2, <2>1 DEF Shorter
<1> DEFINE e == At(n)
<1>5. e = Entry(short, n)
  BY <1>1
<1> HIDE DEF e
<1>13. EntryMeets(e, short, n)
  BY <1>5, EntryIs, Zenon
<1>6. n >= 2 => Enclose("[", At(n - 2).elements, "]") \subseteq e.containers
             /\ Enclose("{", At(n - 2).members, "}") \subseteq e.containers
  <2>1. e.containers = Enclose("[", Shorter(short, n - 2).elements, "]") \cup
                       Enclose("{", Shorter(short, n - 2).members, "}")
    BY <1>13, Zenon DEF EntryMeets
  <2> QED BY <1>4, <2>1
<1>7. /\ Strings(n) \cup Numbers(n) \cup Literals(n) \cup e.containers \subseteq e.padded
      /\ n >= 1 => SpaceBefore(At(n - 1).padded) \cup SpaceAfter(At(n - 1).padded) \subseteq e.padded
  <2>1. e.padded = Strings(n) \cup Numbers(n) \cup Literals(n) \cup e.containers
                 \cup SpaceBefore(Shorter(short, n - 1).padded) \cup SpaceAfter(Shorter(short, n - 1).padded)
    BY <1>13, Zenon DEF EntryMeets
  <2> QED BY <1>3, <2>1
<1>8. Names(n) \subseteq e.names /\ (n >= 1 => SpaceAfter(At(n - 1).names) \subseteq e.names)
  <2>1. e.names = Names(n) \cup SpaceAfter(Shorter(short, n - 1).names)
    BY <1>13, Zenon DEF EntryMeets
  <2> QED BY <1>3, <2>1
<1>9. /\ n >= 1 => SpaceBefore(At(n - 1).member) \subseteq e.member
      /\ \A k \in 0 .. n - 1 : Join(At(k).names, ":", At(n - k - 1).padded) \subseteq e.member
  <2>1. e.member = SpaceBefore(Shorter(short, n - 1).member) \cup
                 UNION {Join(short[k + 1].names, ":", short[n - k].padded) : k \in 0 .. n - 1}
    BY <1>13, Zenon DEF EntryMeets
  <2> QED BY <1>2, <1>3, <2>1
<1>10. /\ e.padded \subseteq e.elements
       /\ \A k \in 0 .. n - 1 : Join(At(k).padded, ",", At(n - k - 1).elements) \subseteq e.elements
  <2>1. e.elements = e.padded \cup
                 UNION {Join(short[k + 1].padded, ",", short[n - k].elements) : k \in 0 .. n - 1}
    BY <1>13, Zenon DEF EntryMeets
  <2> QED BY <1>2, <2>1
<1>11. /\ e.member \subseteq e.members
       /\ \A k \in 0 .. n - 1 : Join(At(k).member, ",", At(n - k - 1).members) \subseteq e.members
  <2>1. e.members = e.member \cup
                 UNION {Join(short[k + 1].member, ",", short[n - k].members) : k \in 0 .. n - 1}
    BY <1>13, Zenon DEF EntryMeets
  <2> QED BY <1>2, <2>1
<1>12. /\ n = 0 => <<>> \in e.documents
       /\ n >= 1 => e.containers \cup SpaceBefore(At(n - 1).documents) \subseteq e.documents
       /\ \A k \in 1 .. n - 1 : Follow(At(k).containers, At(n - k).documents) \subseteq e.documents
  <2>1. e.documents = (IF n = 0 THEN {<<>>} ELSE e.containers)
                 \cup SpaceBefore(Shorter(short, n - 1).documents) \cup Together(short, n)
    BY <1>13, Zenon DEF EntryMeets
  <2>2. \A k \in 1 .. n - 1 : Follow(At(k).containers, At(n - k).documents) \subseteq Together(short, n)
    BY <1>0 DEF Together
  <2> QED BY <1>3, <2>1, <2>2
<1> QED BY <1>6, <1>7, <1>8, <1>9, <1>10, <1>11, <1>12 DEF e
-----------------------------------------------------------------------------
\* Texts, put one after the other.

Texts == Seq(Alphabet)
Cat(u, v) == u \o v
Chr(c) == <<c>>
Empty == <<>>

OpenArray == Chr("[")
CloseArray == Chr("]")
OpenObject == Chr("{")
CloseObject == Chr("}")
Comma == Chr(",")
Colon == Chr(":")

\* No more than the grammar looks at.
InBound(u) == Len(u) <= MaxChars

LEMMA CatIs ==
    ASSUME NEW u \in Texts, NEW v \in Texts
    PROVE  /\ Cat(u, v) \in Texts /\ Len(Cat(u, v)) = Len(u) + Len(v)
           /\ Len(u) \in Nat /\ Len(v) \in Nat /\ Len(Cat(u, v)) \in Nat
<1>1. Cat(u, v) \in Texts /\ Len(Cat(u, v)) = Len(u) + Len(v)
  BY ConcatHas, Zenon DEF Cat, Texts
<1> QED BY <1>1, LenProperties DEF Texts

LEMMA CatAssociative ==
    ASSUME NEW u \in Texts, NEW v \in Texts, NEW w \in Texts
    PROVE  Cat(Cat(u, v), w) = Cat(u, Cat(v, w))
<1>1. \A x, y, z \in Seq(Alphabet) : (x \o y) \o z = x \o (y \o z)
  BY Associates
<1> QED BY <1>1, Zenon DEF Cat, Texts

LEMMA CatEmpty ==
    ASSUME NEW u \in Texts
    PROVE  Empty \in Texts /\ Len(Empty) = 0 /\ Cat(u, Empty) = u /\ Cat(Empty, u) = u
<1>1. Empty \in Texts /\ Len(Empty) = 0
  BY EmptySeq DEF Empty, Texts
<1>2. u \o <<>> = u /\ <<>> \o u = u
  BY ConcatEmptySeq DEF Texts
<1> QED BY <1>1, <1>2, Zenon DEF Cat, Empty

LEMMA ChrIs ==
    ASSUME NEW c \in Alphabet
    PROVE  Chr(c) \in Texts /\ Len(Chr(c)) = 1
BY DEF Chr, Texts

LEMMA CharacterOf ==
    ASSUME NEW c, Chr(c) \in Texts
    PROVE  c \in Alphabet
<1>1. <<c>> \in Seq(Alphabet)
  BY DEF Chr, Texts
<1> QED BY <1>1

LEMMA MarksAre ==
    /\ Len(OpenArray) = 1 /\ Len(CloseArray) = 1 /\ Len(OpenObject) = 1 /\ Len(CloseObject) = 1
    /\ Len(Comma) = 1 /\ Len(Colon) = 1
BY DEF OpenArray, CloseArray, OpenObject, CloseObject, Comma, Colon, Chr

\* What goes before, and after, something that is in bounds is so.
LEMMA PartInBound ==
    ASSUME NEW u \in Texts, NEW v \in Texts, InBound(Cat(u, v))
    PROVE  InBound(u) /\ InBound(v)
BY CatIs, BoundsAssumption DEF InBound

LEMMA LengthIs ==
    ASSUME NEW u \in Texts, InBound(u)
    PROVE  Len(u) \in 0 .. MaxChars /\ Len(u) \in Nat /\ Len(u) <= MaxChars
BY LenProperties, BoundsAssumption DEF InBound, Texts

\* The operators of the grammar.

LEMMA SpaceWord ==
    ASSUME NEW c \in Alphabet, c \in Whitespace
    PROVE  <<c>> \in Words(Whitespace, 1)
BY DEF Words

LEMMA SpaceAfterHas ==
    ASSUME NEW S, NEW u \in S, NEW c \in Alphabet, c \in Whitespace
    PROVE  Cat(u, Chr(c)) \in SpaceAfter(S)
<1>1. PICK s \in Words(Whitespace, 1) : s = <<c>>
  BY SpaceWord
<1>2. Cat(u, s) \in SpaceAfter(S)
  BY DEF SpaceAfter, Cat
<1> QED BY <1>1, <1>2, Zenon DEF Chr

LEMMA SpaceBeforeHas ==
    ASSUME NEW S, NEW u \in S, NEW c \in Alphabet, c \in Whitespace
    PROVE  Cat(Chr(c), u) \in SpaceBefore(S)
<1>1. PICK s \in Words(Whitespace, 1) : s = <<c>>
  BY SpaceWord
<1>2. Cat(s, u) \in SpaceBefore(S)
  BY DEF SpaceBefore, Cat
<1> QED BY <1>1, <1>2, Zenon DEF Chr

LEMMA JoinHas ==
    ASSUME NEW S, NEW T, NEW u \in S, NEW v \in T, NEW c \in Alphabet
    PROVE  Cat(Cat(u, Chr(c)), v) \in Join(S, c, T)
<1>1. Join(S, c, T) = {x \o <<c>> \o y : x \in S, y \in T}
  BY DEF Join
<1> QED BY <1>1 DEF Cat, Chr

LEMMA EncloseHas ==
    ASSUME NEW S, NEW u \in S, NEW o \in Alphabet, NEW c \in Alphabet
    PROVE  Cat(Cat(Chr(o), u), Chr(c)) \in Enclose(o, S, c)
<1>1. Enclose(o, S, c) = {<<o>> \o x \o <<c>> : x \in S}
  BY DEF Enclose
<1> QED BY <1>1, Zenon DEF Cat, Chr

LEMMA FollowHas ==
    ASSUME NEW S, NEW T, NEW u \in S, NEW v \in T
    PROVE  Cat(u, v) \in Follow(S, T)
BY DEF Follow, Cat
-----------------------------------------------------------------------------
\* The kinds of sentences, and the rules of the grammar for what is in bounds.

Containers == {u \in Texts : InBound(u) /\ u \in At(Len(u)).containers}
Padded == {u \in Texts : InBound(u) /\ u \in At(Len(u)).padded}
Named == {u \in Texts : InBound(u) /\ u \in At(Len(u)).names}
Elements == {u \in Texts : InBound(u) /\ u \in At(Len(u)).elements}
Member == {u \in Texts : InBound(u) /\ u \in At(Len(u)).member}
Members == {u \in Texts : InBound(u) /\ u \in At(Len(u)).members}
Sentences == {u \in Texts : InBound(u) /\ u \in At(Len(u)).documents}

LEMMA KindsAreTexts ==
    /\ Containers \subseteq Texts /\ Padded \subseteq Texts /\ Named \subseteq Texts
    /\ Elements \subseteq Texts /\ Member \subseteq Texts /\ Members \subseteq Texts
    /\ Sentences \subseteq Texts
BY DEF Containers, Padded, Named, Elements, Member, Members, Sentences

LEMMA SentenceIsDocument == Sentences \subseteq Documents
<1> SUFFICES ASSUME NEW u \in Sentences PROVE u \in Documents
  OBVIOUS
<1>1. u \in Texts /\ InBound(u) /\ u \in At(Len(u)).documents
  BY DEF Sentences
<1> QED BY <1>1, LengthIs, AtInDocuments

\* Of the parts of a text, one of n characters.
LEMMA Around ==
    ASSUME NEW u \in Texts, NEW v \in Texts, InBound(Cat(u, v)), Len(v) = 1
    PROVE  \E n \in 0 .. MaxChars : n = Len(Cat(u, v)) /\ n >= 1 /\ n - 1 = Len(u)
<1>1. Len(Cat(u, v)) = Len(u) + Len(v) /\ Len(u) \in Nat /\ Len(Cat(u, v)) \in 0 .. MaxChars
  BY CatIs, LengthIs
<1>2. PICK a, b \in Nat, n \in 0 .. MaxChars : a = Len(u) /\ b = Len(v) /\ n = Len(Cat(u, v))
  BY <1>1
<1>3. n = a + 1
  BY <1>1, <1>2
<1> QED BY <1>2, <1>3

LEMMA AroundFirst ==
    ASSUME NEW u \in Texts, NEW v \in Texts, InBound(Cat(u, v)), Len(u) = 1
    PROVE  \E n \in 0 .. MaxChars : n = Len(Cat(u, v)) /\ n >= 1 /\ n - 1 = Len(v)
<1>1. Len(Cat(u, v)) = Len(u) + Len(v) /\ Len(v) \in Nat /\ Len(Cat(u, v)) \in 0 .. MaxChars
  BY CatIs, LengthIs
<1>2. PICK a, b \in Nat, n \in 0 .. MaxChars : a = Len(v) /\ b = Len(u) /\ n = Len(Cat(u, v))
  BY <1>1
<1>3. n = a + 1
  BY <1>1, <1>2
<1> QED BY <1>2, <1>3

LEMMA Between ==
    ASSUME NEW u \in Texts, NEW v \in Texts, NEW w \in Texts, InBound(Cat(Cat(u, v), w)), Len(v) = 1
    PROVE  /\ Cat(Cat(u, v), w) \in Texts
           /\ \E n \in 0 .. MaxChars : \E k \in 0 .. n - 1 :
                 n = Len(Cat(Cat(u, v), w)) /\ k = Len(u) /\ n - k - 1 = Len(w)
<1>1. Cat(u, v) \in Texts /\ Len(Cat(u, v)) = Len(u) + 1 /\ Len(u) \in Nat /\ Len(w) \in Nat
  <2>1. Cat(u, v) \in Texts /\ Len(Cat(u, v)) = Len(u) + Len(v) /\ Len(u) \in Nat
    BY CatIs, Zenon
  <2>2. Len(w) \in Nat
    BY CatIs, Zenon
  <2> QED BY <2>1, <2>2
<1>2. Cat(Cat(u, v), w) \in Texts /\ Len(Cat(Cat(u, v), w)) = Len(u) + 1 + Len(w)
  <2>1. Cat(Cat(u, v), w) \in Texts /\ Len(Cat(Cat(u, v), w)) = Len(Cat(u, v)) + Len(w)
    BY <1>1, CatIs, Zenon
  <2> QED BY <1>1, <2>1
<1>3. Len(Cat(Cat(u, v), w)) \in 0 .. MaxChars
  BY <1>2, LengthIs
<1>4. \A n, a, b \in Nat : n = a + 1 + b => a \in 0 .. n - 1 /\ n - a - 1 = b
  OBVIOUS
<1> QED BY <1>1, <1>2, <1>3, <1>4

LEMMA Inside ==
    ASSUME NEW u \in Texts, NEW v \in Texts, NEW w \in Texts, InBound(Cat(Cat(u, v), w)),
           Len(u) = 1, Len(w) = 1
    PROVE  /\ Cat(Cat(u, v), w) \in Texts
           /\ \E n \in 0 .. MaxChars : n = Len(Cat(Cat(u, v), w)) /\ n >= 2 /\ n - 2 = Len(v)
<1>1. Cat(u, v) \in Texts /\ Len(Cat(u, v)) = 1 + Len(v) /\ Len(v) \in Nat
  BY CatIs
<1>2. Cat(Cat(u, v), w) \in Texts /\ Len(Cat(Cat(u, v), w)) = 1 + Len(v) + 1
  BY <1>1, CatIs
<1>3. Len(Cat(Cat(u, v), w)) \in 0 .. MaxChars
  BY <1>2, LengthIs
<1> QED BY <1>1, <1>2, <1>3

LEMMA ArrayIsContainer ==
    ASSUME NEW u \in Elements, OpenArray \in Texts, CloseArray \in Texts,
           InBound(Cat(Cat(OpenArray, u), CloseArray))
    PROVE  Cat(Cat(OpenArray, u), CloseArray) \in Containers
<1> DEFINE w == Cat(Cat(OpenArray, u), CloseArray)
<1>1. u \in Texts /\ u \in At(Len(u)).elements
  BY DEF Elements
<1>2. w \in Enclose("[", At(Len(u)).elements, "]")
  <2>1. \A o, c : Chr(o) \in Texts /\ Chr(c) \in Texts =>
           Cat(Cat(Chr(o), u), Chr(c)) \in Enclose(o, At(Len(u)).elements, c)
    BY <1>1, CharacterOf, EncloseHas
  <2> QED BY <2>1, Zenon DEF OpenArray, CloseArray
<1>3. w \in Texts /\ \E n \in 0 .. MaxChars : n = Len(w) /\ n >= 2 /\ n - 2 = Len(u)
  BY <1>1, MarksAre, Inside
<1> HIDE DEF w
<1>4. PICK n \in 0 .. MaxChars : n = Len(w) /\ n >= 2 /\ n - 2 = Len(u)
  BY <1>3
<1>5. Enclose("[", At(n - 2).elements, "]") \subseteq At(n).containers
  BY <1>4, Rules
<1>6. w \in At(Len(w)).containers
  BY <1>2, <1>4, <1>5
<1> QED BY <1>3, <1>6 DEF Containers, w

LEMMA ObjectIsContainer ==
    ASSUME NEW u \in Members, OpenObject \in Texts, CloseObject \in Texts,
           InBound(Cat(Cat(OpenObject, u), CloseObject))
    PROVE  Cat(Cat(OpenObject, u), CloseObject) \in Containers
<1> DEFINE w == Cat(Cat(OpenObject, u), CloseObject)
<1>1. u \in Texts /\ u \in At(Len(u)).members
  BY DEF Members
<1>2. w \in Enclose("{", At(Len(u)).members, "}")
  <2>1. \A o, c : Chr(o) \in Texts /\ Chr(c) \in Texts =>
           Cat(Cat(Chr(o), u), Chr(c)) \in Enclose(o, At(Len(u)).members, c)
    BY <1>1, CharacterOf, EncloseHas
  <2> QED BY <2>1, Zenon DEF OpenObject, CloseObject
<1>3. w \in Texts /\ \E n \in 0 .. MaxChars : n = Len(w) /\ n >= 2 /\ n - 2 = Len(u)
  BY <1>1, MarksAre, Inside
<1> HIDE DEF w
<1>4. PICK n \in 0 .. MaxChars : n = Len(w) /\ n >= 2 /\ n - 2 = Len(u)
  BY <1>3
<1>5. Enclose("{", At(n - 2).members, "}") \subseteq At(n).containers
  BY <1>4, Rules
<1>6. w \in At(Len(w)).containers
  BY <1>2, <1>4, <1>5
<1> QED BY <1>3, <1>6 DEF Containers, w

LEMMA ScalarIsPadded ==
    ASSUME NEW u \in Texts, InBound(u), u \in Strings(Len(u)) \cup Numbers(Len(u)) \cup Literals(Len(u))
    PROVE  u \in Padded
BY LengthIs, Rules DEF Padded

LEMMA NameIsNamed ==
    ASSUME NEW u \in Texts, InBound(u), u \in Names(Len(u))
    PROVE  u \in Named
BY LengthIs, Rules DEF Named

LEMMA KindsNest ==
    Containers \subseteq Padded /\ Padded \subseteq Elements /\ Member \subseteq Members
<1>1. ASSUME NEW u \in Containers PROVE u \in Padded
  <2>1. u \in Texts /\ InBound(u) /\ u \in At(Len(u)).containers
    BY DEF Containers
  <2>2. Len(u) \in 0 .. MaxChars
    BY <2>1, LengthIs
  <2>3. u \in At(Len(u)).padded
    BY <2>1, <2>2, Rules
  <2> QED BY <2>1, <2>3 DEF Padded
<1>2. ASSUME NEW u \in Padded PROVE u \in Elements
  <2>1. u \in Texts /\ InBound(u) /\ u \in At(Len(u)).padded
    BY DEF Padded
  <2>2. Len(u) \in 0 .. MaxChars
    BY <2>1, LengthIs
  <2>3. u \in At(Len(u)).elements
    BY <2>1, <2>2, Rules
  <2> QED BY <2>1, <2>3 DEF Elements
<1>3. ASSUME NEW u \in Member PROVE u \in Members
  <2>1. u \in Texts /\ InBound(u) /\ u \in At(Len(u)).member
    BY DEF Member
  <2>2. Len(u) \in 0 .. MaxChars
    BY <2>1, LengthIs
  <2>3. u \in At(Len(u)).members
    BY <2>1, <2>2, Rules
  <2> QED BY <2>1, <2>3 DEF Members
<1> QED BY <1>1, <1>2, <1>3

\* White space.

LEMMA SpaceAfterPadded ==
    ASSUME NEW u \in Padded, NEW c \in Alphabet, c \in Whitespace, InBound(Cat(u, Chr(c)))
    PROVE  Cat(u, Chr(c)) \in Padded
<1> DEFINE w == Cat(u, Chr(c))
<1>1. u \in Texts /\ u \in At(Len(u)).padded
  BY DEF Padded
<1>2. w \in SpaceAfter(At(Len(u)).padded)
  BY <1>1, SpaceAfterHas
<1>3. w \in Texts /\ \E n \in 0 .. MaxChars : n = Len(w) /\ n >= 1 /\ n - 1 = Len(u)
  BY <1>1, ChrIs, CatIs, Around
<1> HIDE DEF w
<1>4. PICK n \in 0 .. MaxChars : n = Len(w) /\ n >= 1 /\ n - 1 = Len(u)
  BY <1>3
<1>5. SpaceAfter(At(n - 1).padded) \subseteq At(n).padded
  BY <1>4, Rules
<1>6. w \in At(Len(w)).padded
  BY <1>2, <1>4, <1>5
<1> QED BY <1>3, <1>6 DEF Padded, w

LEMMA SpaceBeforePadded ==
    ASSUME NEW u \in Padded, NEW c \in Alphabet, c \in Whitespace, InBound(Cat(Chr(c), u))
    PROVE  Cat(Chr(c), u) \in Padded
<1> DEFINE w == Cat(Chr(c), u)
<1>1. u \in Texts /\ u \in At(Len(u)).padded
  BY DEF Padded
<1>2. w \in SpaceBefore(At(Len(u)).padded)
  BY <1>1, SpaceBeforeHas
<1>3. w \in Texts /\ \E n \in 0 .. MaxChars : n = Len(w) /\ n >= 1 /\ n - 1 = Len(u)
  BY <1>1, ChrIs, CatIs, AroundFirst
<1> HIDE DEF w
<1>4. PICK n \in 0 .. MaxChars : n = Len(w) /\ n >= 1 /\ n - 1 = Len(u)
  BY <1>3
<1>5. SpaceBefore(At(n - 1).padded) \subseteq At(n).padded
  BY <1>4, Rules
<1>6. w \in At(Len(w)).padded
  BY <1>2, <1>4, <1>5
<1> QED BY <1>3, <1>6 DEF Padded, w

LEMMA SpaceAfterNamed ==
    ASSUME NEW u \in Named, NEW c \in Alphabet, c \in Whitespace, InBound(Cat(u, Chr(c)))
    PROVE  Cat(u, Chr(c)) \in Named
<1> DEFINE w == Cat(u, Chr(c))
<1>1. u \in Texts /\ u \in At(Len(u)).names
  BY DEF Named
<1>2. w \in SpaceAfter(At(Len(u)).names)
  BY <1>1, SpaceAfterHas
<1>3. w \in Texts /\ \E n \in 0 .. MaxChars : n = Len(w) /\ n >= 1 /\ n - 1 = Len(u)
  BY <1>1, ChrIs, CatIs, Around
<1> HIDE DEF w
<1>4. PICK n \in 0 .. MaxChars : n = Len(w) /\ n >= 1 /\ n - 1 = Len(u)
  BY <1>3
<1>5. SpaceAfter(At(n - 1).names) \subseteq At(n).names
  BY <1>4, Rules
<1>6. w \in At(Len(w)).names
  BY <1>2, <1>4, <1>5
<1> QED BY <1>3, <1>6 DEF Named, w

LEMMA SpaceBeforeMember ==
    ASSUME NEW u \in Member, NEW c \in Alphabet, c \in Whitespace, InBound(Cat(Chr(c), u))
    PROVE  Cat(Chr(c), u) \in Member
<1> DEFINE w == Cat(Chr(c), u)
<1>1. u \in Texts /\ u \in At(Len(u)).member
  BY DEF Member
<1>2. w \in SpaceBefore(At(Len(u)).member)
  BY <1>1, SpaceBeforeHas
<1>3. w \in Texts /\ \E n \in 0 .. MaxChars : n = Len(w) /\ n >= 1 /\ n - 1 = Len(u)
  BY <1>1, ChrIs, CatIs, AroundFirst
<1> HIDE DEF w
<1>4. PICK n \in 0 .. MaxChars : n = Len(w) /\ n >= 1 /\ n - 1 = Len(u)
  BY <1>3
<1>5. SpaceBefore(At(n - 1).member) \subseteq At(n).member
  BY <1>4, Rules
<1>6. w \in At(Len(w)).member
  BY <1>2, <1>4, <1>5
<1> QED BY <1>3, <1>6 DEF Member, w

LEMMA SpaceBeforeSentences ==
    ASSUME NEW u \in Sentences, NEW c \in Alphabet, c \in Whitespace, InBound(Cat(Chr(c), u))
    PROVE  Cat(Chr(c), u) \in Sentences
<1> DEFINE w == Cat(Chr(c), u)
<1>1. u \in Texts /\ u \in At(Len(u)).documents
  BY DEF Sentences
<1>2. w \in SpaceBefore(At(Len(u)).documents)
  BY <1>1, SpaceBeforeHas
<1>3. w \in Texts /\ \E n \in 0 .. MaxChars : n = Len(w) /\ n >= 1 /\ n - 1 = Len(u)
  BY <1>1, ChrIs, CatIs, AroundFirst
<1> HIDE DEF w
<1>4. PICK n \in 0 .. MaxChars : n = Len(w) /\ n >= 1 /\ n - 1 = Len(u)
  BY <1>3
<1>5. SpaceBefore(At(n - 1).documents) \subseteq At(n).documents
  BY <1>4, Rules
<1>6. w \in At(Len(w)).documents
  BY <1>2, <1>4, <1>5
<1> QED BY <1>3, <1>6 DEF Sentences, w

\* Lists and members.

LEMMA MemberHas ==
    ASSUME NEW u \in Named, NEW v \in Padded, Colon \in Texts, InBound(Cat(Cat(u, Colon), v))
    PROVE  Cat(Cat(u, Colon), v) \in Member
<1> DEFINE w == Cat(Cat(u, Colon), v)
<1>1. u \in Texts /\ u \in At(Len(u)).names /\ v \in Texts /\ v \in At(Len(v)).padded
  BY DEF Named, Padded
<1>2. w \in Join(At(Len(u)).names, ":", At(Len(v)).padded)
  <2>1. \A c : Chr(c) \in Texts => Cat(Cat(u, Chr(c)), v) \in Join(At(Len(u)).names, c, At(Len(v)).padded)
    BY <1>1, CharacterOf, JoinHas
  <2> QED BY <2>1, Zenon DEF Colon
<1>3. /\ w \in Texts
      /\ \E n \in 0 .. MaxChars : \E k \in 0 .. n - 1 : n = Len(w) /\ k = Len(u) /\ n - k - 1 = Len(v)
  BY <1>1, MarksAre, Between
<1> HIDE DEF w
<1>4. PICK n \in 0 .. MaxChars : \E k \in 0 .. n - 1 : n = Len(w) /\ k = Len(u) /\ n - k - 1 = Len(v)
  BY <1>3
<1>5. PICK k \in 0 .. n - 1 : n = Len(w) /\ k = Len(u) /\ n - k - 1 = Len(v)
  BY <1>4
<1>6. Join(At(k).names, ":", At(n - k - 1).padded) \subseteq At(n).member
  BY Rules
<1>7. w \in At(Len(w)).member
  BY <1>2, <1>5, <1>6
<1> QED BY <1>3, <1>7 DEF Member, w

LEMMA ListedElements ==
    ASSUME NEW u \in Padded, NEW v \in Elements, Comma \in Texts, InBound(Cat(Cat(u, Comma), v))
    PROVE  Cat(Cat(u, Comma), v) \in Elements
<1> DEFINE w == Cat(Cat(u, Comma), v)
<1>1. u \in Texts /\ u \in At(Len(u)).padded /\ v \in Texts /\ v \in At(Len(v)).elements
  BY DEF Padded, Elements
<1>2. w \in Join(At(Len(u)).padded, ",", At(Len(v)).elements)
  <2>1. \A c : Chr(c) \in Texts => Cat(Cat(u, Chr(c)), v) \in Join(At(Len(u)).padded, c, At(Len(v)).elements)
    BY <1>1, CharacterOf, JoinHas
  <2> QED BY <2>1, Zenon DEF Comma
<1>3. /\ w \in Texts
      /\ \E n \in 0 .. MaxChars : \E k \in 0 .. n - 1 : n = Len(w) /\ k = Len(u) /\ n - k - 1 = Len(v)
  BY <1>1, MarksAre, Between
<1> HIDE DEF w
<1>4. PICK n \in 0 .. MaxChars : \E k \in 0 .. n - 1 : n = Len(w) /\ k = Len(u) /\ n - k - 1 = Len(v)
  BY <1>3
<1>5. PICK k \in 0 .. n - 1 : n = Len(w) /\ k = Len(u) /\ n - k - 1 = Len(v)
  BY <1>4
<1>6. Join(At(k).padded, ",", At(n - k - 1).elements) \subseteq At(n).elements
  BY Rules
<1>7. w \in At(Len(w)).elements
  BY <1>2, <1>5, <1>6
<1> QED BY <1>3, <1>7 DEF Elements, w

LEMMA ListedMembers ==
    ASSUME NEW u \in Member, NEW v \in Members, Comma \in Texts, InBound(Cat(Cat(u, Comma), v))
    PROVE  Cat(Cat(u, Comma), v) \in Members
<1> DEFINE w == Cat(Cat(u, Comma), v)
<1>1. u \in Texts /\ u \in At(Len(u)).member /\ v \in Texts /\ v \in At(Len(v)).members
  BY DEF Member, Members
<1>2. w \in Join(At(Len(u)).member, ",", At(Len(v)).members)
  <2>1. \A c : Chr(c) \in Texts => Cat(Cat(u, Chr(c)), v) \in Join(At(Len(u)).member, c, At(Len(v)).members)
    BY <1>1, CharacterOf, JoinHas
  <2> QED BY <2>1, Zenon DEF Comma
<1>3. /\ w \in Texts
      /\ \E n \in 0 .. MaxChars : \E k \in 0 .. n - 1 : n = Len(w) /\ k = Len(u) /\ n - k - 1 = Len(v)
  BY <1>1, MarksAre, Between
<1> HIDE DEF w
<1>4. PICK n \in 0 .. MaxChars : \E k \in 0 .. n - 1 : n = Len(w) /\ k = Len(u) /\ n - k - 1 = Len(v)
  BY <1>3
<1>5. PICK k \in 0 .. n - 1 : n = Len(w) /\ k = Len(u) /\ n - k - 1 = Len(v)
  BY <1>4
<1>6. Join(At(k).member, ",", At(n - k - 1).members) \subseteq At(n).members
  BY Rules
<1>7. w \in At(Len(w)).members
  BY <1>2, <1>5, <1>6
<1> QED BY <1>3, <1>7 DEF Members, w

\* Any number of containers.

LEMMA NoneIsSentence == Empty \in Sentences
<1>1. Empty \in Texts /\ Len(Empty) = 0
  BY EmptySeq DEF Empty, Texts
<1>2. 0 \in 0 .. MaxChars /\ InBound(Empty)
  BY <1>1, BoundsAssumption DEF InBound
<1>3. Empty \in At(0).documents
  BY <1>2, Rules DEF Empty
<1> QED BY <1>1, <1>2, <1>3 DEF Sentences

LEMMA OneMore ==
    ASSUME NEW u \in Containers, NEW v \in Sentences, InBound(Cat(u, v))
    PROVE  Cat(u, v) \in Sentences
<1> DEFINE w == Cat(u, v)
<1>1. u \in Texts /\ u \in At(Len(u)).containers /\ v \in Texts /\ v \in At(Len(v)).documents
  BY DEF Containers, Sentences
<1>2. /\ w \in Texts /\ Len(w) = Len(u) + Len(v) /\ Len(u) \in Nat /\ Len(v) \in Nat
      /\ Len(w) \in 0 .. MaxChars /\ InBound(w)
  BY <1>1, CatIs, LengthIs
<1>3. CASE Len(u) = 0
  <2>1. u = Empty
    BY <1>1, <1>3, EmptySeq DEF Empty, Texts
  <2> QED BY <1>1, <2>1, CatEmpty
<1>4. CASE Len(v) = 0 /\ Len(u) # 0
  <2>1. v = Empty
    BY <1>1, <1>4, EmptySeq DEF Empty, Texts
  <2>2. w = u
    BY <1>1, <2>1, CatEmpty
  <2> HIDE DEF w
  <2>3. Len(u) \in 0 .. MaxChars /\ Len(u) >= 1
    BY <1>2, <1>4, <2>2
  <2>4. u \in At(Len(u)).documents
    BY <1>1, <2>3, Rules
  <2> QED BY <1>1, <1>2, <2>2, <2>4 DEF Sentences, w
<1>5. CASE Len(v) # 0 /\ Len(u) # 0
  <2>1. w \in Follow(At(Len(u)).containers, At(Len(v)).documents)
    BY <1>1, FollowHas
  <2> HIDE DEF w
  <2>5. PICK n \in 0 .. MaxChars : n = Len(w)
    BY <1>2
  <2>2. PICK k \in 1 .. n - 1 : k = Len(u) /\ n - k = Len(v)
    <3>1. \A m, a, b \in Nat : m = a + b /\ a # 0 /\ b # 0 => a \in 1 .. m - 1 /\ m - a = b
      OBVIOUS
    <3> QED BY <1>2, <1>5, <2>5, <3>1
  <2>3. Follow(At(k).containers, At(n - k).documents) \subseteq At(n).documents
    BY Rules
  <2>4. w \in At(Len(w)).documents
    BY <2>1, <2>2, <2>3, <2>5
  <2> QED BY <1>2, <2>4 DEF Sentences, w
<1> QED BY <1>3, <1>4, <1>5
-----------------------------------------------------------------------------
\* What a beginning of a text is for: it is Before(K, W) when every W that
\* follows it makes a K of it.

Before(K, W) == {t \in Texts : \A w \in W : InBound(Cat(t, w)) => Cat(t, w) \in K}
Then(A, B) == {Cat(a, b) : a \in A, b \in B}
Closed(S, c) == {w \in Texts : c \in Texts /\ \E u \in S : w = Cat(u, c)}

\* Outside every container, there may be any number of them.
Ground == Before(Sentences, Sentences)

\* A name with what is around it, up to a value.
Labels == Before(Member, Padded)
Labelled == Then(Labels, Padded)

\* Where the elements that are still to come may start, and the members.
ElementStarts(K) == Before(K, Closed(Elements, CloseArray))
MemberStarts(K) == Before(K, Closed(Members, CloseObject))

\* An array behind one of its elements, in the midst of what is to be a K, and
\* an object behind one of its members.
ArrayGoal(K) == Then(ElementStarts(K), Padded)
ObjectGoal(K) == Then(MemberStarts(K), Labelled)

\* White space may be put before these, and behind those.
SpaceMayPrecede(W) ==
    \A w \in W, c \in Alphabet \cap Whitespace : InBound(Cat(Chr(c), w)) => Cat(Chr(c), w) \in W
SpaceMayFollow(K) ==
    \A u \in K, c \in Alphabet \cap Whitespace : InBound(Cat(u, Chr(c))) => Cat(u, Chr(c)) \in K

LEMMA BeforeIsTexts == \A K, W : Before(K, W) \subseteq Texts
BY DEF Before

LEMMA ThenIsTexts ==
    ASSUME NEW A, A \subseteq Texts, NEW B, B \subseteq Texts
    PROVE  Then(A, B) \subseteq Texts
<1> SUFFICES ASSUME NEW a \in A, NEW b \in B PROVE Cat(a, b) \in Texts
  BY DEF Then
<1>1. a \in Texts /\ b \in Texts
  OBVIOUS
<1> QED BY <1>1, CatIs

LEMMA ThenParts ==
    ASSUME NEW A, NEW B, NEW t \in Then(A, B)
    PROVE  \E a \in A, b \in B : t = Cat(a, b)
BY DEF Then

LEMMA GoalsAreTexts ==
    /\ Labels \subseteq Texts /\ Labelled \subseteq Texts /\ Ground \subseteq Texts
    /\ \A K : ElementStarts(K) \subseteq Texts /\ MemberStarts(K) \subseteq Texts
    /\ \A K : ArrayGoal(K) \subseteq Texts /\ ObjectGoal(K) \subseteq Texts
<1>1. Labels \subseteq Texts /\ Ground \subseteq Texts
  BY BeforeIsTexts DEF Labels, Ground
<1>2. Labelled \subseteq Texts
  BY <1>1, KindsAreTexts, ThenIsTexts DEF Labelled
<1>3. \A K : ElementStarts(K) \subseteq Texts /\ MemberStarts(K) \subseteq Texts
  BY BeforeIsTexts DEF ElementStarts, MemberStarts
<1> QED BY <1>1, <1>2, <1>3, KindsAreTexts, ThenIsTexts DEF ArrayGoal, ObjectGoal

LEMMA SpaceMayFollowThen ==
    ASSUME NEW A, A \subseteq Texts, NEW B, B \subseteq Texts, SpaceMayFollow(B)
    PROVE  SpaceMayFollow(Then(A, B))
<1> SUFFICES ASSUME NEW a \in A, NEW b \in B, NEW c \in Alphabet \cap Whitespace,
                    InBound(Cat(Cat(a, b), Chr(c)))
             PROVE  Cat(Cat(a, b), Chr(c)) \in Then(A, B)
  BY DEF SpaceMayFollow, Then
<1>1. a \in Texts /\ b \in Texts /\ Chr(c) \in Texts /\ Cat(b, Chr(c)) \in Texts
  BY ChrIs, CatIs
<1>2. Cat(Cat(a, b), Chr(c)) = Cat(a, Cat(b, Chr(c)))
  BY <1>1, CatAssociative, Zenon
<1>3. InBound(Cat(b, Chr(c)))
  BY <1>1, <1>2, PartInBound
<1>4. Cat(b, Chr(c)) \in B
  BY <1>3 DEF SpaceMayFollow
<1> QED BY <1>2, <1>4 DEF Then

LEMMA SpaceMayPrecedeThen ==
    ASSUME NEW A, A \subseteq Texts, NEW B, B \subseteq Texts, SpaceMayPrecede(A)
    PROVE  SpaceMayPrecede(Then(A, B))
<1> SUFFICES ASSUME NEW a \in A, NEW b \in B, NEW c \in Alphabet \cap Whitespace,
                    InBound(Cat(Chr(c), Cat(a, b)))
             PROVE  Cat(Chr(c), Cat(a, b)) \in Then(A, B)
  BY DEF SpaceMayPrecede, Then
<1>1. a \in Texts /\ b \in Texts /\ Chr(c) \in Texts /\ Cat(Chr(c), a) \in Texts
  BY ChrIs, CatIs
<1>2. Cat(Chr(c), Cat(a, b)) = Cat(Cat(Chr(c), a), b)
  BY <1>1, CatAssociative, Zenon
<1>3. InBound(Cat(Chr(c), a))
  BY <1>1, <1>2, PartInBound
<1>4. Cat(Chr(c), a) \in A
  BY <1>3 DEF SpaceMayPrecede
<1> QED BY <1>2, <1>4 DEF Then

\* White space behind a beginning.
LEMMA BeforeSpace ==
    ASSUME NEW K, NEW W, W \subseteq Texts, SpaceMayPrecede(W), NEW t \in Before(K, W),
           NEW c \in Alphabet, c \in Whitespace
    PROVE  Cat(t, Chr(c)) \in Before(K, W)
<1>1. t \in Texts /\ Chr(c) \in Texts /\ Cat(t, Chr(c)) \in Texts
  BY BeforeIsTexts, ChrIs, CatIs
<1>2. ASSUME NEW w \in W, InBound(Cat(Cat(t, Chr(c)), w)) PROVE Cat(Cat(t, Chr(c)), w) \in K
  <2>1. w \in Texts /\ Cat(Chr(c), w) \in Texts
    BY <1>1, CatIs
  <2>2. Cat(Cat(t, Chr(c)), w) = Cat(t, Cat(Chr(c), w))
    BY <1>1, <2>1, CatAssociative, Zenon
  <2>3. InBound(Cat(Chr(c), w))
    BY <1>1, <1>2, <2>1, <2>2, PartInBound
  <2>4. Cat(Chr(c), w) \in W
    BY <2>3 DEF SpaceMayPrecede
  <2> QED BY <1>2, <2>2, <2>4 DEF Before
<1> QED BY <1>1, <1>2 DEF Before

\* And behind a goal.
LEMMA GoalSpace ==
    ASSUME NEW K, SpaceMayFollow(K), NEW t \in K, NEW c \in Alphabet, c \in Whitespace, InBound(Cat(t, Chr(c)))
    PROVE  Cat(t, Chr(c)) \in K
BY DEF SpaceMayFollow

LEMMA SpaceIsNothingNew ==
    /\ SpaceMayFollow(Named) /\ SpaceMayFollow(Labelled) /\ SpaceMayFollow(Ground)
    /\ \A K : SpaceMayFollow(ArrayGoal(K)) /\ SpaceMayFollow(ObjectGoal(K))
    /\ \A K : SpaceMayFollow(Then(Before(K, Labelled), Named))
    /\ SpaceMayPrecede(Padded) /\ SpaceMayPrecede(Labelled) /\ SpaceMayPrecede(Sentences)
<1>1. SpaceMayFollow(Padded) /\ SpaceMayFollow(Named)
  BY SpaceAfterPadded, SpaceAfterNamed DEF SpaceMayFollow
<1>2. SpaceMayFollow(Labelled)
  BY <1>1, KindsAreTexts, GoalsAreTexts, SpaceMayFollowThen DEF Labelled
<1>3. \A K : SpaceMayFollow(ArrayGoal(K)) /\ SpaceMayFollow(ObjectGoal(K))
  BY <1>1, <1>2, KindsAreTexts, GoalsAreTexts, SpaceMayFollowThen DEF ArrayGoal, ObjectGoal
<1>4. \A K : SpaceMayFollow(Then(Before(K, Labelled), Named))
  BY <1>1, KindsAreTexts, BeforeIsTexts, SpaceMayFollowThen
<1>5. SpaceMayPrecede(Padded) /\ SpaceMayPrecede(Sentences) /\ SpaceMayPrecede(Member)
  BY SpaceBeforePadded, SpaceBeforeSentences, SpaceBeforeMember DEF SpaceMayPrecede
<1>6. SpaceMayPrecede(Labels)
  <2> SUFFICES ASSUME NEW x \in Labels, NEW c \in Alphabet, c \in Whitespace PROVE Cat(Chr(c), x) \in Labels
    BY DEF SpaceMayPrecede
  <2>1. x \in Texts /\ Chr(c) \in Texts /\ Cat(Chr(c), x) \in Texts
    BY GoalsAreTexts, ChrIs, CatIs
  <2>2. ASSUME NEW v \in Padded, InBound(Cat(Cat(Chr(c), x), v)) PROVE Cat(Cat(Chr(c), x), v) \in Member
    <3>1. v \in Texts /\ Cat(x, v) \in Texts
      BY <2>1, KindsAreTexts, CatIs
    <3>2. Cat(Cat(Chr(c), x), v) = Cat(Chr(c), Cat(x, v))
      BY <2>1, <3>1, CatAssociative, Zenon
    <3>3. InBound(Cat(x, v))
      BY <2>1, <2>2, <3>1, <3>2, PartInBound
    <3>4. Cat(x, v) \in Member
      BY <3>3 DEF Labels, Before
    <3> QED BY <2>2, <3>2, <3>4, SpaceBeforeMember
  <2> QED BY <2>1, <2>2 DEF Labels, Before
<1>7. SpaceMayPrecede(Labelled)
  BY <1>6, KindsAreTexts, GoalsAreTexts, SpaceMayPrecedeThen DEF Labelled
<1>8. SpaceMayFollow(Ground)
  BY <1>5, KindsAreTexts, BeforeSpace DEF SpaceMayFollow, Ground
<1> QED BY <1>1, <1>2, <1>3, <1>4, <1>5, <1>7, <1>8

\* A container on the ground, and where a value may be.
LEMMA ContainerFollows ==
    /\ Ground \subseteq Before(Ground, Containers)
    /\ \A K : Before(K, Padded) \subseteq Before(K, Containers)
<1>1. ASSUME NEW t \in Ground PROVE t \in Before(Ground, Containers)
  <2>1. t \in Texts
    BY GoalsAreTexts
  <2>2. ASSUME NEW u \in Containers PROVE Cat(t, u) \in Ground
    <3>1. u \in Texts /\ Cat(t, u) \in Texts
      BY <2>1, KindsAreTexts, CatIs
    <3>2. ASSUME NEW d \in Sentences, InBound(Cat(Cat(t, u), d)) PROVE Cat(Cat(t, u), d) \in Sentences
      <4>1. d \in Texts /\ Cat(u, d) \in Texts
        BY <3>1, KindsAreTexts, CatIs
      <4>2. Cat(Cat(t, u), d) = Cat(t, Cat(u, d))
        BY <2>1, <3>1, <4>1, CatAssociative, Zenon
      <4>3. InBound(Cat(u, d))
        BY <2>1, <3>2, <4>1, <4>2, PartInBound
      <4>4. Cat(u, d) \in Sentences
        BY <4>3, OneMore
      <4> QED BY <3>2, <4>2, <4>4 DEF Ground, Before
    <3> QED BY <3>1, <3>2 DEF Ground, Before
  <2> QED BY <2>1, <2>2 DEF Before
<1>2. \A K : Before(K, Padded) \subseteq Before(K, Containers)
  BY KindsNest DEF Before
<1> QED BY <1>1, <1>2

\* What the characters of arrays and objects do to where the text stands.

LEMMA ArrayBegins ==
    ASSUME NEW K, NEW t \in Before(K, Containers), OpenArray \in Texts
    PROVE  Cat(t, OpenArray) \in ElementStarts(K)
<1>2. t \in Texts /\ Cat(t, OpenArray) \in Texts
  BY BeforeIsTexts, CatIs
<1>3. ASSUME NEW w \in Closed(Elements, CloseArray), InBound(Cat(Cat(t, OpenArray), w)) PROVE Cat(Cat(t, OpenArray), w) \in K
  <2>1. PICK e \in Elements : w = Cat(e, CloseArray) /\ w \in Texts /\ CloseArray \in Texts
    BY DEF Closed
  <2>2. e \in Texts /\ CloseArray \in Texts /\ Cat(OpenArray, w) \in Texts
    BY <2>1, KindsAreTexts, CatIs
  <2>3. Cat(Cat(t, OpenArray), w) = Cat(t, Cat(OpenArray, w))
    BY <1>2, <2>1, CatAssociative
  <2>4. InBound(Cat(OpenArray, w))
    BY <1>2, <1>3, <2>2, <2>3, PartInBound
  <2>5. Cat(OpenArray, w) = Cat(Cat(OpenArray, e), CloseArray)
    BY <2>1, <2>2, CatAssociative
  <2>6. Cat(OpenArray, w) \in Containers
    BY <2>1, <2>4, <2>5, ArrayIsContainer
  <2> QED BY <1>3, <2>3, <2>6 DEF Before
<1> QED BY <1>2, <1>3 DEF ElementStarts, Before

LEMMA ObjectBegins ==
    ASSUME NEW K, NEW t \in Before(K, Containers), OpenObject \in Texts
    PROVE  Cat(t, OpenObject) \in MemberStarts(K)
<1>2. t \in Texts /\ Cat(t, OpenObject) \in Texts
  BY BeforeIsTexts, CatIs
<1>3. ASSUME NEW w \in Closed(Members, CloseObject), InBound(Cat(Cat(t, OpenObject), w)) PROVE Cat(Cat(t, OpenObject), w) \in K
  <2>1. PICK e \in Members : w = Cat(e, CloseObject) /\ w \in Texts /\ CloseObject \in Texts
    BY DEF Closed
  <2>2. e \in Texts /\ CloseObject \in Texts /\ Cat(OpenObject, w) \in Texts
    BY <2>1, KindsAreTexts, CatIs
  <2>3. Cat(Cat(t, OpenObject), w) = Cat(t, Cat(OpenObject, w))
    BY <1>2, <2>1, CatAssociative
  <2>4. InBound(Cat(OpenObject, w))
    BY <1>2, <1>3, <2>2, <2>3, PartInBound
  <2>5. Cat(OpenObject, w) = Cat(Cat(OpenObject, e), CloseObject)
    BY <2>1, <2>2, CatAssociative
  <2>6. Cat(OpenObject, w) \in Containers
    BY <2>1, <2>4, <2>5, ObjectIsContainer
  <2> QED BY <1>3, <2>3, <2>6 DEF Before
<1> QED BY <1>2, <1>3 DEF MemberStarts, Before

LEMMA ElementFollows ==
    ASSUME NEW K, NEW t \in ElementStarts(K)
    PROVE  t \in Before(ArrayGoal(K), Padded)
BY GoalsAreTexts DEF Before, ArrayGoal, Then

LEMMA MemberFollows ==
    ASSUME NEW K, NEW t \in MemberStarts(K)
    PROVE  t \in Before(ObjectGoal(K), Labelled)
BY GoalsAreTexts DEF Before, ObjectGoal, Then

\* A name and its value are a member.
LEMMA LabelledIsMember ==
    ASSUME NEW w \in Labelled, InBound(w)
    PROVE  w \in Member
<1>1. PICK x \in Labels, v \in Padded : w = Cat(x, v)
  BY ThenParts DEF Labelled
<1> QED BY <1>1 DEF Labels, Before

LEMMA ArrayEnds ==
    ASSUME NEW K, NEW t \in ArrayGoal(K), CloseArray \in Texts, InBound(Cat(t, CloseArray))
    PROVE  Cat(t, CloseArray) \in K
<1>2. PICK u \in ElementStarts(K), m \in Padded : t = Cat(u, m)
  BY ThenParts DEF ArrayGoal
<1>3. u \in Texts /\ m \in Texts /\ t \in Texts /\ Cat(m, CloseArray) \in Texts
  BY <1>2, KindsAreTexts, GoalsAreTexts, CatIs
<1>4. Cat(t, CloseArray) = Cat(u, Cat(m, CloseArray))
  BY <1>2, <1>3, CatAssociative
<1>5. InBound(m)
  BY <1>2, <1>3, PartInBound
<1>6. Cat(m, CloseArray) \in Closed(Elements, CloseArray)
  BY <1>3, <1>5, KindsNest DEF Closed
<1> QED BY <1>4, <1>6 DEF ElementStarts, Before

LEMMA ArrayGoesOn ==
    ASSUME NEW K, NEW t \in ArrayGoal(K), Comma \in Texts
    PROVE  Cat(t, Comma) \in ElementStarts(K)
<1>2. PICK u \in ElementStarts(K), m \in Padded : t = Cat(u, m)
  BY ThenParts DEF ArrayGoal
<1>3. u \in Texts /\ m \in Texts /\ t \in Texts /\ Cat(m, Comma) \in Texts /\ Cat(t, Comma) \in Texts
  BY <1>2, KindsAreTexts, GoalsAreTexts, CatIs
<1>4. Cat(t, Comma) = Cat(u, Cat(m, Comma))
  BY <1>2, <1>3, CatAssociative
<1>5. ASSUME NEW w \in Closed(Elements, CloseArray), InBound(Cat(Cat(t, Comma), w)) PROVE Cat(Cat(t, Comma), w) \in K
  <2>1. PICK e \in Elements : w = Cat(e, CloseArray) /\ w \in Texts /\ CloseArray \in Texts
    BY DEF Closed
  <2>2. e \in Texts /\ CloseArray \in Texts /\ Cat(Cat(m, Comma), e) \in Texts /\ Cat(Cat(m, Comma), w) \in Texts
    BY <1>3, <2>1, KindsAreTexts, CatIs
  <2>3. Cat(Cat(t, Comma), w) = Cat(u, Cat(Cat(m, Comma), w))
    BY <1>3, <1>4, <2>1, CatAssociative
  <2>4. Cat(Cat(m, Comma), w) = Cat(Cat(Cat(m, Comma), e), CloseArray)
    BY <1>3, <2>1, <2>2, CatAssociative
  <2>5. InBound(Cat(Cat(m, Comma), w))
    BY <1>3, <1>5, <2>2, <2>3, PartInBound
  <2>6. InBound(Cat(Cat(m, Comma), e))
    BY <2>2, <2>4, <2>5, PartInBound
  <2>7. InBound(m)
    BY <1>3, <2>2, <2>6, PartInBound
  <2>8. Cat(Cat(m, Comma), e) \in Elements
    BY <2>6, <2>7, KindsNest, ListedElements
  <2>9. Cat(Cat(m, Comma), w) \in Closed(Elements, CloseArray)
    BY <2>1, <2>2, <2>4, <2>8 DEF Closed
  <2> QED BY <1>5, <2>3, <2>9 DEF ElementStarts, Before
<1> QED BY <1>3, <1>5 DEF ElementStarts, Before

LEMMA ObjectEnds ==
    ASSUME NEW K, NEW t \in ObjectGoal(K), CloseObject \in Texts, InBound(Cat(t, CloseObject))
    PROVE  Cat(t, CloseObject) \in K
<1>2. PICK u \in MemberStarts(K), m \in Labelled : t = Cat(u, m)
  BY ThenParts DEF ObjectGoal
<1>3. u \in Texts /\ m \in Texts /\ t \in Texts /\ Cat(m, CloseObject) \in Texts
  BY <1>2, KindsAreTexts, GoalsAreTexts, CatIs
<1>4. Cat(t, CloseObject) = Cat(u, Cat(m, CloseObject))
  BY <1>2, <1>3, CatAssociative
<1>5. InBound(m)
  BY <1>2, <1>3, PartInBound
<1>6. Cat(m, CloseObject) \in Closed(Members, CloseObject)
  BY <1>3, <1>5, LabelledIsMember, KindsNest DEF Closed
<1> QED BY <1>4, <1>6 DEF MemberStarts, Before

LEMMA ObjectGoesOn ==
    ASSUME NEW K, NEW t \in ObjectGoal(K), Comma \in Texts
    PROVE  Cat(t, Comma) \in MemberStarts(K)
<1>2. PICK u \in MemberStarts(K), m \in Labelled : t = Cat(u, m)
  BY ThenParts DEF ObjectGoal
<1>3. u \in Texts /\ m \in Texts /\ t \in Texts /\ Cat(m, Comma) \in Texts /\ Cat(t, Comma) \in Texts
  BY <1>2, KindsAreTexts, GoalsAreTexts, CatIs
<1>4. Cat(t, Comma) = Cat(u, Cat(m, Comma))
  BY <1>2, <1>3, CatAssociative
<1>5. ASSUME NEW w \in Closed(Members, CloseObject), InBound(Cat(Cat(t, Comma), w)) PROVE Cat(Cat(t, Comma), w) \in K
  <2>1. PICK e \in Members : w = Cat(e, CloseObject) /\ w \in Texts /\ CloseObject \in Texts
    BY DEF Closed
  <2>2. e \in Texts /\ CloseObject \in Texts /\ Cat(Cat(m, Comma), e) \in Texts /\ Cat(Cat(m, Comma), w) \in Texts
    BY <1>3, <2>1, KindsAreTexts, CatIs
  <2>3. Cat(Cat(t, Comma), w) = Cat(u, Cat(Cat(m, Comma), w))
    BY <1>3, <1>4, <2>1, CatAssociative
  <2>4. Cat(Cat(m, Comma), w) = Cat(Cat(Cat(m, Comma), e), CloseObject)
    BY <1>3, <2>1, <2>2, CatAssociative
  <2>5. InBound(Cat(Cat(m, Comma), w))
    BY <1>3, <1>5, <2>2, <2>3, PartInBound
  <2>6. InBound(Cat(Cat(m, Comma), e))
    BY <2>2, <2>4, <2>5, PartInBound
  <2>7. InBound(m)
    BY <1>3, <2>2, <2>6, PartInBound
  <2>8. Cat(Cat(m, Comma), e) \in Members
    BY <2>6, <2>7, LabelledIsMember, ListedMembers
  <2>9. Cat(Cat(m, Comma), w) \in Closed(Members, CloseObject)
    BY <2>1, <2>2, <2>4, <2>8 DEF Closed
  <2> QED BY <1>5, <2>3, <2>9 DEF MemberStarts, Before
<1> QED BY <1>3, <1>5 DEF MemberStarts, Before

\* The colon behind a name.
LEMMA ColonFollows ==
    ASSUME NEW K, NEW t \in Then(Before(K, Labelled), Named), Colon \in Texts
    PROVE  Cat(t, Colon) \in Before(K, Padded)
<1>2. PICK u \in Before(K, Labelled), n \in Named : t = Cat(u, n)
  BY ThenParts
<1>3. u \in Texts /\ n \in Texts /\ t \in Texts /\ Cat(t, Colon) \in Texts /\ Cat(n, Colon) \in Texts
  BY <1>2, KindsAreTexts, BeforeIsTexts, CatIs
<1>4. Cat(t, Colon) = Cat(u, Cat(n, Colon))
  BY <1>2, <1>3, CatAssociative
<1>5. Cat(n, Colon) \in Labels
  BY <1>3, MemberHas DEF Labels, Before
<1>6. ASSUME NEW v \in Padded, InBound(Cat(Cat(t, Colon), v)) PROVE Cat(Cat(t, Colon), v) \in K
  <2>1. v \in Texts
    BY KindsAreTexts
  <2>2. Cat(Cat(t, Colon), v) = Cat(u, Cat(Cat(n, Colon), v))
    BY <1>3, <1>4, <2>1, CatAssociative
  <2>3. Cat(Cat(n, Colon), v) \in Labelled
    BY <1>5 DEF Labelled, Then
  <2> QED BY <1>6, <2>2, <2>3 DEF Before
<1> QED BY <1>3, <1>6 DEF Before

\* A value, and a name, where one may be.
LEMMA ValueFits ==
    ASSUME NEW K, NEW t \in Before(K, Padded), NEW v \in Padded, InBound(Cat(t, v))
    PROVE  Cat(t, v) \in K
BY DEF Before

LEMMA NameFits ==
    ASSUME NEW K, NEW t \in Before(K, Labelled), NEW v \in Named
    PROVE  Cat(t, v) \in Then(Before(K, Labelled), Named)
BY DEF Then
-----------------------------------------------------------------------------
\* Strings and names.

Quote == Chr("quote")
QuotesShielded(s) == \A i \in 1 .. Len(s) : s[i] = "quote" => Shielded(s, i)

\* Whether a quote is shielded depends on what is before it.
LEMMA ShieldedBefore ==
    ASSUME NEW s \in Texts, NEW c \in Alphabet, NEW i \in 1 .. Len(s) + 1
    PROVE  Shielded(Append(s, c), i) <=> Shielded(s, i)
<1> DEFINE t == Append(s, c)
<1>1. Len(s) \in Nat /\ \A j \in 1 .. Len(s) : t[j] = s[j]
  BY AppendProperties, LenProperties DEF Texts
<1> HIDE DEF t
<1>2. ASSUME NEW j \in 1 .. i - 1
      PROVE  t[j] = s[j] /\ \A k \in j .. i - 1 : t[k] = s[k]
  BY <1>1
<1>3. Shielded(t, i) <=> Shielded(s, i)
  BY <1>2 DEF Shielded
<1> QED BY <1>3 DEF t

\* A backslash shields what follows it, and a quote does if it is shielded.
LEMMA ShieldedBehind ==
    ASSUME NEW s \in Texts, NEW c \in Alphabet
    PROVE  Shielded(Append(s, c), Len(s) + 2) <=> c = "slash" \/ (c = "quote" /\ Shielded(s, Len(s) + 1))
<1>0. PICK n \in Nat : n = Len(s) + 1 /\ n >= 1 /\ n + 1 = Len(s) + 2
  BY LenProperties DEF Texts
<1> DEFINE t == Append(s, c)
<1>1. t[n] = c /\ \A j \in 1 .. n - 1 : t[j] = s[j]
  BY <1>0, AppendProperties DEF Texts
<1>2. Shielded(t, n) <=> Shielded(s, n)
  BY <1>0, ShieldedBefore
<1> HIDE DEF t
<1>3. ASSUME Shielded(t, n + 1) PROVE c = "slash" \/ (c = "quote" /\ Shielded(t, n))
  <2>1. PICK j \in 1 .. n : t[j] = "slash" /\ \A k \in j .. n : t[k] \in {"slash", "quote"}
    BY <1>3 DEF Shielded
  <2>2. c \in {"slash", "quote"}
    BY <1>1, <2>1
  <2>3. ASSUME c # "slash" PROVE Shielded(t, n)
    <3>1. j \in 1 .. n - 1
      BY <1>1, <2>1, <2>3
    <3> QED BY <2>1, <3>1 DEF Shielded
  <2> QED BY <2>2, <2>3
<1>4. ASSUME c = "slash" PROVE Shielded(t, n + 1)
  <2>1. n \in 1 .. n + 1 - 1 /\ t[n] = "slash" /\ \A k \in n .. n + 1 - 1 : t[k] \in {"slash", "quote"}
    BY <1>0, <1>1, <1>4
  <2> QED BY <2>1 DEF Shielded
<1>5. ASSUME c = "quote", Shielded(t, n) PROVE Shielded(t, n + 1)
  <2>1. PICK j \in 1 .. n - 1 : t[j] = "slash" /\ \A k \in j .. n - 1 : t[k] \in {"slash", "quote"}
    BY <1>5 DEF Shielded
  <2>2. j \in 1 .. n + 1 - 1 /\ \A k \in j .. n + 1 - 1 : t[k] \in {"slash", "quote"}
    BY <1>1, <1>5, <2>1
  <2> QED BY <2>1, <2>2 DEF Shielded
<1> QED BY <1>0, <1>2, <1>3, <1>4, <1>5 DEF t

\* A character that closes nothing goes on with a string.
LEMMA StringGrows ==
    ASSUME NEW s \in Texts, QuotesShielded(s), NEW c \in Alphabet,
           c = "quote" => Shielded(s, Len(s) + 1)
    PROVE  QuotesShielded(Append(s, c))
<1> DEFINE t == Append(s, c)
<1>1. /\ Len(s) \in Nat /\ Len(t) = Len(s) + 1 /\ t[Len(s) + 1] = c
      /\ \A i \in 1 .. Len(s) : t[i] = s[i]
  BY AppendProperties, LenProperties DEF Texts
<1>2. \A i \in 1 .. Len(s) + 1 : Shielded(t, i) <=> Shielded(s, i)
  BY ShieldedBefore
<1> HIDE DEF t
<1> SUFFICES ASSUME NEW i \in 1 .. Len(t), t[i] = "quote" PROVE Shielded(t, i)
  BY DEF QuotesShielded, t
<1>3. CASE i = Len(s) + 1
  BY <1>1, <1>2, <1>3
<1>4. CASE i \in 1 .. Len(s)
  BY <1>1, <1>2, <1>4 DEF QuotesShielded
<1> QED BY <1>1, <1>3, <1>4

\* What is read of a string when the quote that closes it is next.
IsBody(s) ==
    /\ s \in Texts /\ QuotesShielded(s) /\ ~Shielded(s, Len(s) + 1)
    /\ Len(s) <= MaxString /\ Len(s) + 3 <= MaxChars

LEMMA BodyIs ==
    ASSUME NEW s, IsBody(s)
    PROVE  s \in StringBodies(Len(s))
<1>1. s \in Seq(Alphabet) /\ Len(s) \in Nat
  BY LenProperties DEF IsBody, Texts
<1>2. s \in [1 .. Len(s) -> Alphabet]
  BY <1>1, LenProperties
<1>3. Len(s) \in 0 .. MaxString /\ Fits(Len(s) + 1)
  BY <1>1, MaxStringAssumption, BoundsAssumption DEF IsBody, Fits
<1>4. Alphabet \cap Alphabet = Alphabet
  OBVIOUS
<1>5. s \in Words(Alphabet, Len(s))
  BY <1>2, <1>4 DEF Words
<1> QED BY <1>3, <1>5 DEF IsBody, QuotesShielded, StringBodies

Quoted(B) == {Append(s, "quote") : s \in B}

LEMMA RestOfString ==
    ASSUME NEW s, IsBody(s), Quote \in Texts
    PROVE  /\ Cat(s, Quote) \in Texts /\ Len(Cat(s, Quote)) = Len(s) + 1 /\ Len(s) \in Nat
           /\ Cat(s, Quote) \in StringRests(Len(s) + 1)
<1>1. s \in Texts
  BY DEF IsBody
<1>2. Len(Quote) = 1
  BY DEF Quote, Chr
<1>3. Cat(s, Quote) \in Texts /\ Len(Cat(s, Quote)) = Len(s) + 1 /\ Len(s) \in Nat
  BY <1>1, <1>2, CatIs
<1>4. "quote" \in Alphabet
  BY CharacterOf, Zenon DEF Quote
<1>5. Append(s, "quote") = Cat(s, Quote)
  <2>1. \A c \in Alphabet : Append(s, c) = s \o <<c>>
    BY <1>1, AppendIsConcat DEF Texts
  <2> QED BY <1>4, <2>1, Zenon DEF Cat, Quote, Chr
<1>6. Len(s) + 1 - 1 = Len(s)
  BY <1>3
<1>7. Append(s, "quote") \in Quoted(StringBodies(Len(s)))
  BY BodyIs, Zenon DEF Quoted
<1>8. Append(s, "quote") \in StringRests(Len(s) + 1)
  <2>1. ASSUME NEW n PROVE StringRests(n) = Quoted(StringBodies(n - 1))
    <3>1. (IF "quote" \in Alphabet THEN Quoted(StringBodies(n - 1)) ELSE {}) = Quoted(StringBodies(n - 1))
      BY <1>4, Zenon
    <3>2. StringRests(n) = IF "quote" \in Alphabet THEN Quoted(StringBodies(n - 1)) ELSE {}
      BY DEF StringRests, Quoted
    <3> QED BY <3>1, <3>2, Zenon
  <2>2. PICK m, k : m = Len(s) + 1 /\ k = Len(s) /\ m - 1 = k
    BY <1>6
  <2>3. StringRests(m) = Quoted(StringBodies(k))
    BY <2>1, <2>2
  <2> QED BY <1>7, <2>2, <2>3
<1> QED BY <1>3, <1>5, <1>8

LEMMA StringIs ==
    ASSUME NEW s, IsBody(s), Quote \in Texts
    PROVE  Cat(Quote, Cat(s, Quote)) \in Padded
<1> DEFINE r == Cat(s, Quote)
           w == Cat(Quote, r)
<1>1. r \in Texts /\ Len(r) = Len(s) + 1 /\ Len(s) \in Nat /\ r \in StringRests(Len(s) + 1)
  BY RestOfString
<1>2. Len(Quote) = 1
  BY DEF Quote, Chr
<1> HIDE DEF r
<1>3. w \in Texts /\ Len(w) = 1 + Len(r)
  BY <1>1, <1>2, CatIs
<1>4. Len(w) - 1 = Len(s) + 1 /\ InBound(w)
  <2>1. Len(s) + 3 <= MaxChars /\ MaxChars \in Nat
    BY BoundsAssumption DEF IsBody
  <2> HIDE DEF w
  <2> QED BY <1>1, <1>3, <2>1 DEF InBound
<1>5. r \in StringRests(Len(w) - 1)
  BY <1>1, <1>4
<1>6. w \in Strings(Len(w))
  <2>1. \A n : r \in StringRests(n - 1) => <<"quote">> \o r \in Strings(n)
    BY DEF Strings
  <2>2. w = <<"quote">> \o r
    BY Zenon DEF Cat, Quote, Chr
  <2> HIDE DEF w
  <2> QED BY <1>5, <2>1, <2>2
<1> QED BY <1>3, <1>4, <1>6, ScalarIsPadded DEF r

NameStarts == Alphabet \ (Whitespace \cup {"}"})
Prefixed(A, R) == {<<c>> \o r : c \in A, r \in R}

LEMMA NamesAre ==
    ASSUME Colon \in Texts, NEW n
    PROVE  Names(n) = Prefixed(NameStarts, StringRests(n - 1))
<1>1. ":" \in Alphabet
  BY CharacterOf, Zenon DEF Colon
<1>2. (IF ":" \in Alphabet THEN NameStarts ELSE {}) = NameStarts
  BY <1>1, Zenon
<1>3. Names(n) = Prefixed(IF ":" \in Alphabet THEN NameStarts ELSE {}, StringRests(n - 1))
  BY DEF Names, Prefixed, NameStarts
<1> QED BY <1>2, <1>3, Zenon

LEMMA NameIs ==
    ASSUME NEW s, IsBody(s), Quote \in Texts, Colon \in Texts, NEW c \in NameStarts
    PROVE  Cat(Chr(c), Cat(s, Quote)) \in Named
<1> DEFINE r == Cat(s, Quote)
           w == Cat(Chr(c), r)
<1>1. r \in Texts /\ Len(r) = Len(s) + 1 /\ Len(s) \in Nat /\ r \in StringRests(Len(s) + 1)
  BY RestOfString
<1>2. Chr(c) \in Texts /\ Len(Chr(c)) = 1
  BY ChrIs DEF NameStarts
<1> HIDE DEF r
<1>3. w \in Texts /\ Len(w) = 1 + Len(r)
  BY <1>1, <1>2, CatIs
<1>4. Len(w) - 1 = Len(s) + 1 /\ InBound(w)
  <2>1. Len(s) + 3 <= MaxChars /\ MaxChars \in Nat
    BY BoundsAssumption DEF IsBody
  <2> HIDE DEF w
  <2>2. PICK k \in Nat, m \in Nat : k = Len(s) /\ m = Len(w) /\ m = 1 + (k + 1) /\ k + 3 <= MaxChars
    BY <1>1, <1>3, <2>1
  <2>3. m - 1 = k + 1 /\ m <= MaxChars
    BY <2>1, <2>2
  <2> QED BY <2>2, <2>3 DEF InBound
<1>5. r \in StringRests(Len(w) - 1)
  BY <1>1, <1>4
<1>6. w \in Names(Len(w))
  <2>1. Names(Len(w)) = Prefixed(NameStarts, StringRests(Len(w) - 1))
    BY NamesAre
  <2>2. \A R : r \in R => <<c>> \o r \in Prefixed(NameStarts, R)
    BY DEF Prefixed
  <2>5. w = <<c>> \o r
    BY Zenon DEF Cat, Chr
  <2> HIDE DEF w
  <2> QED BY <1>5, <2>1, <2>2, <2>5, Zenon
<1> QED BY <1>3, <1>4, <1>6, NameIsNamed DEF r
-----------------------------------------------------------------------------
\* Literals: what has been read of one, and what is still wanted.

Spelled == {<<"t", "r", "u", "e">>, <<"f", "a", "l", "s", "e">>, <<"n", "u", "l", "l">>}

LEMMA LiteralIs ==
    ASSUME NEW w \in Texts, w \in Spelled, InBound(w)
    PROVE  w \in Padded
<1>1. Literals(Len(w)) = {x \in Spelled : Len(x) = Len(w) /\ Range(x) \subseteq Alphabet}
  BY DEF Literals, Spelled
<1>2. Range(w) \subseteq Alphabet
  BY RangeOfSeq DEF Texts
<1> QED BY <1>1, <1>2, ScalarIsPadded

LEMMA LiteralStarts ==
    ASSUME NEW c \in {"t", "f", "n"}
    PROVE  <<c>> \o Rest(c) \in Spelled
<1>1. CASE c = "t"
  <2>1. Rest(c) = <<"r", "u", "e">>
    BY <1>1 DEF Rest
  <2>2. <<c>> \o Rest(c) = <<"t", "r", "u", "e">>
    BY <1>1, <2>1, OneAndThree
  <2> QED BY <2>2 DEF Spelled
<1>2. CASE c = "f"
  <2>1. Rest(c) = <<"a", "l", "s", "e">>
    BY <1>2 DEF Rest
  <2>2. <<c>> \o Rest(c) = <<"f", "a", "l", "s", "e">>
    BY <1>2, <2>1, OneAndFour
  <2> QED BY <2>2 DEF Spelled
<1>3. CASE c = "n"
  <2>1. Rest(c) = <<"u", "l", "l">>
    BY <1>3 DEF Rest
  <2>2. <<c>> \o Rest(c) = <<"n", "u", "l", "l">>
    BY <1>3, <2>1, OneAndThree
  <2> QED BY <2>2 DEF Spelled
<1> QED BY <1>1, <1>2, <1>3

LEMMA LiteralGoesOn ==
    ASSUME NEW done \in Seq(Char), NEW rest \in Seq(Char), rest # <<>>
    PROVE  (done \o <<Head(rest)>>) \o Tail(rest) = done \o rest
<1>1. Head(rest) \in Char /\ Tail(rest) \in Seq(Char)
  BY HeadTailProperties
<1>2. <<Head(rest)>> \in Seq(Char)
  BY <1>1
<1>3. \A x, y, z \in Seq(Char) : (x \o y) \o z = x \o (y \o z)
  BY Associates
<1>4. rest = <<Head(rest)>> \o Tail(rest)
  BY HeadAndTail
<1>5. (done \o <<Head(rest)>>) \o Tail(rest) = done \o (<<Head(rest)>> \o Tail(rest))
  BY <1>1, <1>2, <1>3, Zenon
<1> QED BY <1>4, <1>5, Zenon
-----------------------------------------------------------------------------
\* Numbers, by what has been read of one.

Written == {w \in Texts : Range(w) \subseteq Digits \cup ExponentMarks \cup {"-", "+", "."}}
Figures == {w \in Texts : IsInteger(w)}
Sign(signs) == {Chr(c) : c \in signs \cap Alphabet}
Signed(signs) == Figures \cup Then(Sign(signs), Figures)
Minus == {"-"}
EitherSign == {"-", "+"}
Points == {Chr(c) : c \in {"."} \cap Alphabet}
Marks == {Chr(c) : c \in ExponentMarks \cap Alphabet}
Fractions == Then(Points, Figures)
Mantissas == Signed(Minus) \cup Then(Signed(Minus), Fractions)
Exponents == Then(Marks, Signed(EitherSign))
NumberTexts == Mantissas \cup Then(Mantissas, Exponents)

LEMMA WrittenIs ==
    /\ Written \subseteq Texts
    /\ \A u, v \in Written : Cat(u, v) \in Written
    /\ \A c \in Alphabet : c \in Digits \cup ExponentMarks \cup {"-", "+", "."} => Chr(c) \in Written
<1>1. ASSUME NEW u \in Written, NEW v \in Written PROVE Cat(u, v) \in Written
  <2>1. u \in Texts /\ v \in Texts /\ Cat(u, v) \in Texts
    BY CatIs DEF Written
  <2>2. \A x, y \in Seq(Alphabet) : Range(x \o y) = Range(x) \cup Range(y)
    BY RangeConcatenation
  <2>3. Range(Cat(u, v)) = Range(u) \cup Range(v)
    BY <2>1, <2>2, Zenon DEF Texts, Cat
  <2> QED BY <2>1, <2>3 DEF Written
<1>2. ASSUME NEW c \in Alphabet, c \in Digits \cup ExponentMarks \cup {"-", "+", "."} PROVE Chr(c) \in Written
  <2>1. Chr(c) \in Texts /\ Range(Chr(c)) = {c}
    BY ChrIs DEF Range, Chr
  <2> QED BY <1>2, <2>1 DEF Written
<1> QED BY <1>1, <1>2 DEF Written

LEMMA WrittenThen ==
    ASSUME NEW A, A \subseteq Written, NEW B, B \subseteq Written
    PROVE  Then(A, B) \subseteq Written
BY WrittenIs DEF Then

LEMMA PartsAreWritten ==
    /\ Figures \subseteq Written /\ Points \subseteq Written /\ Marks \subseteq Written
    /\ Sign(Minus) \subseteq Written /\ Sign(EitherSign) \subseteq Written
    /\ Signed(Minus) \subseteq Written /\ Signed(EitherSign) \subseteq Written
    /\ Fractions \subseteq Written /\ Mantissas \subseteq Written /\ Exponents \subseteq Written
    /\ NumberTexts \subseteq Written
<1>1. Figures \subseteq Written
  BY DEF Figures, Written, IsInteger
<1>2. /\ Points \subseteq Written /\ Marks \subseteq Written
      /\ Sign(Minus) \subseteq Written /\ Sign(EitherSign) \subseteq Written
  BY WrittenIs DEF Points, Marks, Sign, Minus, EitherSign
<1>3. Signed(Minus) \subseteq Written /\ Signed(EitherSign) \subseteq Written
  BY <1>1, <1>2, WrittenThen DEF Signed
<1>4. Fractions \subseteq Written
  BY <1>1, <1>2, WrittenThen DEF Fractions
<1>5. Mantissas \subseteq Written
  BY <1>3, <1>4, WrittenThen DEF Mantissas
<1>6. Exponents \subseteq Written
  BY <1>2, <1>3, WrittenThen DEF Exponents
<1>7. NumberTexts \subseteq Written
  BY <1>5, <1>6, WrittenThen DEF NumberTexts
<1> QED BY <1>1, <1>2, <1>3, <1>4, <1>5, <1>6, <1>7

\* What begins with a character.
LEMMA TailOfChr ==
    ASSUME NEW c \in Alphabet, NEW u \in Texts
    PROVE  Cat(Chr(c), u) # <<>> /\ Cat(Chr(c), u)[1] = c /\ Tail(Cat(Chr(c), u)) = u
<1> DEFINE w == Cat(Chr(c), u)
<1>0. PICK k \in Nat : k = Len(u)
  BY LenProperties DEF Texts
<1>1. Chr(c) \in Texts /\ Len(Chr(c)) = 1 /\ Chr(c)[1] = c
  BY ChrIs DEF Chr
<1>2. /\ w \in Seq(Alphabet) /\ Len(w) = 1 + k /\ w[1] = c
      /\ \A i \in 1 .. k : w[1 + i] = u[i]
  <2>1. PICK d : d = Chr(c)
    OBVIOUS
  <2>2. PICK v : v = d \o u
    OBVIOUS
  <2>3. d \in Seq(Alphabet) /\ u \in Seq(Alphabet) /\ Len(d) = 1 /\ d[1] = c
    BY <1>1, <2>1 DEF Texts
  <2>4. /\ v \in Seq(Alphabet) /\ Len(v) = 1 + k
        /\ \A i \in 1 .. 1 : v[i] = d[i]
        /\ \A i \in 1 .. k : v[1 + i] = u[i]
    <3>1. IsConcat(v, d, u, Alphabet)
      BY <2>2, <2>3, ConcatIs
    <3> QED BY <1>0, <2>3, <3>1 DEF IsConcat
  <2>5. w = v
    BY <2>1, <2>2, Zenon DEF Cat
  <2> HIDE DEF w
  <2> QED BY <2>3, <2>4, <2>5
<1> HIDE DEF w
<1>3. w # <<>>
  BY <1>2, EmptySeq
<1>4. /\ Tail(w) \in Seq(Alphabet) /\ Len(Tail(w)) = Len(w) - 1
      /\ \A i \in 1 .. Len(Tail(w)) : Tail(w)[i] = w[i + 1]
  BY <1>2, <1>3, HeadTailProperties
<1>5. PICK t : t = Tail(w)
  OBVIOUS
<1>6. Len(t) = k
  BY <1>2, <1>4, <1>5
<1>7. \A i \in 1 .. k : t[i] = u[i]
  BY <1>2, <1>4, <1>5, <1>6
<1>8. t = u
  BY <1>0, <1>4, <1>5, <1>6, <1>7, SameElements DEF Texts
<1> QED BY <1>2, <1>3, <1>5, <1>8 DEF w

LEMMA FiguresAre ==
    /\ \A c \in Alphabet : c \in Digits => Chr(c) \in Figures
    /\ \A w \in Figures, c \in Alphabet : c \in Digits => Cat(w, Chr(c)) \in Figures
    /\ \A w \in Figures : w \in Texts /\ w # <<>> /\ w[1] \in Digits
<1>1. ASSUME NEW c \in Alphabet, c \in Digits PROVE Chr(c) \in Figures
  <2>1. Chr(c) \in Texts /\ Range(Chr(c)) = {c} /\ Chr(c) # <<>>
    BY ChrIs DEF Range, Chr
  <2> QED BY <1>1, <2>1 DEF Figures, IsInteger
<1>2. ASSUME NEW w \in Figures, NEW c \in Alphabet, c \in Digits PROVE Cat(w, Chr(c)) \in Figures
  <2>1. w \in Texts /\ Chr(c) \in Texts /\ Chr(c) # <<>> /\ Range(w) \subseteq Digits /\ Range(Chr(c)) \subseteq Digits
    BY <1>1, <1>2 DEF Figures, IsInteger
  <2>2. \A x, y \in Seq(Alphabet) : Range(x \o y) = Range(x) \cup Range(y)
    BY RangeConcatenation
  <2>3. \A x, y \in Seq(Alphabet) : x \o y = <<>> => y = <<>>
    BY ConcatEqualIffEmpty
  <2>4. Range(Cat(w, Chr(c))) = Range(w) \cup Range(Chr(c)) /\ Cat(w, Chr(c)) # <<>>
    BY <2>1, <2>2, <2>3, Zenon DEF Texts, Cat
  <2> QED BY <2>1, <2>4, CatIs DEF Figures, IsInteger
<1>3. ASSUME NEW w \in Figures PROVE w \in Texts /\ w # <<>> /\ w[1] \in Digits
  <2>1. w \in Seq(Alphabet) /\ w # <<>> /\ Range(w) \subseteq Digits
    BY DEF Figures, IsInteger, Texts
  <2>2. 1 \in DOMAIN w
    BY <2>1, LenProperties, EmptySeq
  <2> QED BY <2>1, <2>2 DEF Range, Texts
<1> QED BY <1>1, <1>2, <1>3

LEMMA SignedIs ==
    ASSUME NEW signs, signs \cap Digits = {}, NEW w \in Signed(signs)
    PROVE  w \in Texts /\ IsSigned(w, signs)
<1>1. CASE w \in Figures
  <2>1. w \in Texts /\ ~(w # <<>> /\ w[1] \in signs) /\ IsInteger(w)
    BY <1>1, FiguresAre DEF Figures
  <2> QED BY <2>1, Zenon DEF IsSigned
<1>2. CASE w \in Then(Sign(signs), Figures)
  <2>1. PICK s \in Sign(signs), f \in Figures : w = Cat(s, f)
    BY <1>2, ThenParts
  <2>2. PICK c \in signs \cap Alphabet : s = Chr(c)
    BY DEF Sign
  <2>3. f \in Texts /\ IsInteger(f) /\ Chr(c) \in Texts
    BY FiguresAre, ChrIs DEF Figures
  <2>4. w \in Texts /\ w # <<>> /\ w[1] = c /\ Tail(w) = f
    BY <2>1, <2>2, <2>3, TailOfChr, CatIs
  <2>5. (IF w # <<>> /\ w[1] \in signs THEN Tail(w) ELSE w) = f
    BY <2>4
  <2> QED BY <2>3, <2>4, <2>5, Zenon DEF IsSigned
<1> QED BY <1>1, <1>2 DEF Signed

\* The three parts of a number are where the grammar looks for them.
IsFraction(x) == x = <<>> \/ (x[1] = "." /\ IsInteger(Tail(x)))
IsExponent(x) == x = <<>> \/ (x[1] \in ExponentMarks /\ IsSigned(Tail(x), {"-", "+"}))

LEMMA MiddleOf ==
    ASSUME NEW u \in Texts, NEW v \in Texts, NEW y \in Texts
    PROVE  SubSeq(Cat(Cat(u, v), y), Len(u) + 1, Len(u) + Len(v)) = v
<1>1. IsMiddle(u, v, y)
  BY MiddleIs DEF Texts
<1> QED BY <1>1, Zenon DEF IsMiddle, Cat

LEMMA NumberOf ==
    ASSUME NEW a \in Texts, NEW b \in Texts, NEW x \in Texts,
           IsSigned(a, {"-"}), IsFraction(b), IsExponent(x)
    PROVE  IsNumber(Cat(Cat(a, b), x))
<1> DEFINE w == Cat(Cat(a, b), x)
<1>1. PICK m \in Nat, n \in Nat, l \in Nat : m = Len(a) /\ n = Len(b) /\ l = Len(x)
  BY LenProperties DEF Texts
<1>2. Cat(a, b) \in Texts /\ Len(Cat(a, b)) = m + n /\ w \in Texts /\ Len(w) = (m + n) + l
  <2>1. Cat(a, b) \in Texts /\ Len(Cat(a, b)) = m + n
    BY <1>1, CatIs
  <2>2. w \in Texts /\ Len(w) = Len(Cat(a, b)) + Len(x)
    BY <2>1, CatIs
  <2> HIDE DEF w
  <2> QED BY <1>1, <2>1, <2>2
<1>4. Empty \in Texts /\ Len(Empty) = 0 /\ Cat(Empty, a) = a /\ Cat(w, Empty) = w
  BY <1>2, CatEmpty
<1>5. SubSeq(w, m + 1, m + n) = b
  <2>1. SubSeq(w, Len(a) + 1, Len(a) + Len(b)) = b
    BY MiddleOf
  <2> HIDE DEF w
  <2> QED BY <1>1, <2>1
<1>6. SubSeq(w, 1, m) = a
  <2>1. Cat(b, x) \in Texts /\ Cat(Cat(Empty, a), Cat(b, x)) = w
    BY <1>4, CatIs, CatAssociative
  <2>2. SubSeq(Cat(Cat(Empty, a), Cat(b, x)), Len(Empty) + 1, Len(Empty) + Len(a)) = a
    BY <1>4, <2>1, MiddleOf
  <2>3. Len(Empty) + 1 = 1 /\ Len(Empty) + Len(a) = m
    BY <1>1, <1>4
  <2> HIDE DEF w
  <2> QED BY <2>1, <2>2, <2>3, Zenon
<1>7. SubSeq(w, (m + n) + 1, (m + n) + l) = x
  <2>1. Cat(Cat(Cat(a, b), x), Empty) = w
    BY <1>4
  <2>2. SubSeq(Cat(Cat(Cat(a, b), x), Empty), Len(Cat(a, b)) + 1, Len(Cat(a, b)) + Len(x)) = x
    BY <1>2, <1>4, MiddleOf
  <2> HIDE DEF w
  <2> QED BY <1>1, <1>2, <2>1, <2>2
<1> HIDE DEF w
<1>8. m \in 0 .. Len(w) /\ m + n \in 0 .. Len(w) /\ m <= m + n
  BY <1>2
<1>9. \E i, j \in 0 .. Len(w) :
         /\ i <= j /\ IsSigned(SubSeq(w, 1, i), {"-"})
         /\ IsFraction(SubSeq(w, i + 1, j)) /\ IsExponent(SubSeq(w, j + 1, Len(w)))
  BY <1>2, <1>5, <1>6, <1>7, <1>8
<1>10. IsNumber(w)
  BY <1>9, Zenon DEF IsNumber, IsFraction, IsExponent
<1> QED BY <1>10 DEF w

LEMMA NumberTextIs ==
    ASSUME NEW w \in NumberTexts
    PROVE  w \in Texts /\ IsNumber(w)
<1>1. Empty \in Texts /\ IsFraction(Empty) /\ IsExponent(Empty)
  <2>1. Empty \in Texts
    BY EmptySeq DEF Empty, Texts
  <2> QED BY <2>1, Zenon DEF IsFraction, IsExponent, Empty
<1>2. ASSUME NEW a \in Signed(Minus) PROVE a \in Texts /\ IsSigned(a, {"-"})
  <2>1. Minus \cap Digits = {}
    BY DEF Minus, Digits
  <2> QED BY <2>1, SignedIs DEF Minus
<1>3. ASSUME NEW b \in Fractions PROVE b \in Texts /\ IsFraction(b)
  <2>1. PICK p \in Points, f \in Figures : b = Cat(p, f)
    BY ThenParts DEF Fractions
  <2>2. PICK c \in {"."} \cap Alphabet : p = Chr(c)
    BY DEF Points
  <2>3. f \in Texts /\ IsInteger(f) /\ Chr(c) \in Texts
    BY FiguresAre, ChrIs DEF Figures
  <2>4. b \in Texts /\ b[1] = c /\ Tail(b) = f
    BY <2>1, <2>2, <2>3, TailOfChr, CatIs
  <2>5. c = "."
    OBVIOUS
  <2> QED BY <2>3, <2>4, <2>5, Zenon DEF IsFraction
<1>4. ASSUME NEW x \in Exponents PROVE x \in Texts /\ IsExponent(x)
  <2>1. PICK e \in Marks, g \in Signed(EitherSign) : x = Cat(e, g)
    BY ThenParts DEF Exponents
  <2>2. PICK c \in ExponentMarks \cap Alphabet : e = Chr(c)
    BY DEF Marks
  <2>3. g \in Texts /\ IsSigned(g, {"-", "+"}) /\ Chr(c) \in Texts
    <3>1. EitherSign \cap Digits = {}
      BY DEF EitherSign, Digits
    <3> QED BY <3>1, SignedIs, ChrIs DEF EitherSign
  <2>4. x \in Texts /\ x[1] = c /\ Tail(x) = g
    BY <2>1, <2>2, <2>3, TailOfChr, CatIs
  <2> QED BY <2>3, <2>4 DEF IsExponent
<1>5. ASSUME NEW m \in Mantissas
      PROVE  \E a, b \in Texts : m = Cat(a, b) /\ IsSigned(a, {"-"}) /\ IsFraction(b)
  <2>1. CASE m \in Signed(Minus)
    BY <1>1, <1>2, <2>1, CatEmpty
  <2>2. CASE m \in Then(Signed(Minus), Fractions)
    BY <1>2, <1>3, <2>2, ThenParts
  <2> QED BY <2>1, <2>2 DEF Mantissas
<1>6. \E m \in Mantissas, x \in Texts : w = Cat(m, x) /\ IsExponent(x)
  <2>1. CASE w \in Mantissas
    <3>1. w \in Texts
      BY <2>1, PartsAreWritten, WrittenIs
    <3> QED BY <1>1, <2>1, <3>1, CatEmpty
  <2>2. CASE w \in Then(Mantissas, Exponents)
    BY <1>4, <2>2, ThenParts
  <2> QED BY <2>1, <2>2 DEF NumberTexts
<1>7. PICK m \in Mantissas, x \in Texts : w = Cat(m, x) /\ IsExponent(x)
  BY <1>6
<1>8. PICK a \in Texts, b \in Texts : m = Cat(a, b) /\ IsSigned(a, {"-"}) /\ IsFraction(b)
  BY <1>5
<1>9. w \in Texts
  BY PartsAreWritten, WrittenIs
<1> QED BY <1>7, <1>8, <1>9, NumberOf

LEMMA NumberIs ==
    ASSUME NEW w \in NumberTexts, Len(w) + 2 <= MaxChars
    PROVE  w \in Padded
<1>1. w \in Texts /\ IsNumber(w)
  BY NumberTextIs
<1>2. Len(w) \in Nat /\ InBound(w) /\ Fits(Len(w)) /\ w \in [1 .. Len(w) -> Range(w)]
  <2>1. w \in Seq(Alphabet) /\ Len(w) \in Nat
    BY <1>1, LenProperties DEF Texts
  <2>2. w \in [1 .. Len(w) -> Range(w)]
    BY <2>1, LenProperties DEF Range
  <2> QED BY <2>1, <2>2, BoundsAssumption DEF InBound, Fits
<1>3. Range(w) \subseteq (Digits \cup ExponentMarks \cup {"-", "+", "."}) \cap Alphabet
  <2>1. w \in Written
    BY PartsAreWritten
  <2>2. Range(w) \subseteq Alphabet
    BY <1>1, RangeOfSeq DEF Texts
  <2> QED BY <2>1, <2>2 DEF Written
<1>4. w \in Words(Digits \cup ExponentMarks \cup {"-", "+", "."}, Len(w))
  <2> DEFINE C == (Digits \cup ExponentMarks \cup {"-", "+", "."}) \cap Alphabet
  <2>1. Range(w) \subseteq C
    BY <1>3
  <2> HIDE DEF C
  <2>2. w \in [1 .. Len(w) -> C]
    BY <1>2, <2>1
  <2> QED BY <2>2, Zenon DEF Words, C
<1>5. w \in Numbers(Len(w))
  BY <1>1, <1>2, <1>4 DEF Numbers
<1> QED BY <1>1, <1>2, <1>5, ScalarIsPadded

\* One more character.
LEMMA ThenGrows ==
    ASSUME NEW A, A \subseteq Texts, NEW B, B \subseteq Texts, NEW c \in Alphabet,
           NEW D, \A b \in B : Cat(b, Chr(c)) \in D, NEW w \in Then(A, B)
    PROVE  Cat(w, Chr(c)) \in Then(A, D)
<1>1. PICK a \in A, b \in B : w = Cat(a, b)
  BY ThenParts
<1>2. a \in Texts /\ b \in Texts /\ Chr(c) \in Texts
  BY ChrIs
<1>3. Cat(w, Chr(c)) = Cat(a, Cat(b, Chr(c)))
  BY <1>1, <1>2, CatAssociative
<1> QED BY <1>3 DEF Then
-----------------------------------------------------------------------------
\* What has been read, and where the parser stands in the midst of what is to
\* be a K.

LEMMA TextIs ==
    ASSUME IInv
    PROVE  /\ text \in Texts /\ buffer \in Texts /\ Len(text) \in Nat /\ Len(buffer) \in Nat
           /\ Texts = Seq(Alphabet) /\ Len(frames) \in Nat /\ frames \in Seq({"array", "object"})
           /\ FramesFitPc
<1>1. text \in Seq(Alphabet) /\ buffer \in Seq(Alphabet) /\ FramesFitPc /\ frames \in Seq({"array", "object"})
  BY DEF IInv, TypeOK
<1> QED BY <1>1, LenProperties DEF Texts

LEMMA MovesOn ==
    ASSUME IInv, Consume
    PROVE  /\ peek \in Alphabet /\ Chr(peek) \in Texts /\ text' = Cat(text, Chr(peek))
           /\ text' \in Texts /\ Len(text') = Len(text) + 1
<1>1. peek \in Alphabet /\ text' = Append(text, peek) /\ text \in Seq(Alphabet)
  BY ConsumeType DEF IInv, TypeOK, Consume
<1>2. text' = Cat(text, Chr(peek))
  BY <1>1, AppendIsConcat DEF Cat, Chr
<1>3. Chr(peek) \in Texts /\ Len(Chr(peek)) = 1 /\ text \in Texts
  BY <1>1, ChrIs DEF Texts
<1> QED BY <1>1, <1>2, <1>3, CatIs

LEMMA KeepsIt ==
    ASSUME IInv, Keep
    PROVE  /\ buffer' = Append(buffer, peek) /\ buffer' = Cat(buffer, Chr(peek)) /\ buffer' \in Texts
           /\ Len(buffer') = Len(buffer) + 1
<1>1. peek \in Alphabet /\ buffer' = Append(buffer, peek) /\ buffer \in Seq(Alphabet)
  BY ConsumeType DEF IInv, TypeOK, Keep
<1>2. buffer' = Cat(buffer, Chr(peek))
  BY <1>1, AppendIsConcat DEF Cat, Chr
<1>3. Chr(peek) \in Texts /\ Len(Chr(peek)) = 1 /\ buffer \in Texts
  BY <1>1, ChrIs DEF Texts
<1> QED BY <1>1, <1>2, <1>3, CatIs

\* Inside of a string, that is a name when pc says so.
InsideString(K) ==
    /\ QuotesShielded(buffer) /\ (inSlash <=> Shielded(buffer, Len(buffer) + 1))
    /\ \E pre \in Texts, c \in Alphabet :
          /\ text = Cat(Cat(pre, Chr(c)), buffer)
          /\ pc = "key" => pre \in Before(K, Labelled) /\ c \in NameStarts
          /\ pc = "string" => pre \in Before(K, Padded) /\ Chr(c) = Quote

\* How much there is of a number at each of parse_number's places.
NumberSoFar ==
    /\ pc = "int_first" => buffer \in {Empty} \cup Sign(Minus)
    /\ pc = "int" => buffer \in Signed(Minus)
    /\ pc = "frac_first" => buffer \in Then(Signed(Minus), Points)
    /\ pc = "frac" => buffer \in Then(Signed(Minus), Fractions)
    /\ pc = "exp_sign" => buffer \in Then(Mantissas, Marks)
    /\ pc = "exp_first" => buffer \in Then(Mantissas, Then(Marks, Sign(EitherSign)))
    /\ pc = "exp" => buffer \in Then(Mantissas, Exponents)

InsideNumber(K) ==
    /\ \E pre \in Before(K, Padded) : Len(pre) >= 1 /\ text = Cat(pre, buffer)
    /\ NumberSoFar

InsideLiteral(K) ==
    \E pre \in Before(K, Padded), done \in Texts : text = Cat(pre, done) /\ done \o want \in Spelled

BeforeAValue == {"element", "value"}
InNumber == InInteger \cup InReal

Stand(K) ==
    /\ pc \in {"top", "after"} => text \in K
    /\ pc \in BeforeAValue => text \in Before(K, Padded) /\ Len(text) >= 1
    /\ pc = "member" => text \in Before(K, Labelled)
    /\ pc = "colon" => (Colon \in Texts => text \in Then(Before(K, Labelled), Named))
    /\ pc \in InString => InsideString(K)
    /\ pc \in InNumber => InsideNumber(K)
    /\ pc \in InLiteral => InsideLiteral(K)

\* What each array or object in progress is to be.
Goal(kind, K) == IF kind = "array" THEN ArrayGoal(K) ELSE ObjectGoal(K)
Tower(G, fs) == G[0] = Ground /\ \A i \in 1 .. Len(fs) : G[i] = Goal(fs[i], G[i - 1])

Standing == \E G, K : Tower(G, frames) /\ K = G[Len(frames)] /\ Stand(K)

Kinds == {"array", "object"}

LEMMA TowerTop ==
    ASSUME NEW G, NEW fs \in Seq(Kinds), Tower(G, fs)
    PROVE  /\ G[Len(fs)] \subseteq Texts /\ SpaceMayFollow(G[Len(fs)])
           /\ fs = <<>> => G[Len(fs)] = Ground
           /\ fs # <<>> => G[Len(fs)] = Goal(Last(fs), G[Len(fs) - 1])
<1>1. Len(fs) \in Nat /\ (Len(fs) = 0 <=> fs = <<>>)
  BY LenProperties, EmptySeq
<1>2. CASE Len(fs) = 0
  <2>1. G[Len(fs)] = Ground
    BY <1>2 DEF Tower
  <2> QED BY <1>1, <1>2, <2>1, GoalsAreTexts, SpaceIsNothingNew
<1>3. CASE Len(fs) # 0
  <2>1. Len(fs) \in 1 .. Len(fs) /\ Last(fs) = fs[Len(fs)]
    BY <1>1, <1>3 DEF Last
  <2>2. G[Len(fs)] = Goal(Last(fs), G[Len(fs) - 1])
    BY <2>1 DEF Tower
  <2> DEFINE K == G[Len(fs)]
             O == G[Len(fs) - 1]
  <2>3. K = ArrayGoal(O) \/ K = ObjectGoal(O)
    BY <2>2 DEF Goal
  <2> HIDE DEF K, O
  <2>4. K \subseteq Texts /\ SpaceMayFollow(K)
    BY <2>3, GoalsAreTexts, SpaceIsNothingNew, Zenon
  <2> QED BY <1>1, <1>3, <2>2, <2>4 DEF K
<1> QED BY <1>2, <1>3

LEMMA TowerGrows ==
    ASSUME NEW G, NEW fs \in Seq(Kinds), Tower(G, fs), NEW kind \in Kinds
    PROVE  \E H : Tower(H, Append(fs, kind)) /\ H[Len(fs) + 1] = Goal(kind, G[Len(fs)])
<1> DEFINE n == Len(fs)
           gs == Append(fs, kind)
           x == Goal(kind, G[n])
           H == [i \in 0 .. n + 1 |-> IF i = n + 1 THEN x ELSE G[i]]
<1>1. n \in Nat /\ Len(gs) = n + 1 /\ gs[n + 1] = kind /\ \A i \in 1 .. n : gs[i] = fs[i]
  BY AppendProperties, LenProperties
<1> HIDE DEF n, gs, x
<1>2. H[n + 1] = x /\ \A i \in 0 .. n : H[i] = G[i]
  BY <1>1
<1> HIDE DEF H
<1>3. G[0] = Ground /\ \A i \in 1 .. n : G[i] = Goal(fs[i], G[i - 1])
  BY DEF Tower, n
<1>4. H[0] = Ground /\ H[n] = G[n]
  BY <1>1, <1>2, <1>3
<1>5. ASSUME NEW i \in 1 .. n + 1 PROVE H[i] = Goal(gs[i], H[i - 1])
  <2>1. CASE i = n + 1
    <3>1. H[i] = x /\ gs[i] = kind /\ i - 1 = n
      BY <1>1, <1>2, <2>1
    <3> QED BY <1>4, <3>1 DEF x
  <2>2. CASE i \in 1 .. n
    <3>1. H[i] = G[i] /\ H[i - 1] = G[i - 1] /\ gs[i] = fs[i] /\ G[i] = Goal(fs[i], G[i - 1])
      BY <1>1, <1>2, <1>3, <2>2
    <3> QED BY <3>1
  <2> QED BY <1>1, <2>1, <2>2
<1>6. Tower(H, gs)
  BY <1>1, <1>4, <1>5 DEF Tower
<1> QED BY <1>2, <1>4, <1>6 DEF n, gs, x

LEMMA TowerShrinks ==
    ASSUME NEW G, NEW fs \in Seq(Kinds), Tower(G, fs), fs # <<>>
    PROVE  Tower(G, Front(fs)) /\ Len(Front(fs)) = Len(fs) - 1
<1> DEFINE es == Front(fs)
<1>1. Len(es) = Len(fs) - 1 /\ Len(fs) \in Nat /\ \A i \in 1 .. Len(fs) - 1 : es[i] = fs[i]
  BY PopTop, LenProperties
<1> HIDE DEF es
<1>2. ASSUME NEW i \in 1 .. Len(es) PROVE G[i] = Goal(es[i], G[i - 1])
  <2>1. i \in 1 .. Len(fs) /\ es[i] = fs[i]
    BY <1>1
  <2> QED BY <2>1 DEF Tower
<1>3. Tower(G, es)
  BY <1>2 DEF Tower
<1> QED BY <1>1, <1>3 DEF es
-----------------------------------------------------------------------------
\* Every step keeps the place, on one level.

Fitting(K, O) ==
    /\ K \subseteq Texts /\ SpaceMayFollow(K)
    /\ pc = "top" => K = Ground
    /\ In("array") => K = ArrayGoal(O)
    /\ In("object") => K = ObjectGoal(O)

LEMMA PlacesAre ==
    ASSUME NEW K
    PROVE  /\ pc' \in {"top", "after"} /\ text' \in K => Stand(K)'
           /\ pc' \in BeforeAValue /\ text' \in Before(K, Padded) /\ Len(text') >= 1 => Stand(K)'
           /\ pc' = "member" /\ text' \in Before(K, Labelled) => Stand(K)'
           /\ pc' = "colon" /\ (Colon \in Texts => text' \in Then(Before(K, Labelled), Named)) => Stand(K)'
           /\ pc' \in InString /\ InsideString(K)' => Stand(K)'
           /\ pc' \in InNumber /\ InsideNumber(K)' => Stand(K)'
           /\ pc' \in InLiteral /\ InsideLiteral(K)' => Stand(K)'
BY DEF Stand, BeforeAValue, InString, InNumber, InInteger, InReal, InLiteral

LEMMA SpaceKeepsPlace ==
    ASSUME IInv, NEW K, NEW O, Fitting(K, O), Stand(K), InBound(text'), SkipWhitespace
    PROVE  Stand(K)'
<1>1. /\ pc \in {"top", "element", "member", "colon", "value", "after"} /\ pc' = pc /\ Consume
      /\ peek \in Whitespace
  BY DEF SkipWhitespace
<1>2. peek \in Alphabet /\ text' = Cat(text, Chr(peek)) /\ Len(text') = Len(text) + 1 /\ Len(text) \in Nat
  BY <1>1, MovesOn, TextIs
<1>3. CASE pc \in {"top", "after"}
  <2>1. text \in K /\ SpaceMayFollow(K)
    BY <1>3 DEF Stand, Fitting
  <2>2. text' \in K
    BY <1>1, <1>2, <2>1, GoalSpace
  <2> QED BY <1>1, <1>3, <2>2, PlacesAre
<1>4. CASE pc \in BeforeAValue
  <2>1. text \in Before(K, Padded) /\ Len(text') >= 1
    BY <1>2, <1>4 DEF Stand
  <2>2. text' \in Before(K, Padded)
    BY <1>1, <1>2, <2>1, BeforeSpace, SpaceIsNothingNew, KindsAreTexts
  <2> QED BY <1>1, <1>4, <2>1, <2>2, PlacesAre
<1>5. CASE pc = "member"
  <2>1. text \in Before(K, Labelled)
    BY <1>5 DEF Stand
  <2>2. text' \in Before(K, Labelled)
    BY <1>1, <1>2, <2>1, BeforeSpace, SpaceIsNothingNew, GoalsAreTexts
  <2> QED BY <1>1, <1>5, <2>2, PlacesAre
<1>6. CASE pc = "colon"
  <2> DEFINE B == Then(Before(K, Labelled), Named)
  <2>1. SpaceMayFollow(B)
    BY SpaceIsNothingNew
  <2>2. Colon \in Texts => text \in B
    BY <1>6 DEF Stand
  <2> HIDE DEF B
  <2>3. Colon \in Texts => text' \in B
    BY <1>1, <1>2, <2>1, <2>2, GoalSpace
  <2> QED BY <1>1, <1>6, <2>3, PlacesAre DEF B
<1> QED BY <1>1, <1>3, <1>4, <1>5, <1>6 DEF BeforeAValue

LEMMA CommaKeepsPlace ==
    ASSUME IInv, NEW K, NEW O, Fitting(K, O), Stand(K), NextElement \/ NextMember
    PROVE  Stand(K)'
<1>1. ASSUME NEW label, Move("after", ",", label)
      PROVE  /\ text' = Cat(text, Comma) /\ Comma \in Texts /\ text \in K /\ pc' = label /\ Len(text') >= 1
  <2>1. Consume /\ Chr(peek) = Comma
    BY <1>1, Zenon DEF Move, Comma
  <2>2. pc' = label /\ pc = "after"
    BY <1>1, Zenon DEF Move, Goto
  <2>3. text \in K
    BY <2>2 DEF Stand
  <2> QED BY <2>1, <2>2, <2>3, MovesOn, TextIs
<1>2. CASE NextElement
  <2>1. In("array") /\ Move("after", ",", "element")
    BY <1>2, Zenon DEF NextElement
  <2>2. /\ text' = Cat(text, Comma) /\ Comma \in Texts /\ text \in ArrayGoal(O) /\ pc' = "element"
        /\ K = ArrayGoal(O) /\ Len(text') >= 1
    BY <1>1, <2>1 DEF Fitting
  <2>3. text' \in Before(K, Padded)
    BY <2>2, ArrayGoesOn, ElementFollows
  <2> QED BY <2>2, <2>3, PlacesAre DEF BeforeAValue
<1>3. CASE NextMember
  <2>1. In("object") /\ Move("after", ",", "member")
    BY <1>3, Zenon DEF NextMember
  <2>2. /\ text' = Cat(text, Comma) /\ Comma \in Texts /\ text \in ObjectGoal(O) /\ pc' = "member"
        /\ K = ObjectGoal(O)
    BY <1>1, <2>1 DEF Fitting
  <2>3. text' \in Before(K, Labelled)
    BY <2>2, ObjectGoesOn, MemberFollows
  <2> QED BY <2>2, <2>3, PlacesAre
<1> QED BY <1>2, <1>3

LEMMA ColonKeepsPlace ==
    ASSUME IInv, NEW K, Stand(K), Separator
    PROVE  Stand(K)'
<1>1. pc = "colon" /\ Chr(peek) = Colon /\ Consume /\ pc' = "value"
  BY Zenon DEF Separator, Move, Goto, Colon
<1>2. text' = Cat(text, Colon) /\ Colon \in Texts /\ Len(text') >= 1
  BY <1>1, MovesOn, TextIs
<1>3. text \in Then(Before(K, Labelled), Named)
  BY <1>1, <1>2 DEF Stand
<1>4. text' \in Before(K, Padded)
  BY <1>2, <1>3, ColonFollows
<1> QED BY <1>1, <1>2, <1>4, PlacesAre DEF BeforeAValue

LEMMA StringBegins ==
    ASSUME IInv, NEW K, Stand(K), EnterKey \/ EnterValueString
    PROVE  Stand(K)'
<1>1. Len(<<>>) = 0 /\ ~Shielded(<<>>, 1) /\ QuotesShielded(<<>>) /\ <<>> = Empty
  BY EmptySeq DEF Shielded, QuotesShielded, Empty
<1>2. ASSUME NEW from, NEW label \in InString, EnterString(from, label),
             label = "key" => text \in Before(K, Labelled) /\ peek \in NameStarts,
             label = "string" => text \in Before(K, Padded) /\ Chr(peek) = Quote
      PROVE  Stand(K)'
  <2>1. Consume /\ pc' = label /\ buffer' = <<>> /\ inSlash' = FALSE
    BY <1>2 DEF EnterString, Goto
  <2>2. QuotesShielded(buffer') /\ (inSlash' <=> Shielded(buffer', Len(buffer') + 1))
    <3>1. ~Shielded(buffer', Len(buffer') + 1)
      BY <1>1, <2>1
    <3> QED BY <1>1, <2>1, <3>1, Zenon
  <2>3. text \in Texts /\ peek \in Alphabet /\ text' = Cat(text, Chr(peek)) /\ text' \in Texts
    BY <2>1, MovesOn, TextIs
  <2>4. text' = Cat(Cat(text, Chr(peek)), buffer')
    BY <1>1, <2>1, <2>3, CatEmpty
  <2>5. InsideString(K)'
    <3>1. \E pre \in Texts, c \in Alphabet :
            /\ text' = Cat(Cat(pre, Chr(c)), buffer')
            /\ pc' = "key" => pre \in Before(K, Labelled) /\ c \in NameStarts
            /\ pc' = "string" => pre \in Before(K, Padded) /\ Chr(c) = Quote
      BY <1>2, <2>1, <2>3, <2>4, Zenon
    <3> QED BY <2>2, <3>1 DEF InsideString
  <2> QED BY <1>2, <2>1, <2>5, PlacesAre
<1>3. CASE EnterKey
  <2>1. EnterString({"member"}, "key") /\ Consume /\ pc = "member"
    BY <1>3, Zenon DEF EnterKey, EnterString
  <2>2. peek \notin Whitespace \cup {"}"}
    BY <1>3, Zenon DEF EnterKey
  <2>3. text \in Before(K, Labelled) /\ peek \in Alphabet
    BY <2>1, MovesOn DEF Stand
  <2>4. peek \in NameStarts
    BY <2>2, <2>3, Zenon DEF NameStarts
  <2> QED BY <1>2, <2>1, <2>3, <2>4 DEF InString
<1>4. CASE EnterValueString
  <2>1. EnterString({"element", "value"}, "string") /\ pc \in BeforeAValue /\ Chr(peek) = Quote
    BY <1>4 DEF EnterValueString, EnterString, BeforeAValue, Quote
  <2>2. text \in Before(K, Padded)
    BY <2>1 DEF Stand
  <2> QED BY <1>2, <2>1, <2>2 DEF InString
<1> QED BY <1>3, <1>4

LEMMA StringGoesOn ==
    ASSUME IInv, NEW K, Stand(K), StringChar
    PROVE  Stand(K)'
<1>1. /\ pc \in InString /\ pc' = pc /\ (peek = "quote" => inSlash) /\ Keep /\ Consume
      /\ inSlash' = CASE peek = "slash" -> TRUE
                      [] peek = "quote" -> inSlash
                      [] OTHER -> FALSE
  BY DEF StringChar, Keep
<1>2. QuotesShielded(buffer) /\ (inSlash <=> Shielded(buffer, Len(buffer) + 1))
  BY <1>1 DEF Stand, InsideString
<1>3. PICK pre \in Texts, c \in Alphabet :
          /\ text = Cat(Cat(pre, Chr(c)), buffer)
          /\ pc = "key" => pre \in Before(K, Labelled) /\ c \in NameStarts
          /\ pc = "string" => pre \in Before(K, Padded) /\ Chr(c) = Quote
  BY <1>1 DEF Stand, InsideString
<1>4. /\ peek \in Alphabet /\ Chr(peek) \in Texts /\ text' = Cat(text, Chr(peek))
      /\ buffer' = Append(buffer, peek) /\ buffer' = Cat(buffer, Chr(peek)) /\ Len(buffer') = Len(buffer) + 1
      /\ buffer \in Texts /\ Len(buffer) \in Nat
  BY <1>1, MovesOn, KeepsIt, TextIs
<1>5. QuotesShielded(buffer')
  <2>1. peek = "quote" => Shielded(buffer, Len(buffer) + 1)
    BY <1>1, <1>2, Zenon
  <2> QED BY <1>2, <1>4, <2>1, StringGrows
<1>6. inSlash' <=> Shielded(buffer', Len(buffer') + 1)
  <2>1. Shielded(Append(buffer, peek), Len(buffer) + 2)
          <=> peek = "slash" \/ (peek = "quote" /\ Shielded(buffer, Len(buffer) + 1))
    BY <1>4, ShieldedBehind
  <2>2. Len(buffer') + 1 = Len(buffer) + 2
    BY <1>4
  <2>3. Shielded(buffer', Len(buffer') + 1) <=> Shielded(Append(buffer, peek), Len(buffer) + 2)
    BY <1>4, <2>2
  <2>4. CASE peek = "slash"
    <3>1. inSlash' = TRUE
      BY <1>1, <2>4
    <3> QED BY <2>1, <2>3, <2>4, <3>1, Zenon
  <2>5. CASE peek = "quote"
    <3>1. inSlash' = inSlash /\ peek # "slash"
      BY <1>1, <2>5
    <3> QED BY <1>2, <2>1, <2>3, <2>5, <3>1, Zenon
  <2>6. CASE peek \notin {"slash", "quote"}
    <3>1. inSlash' = FALSE
      BY <1>1, <2>6
    <3>2. peek # "slash" /\ peek # "quote"
      BY <2>6
    <3> QED BY <2>1, <2>3, <3>1, <3>2, Zenon
  <2> QED BY <2>4, <2>5, <2>6
<1>7. text' = Cat(Cat(pre, Chr(c)), buffer')
  <2>1. Chr(c) \in Texts /\ Cat(pre, Chr(c)) \in Texts
    BY ChrIs, CatIs
  <2>2. Cat(Cat(Cat(pre, Chr(c)), buffer), Chr(peek)) = Cat(Cat(pre, Chr(c)), Cat(buffer, Chr(peek)))
    BY <1>4, <2>1, CatAssociative
  <2> QED BY <1>3, <1>4, <2>2, Zenon
<1>8. InsideString(K)'
  <2>1. \E q \in Texts, d \in Alphabet :
          /\ text' = Cat(Cat(q, Chr(d)), buffer')
          /\ pc' = "key" => q \in Before(K, Labelled) /\ d \in NameStarts
          /\ pc' = "string" => q \in Before(K, Padded) /\ Chr(d) = Quote
    BY <1>1, <1>3, <1>7, Zenon
  <2> QED BY <1>5, <1>6, <2>1 DEF InsideString
<1> QED BY <1>1, <1>8, PlacesAre

\* Room for what is still to come: a mark for each array or object in progress.
Roomy == Len(text) + Len(frames) <= MaxChars

LEMMA StringEnds ==
    ASSUME IInv, ShortStrings, Roomy', NEW K, Stand(K), EndString
    PROVE  Stand(K)'
<1>1. /\ pc \in InString /\ Chr(peek) = Quote /\ ~inSlash /\ Consume /\ frames' = frames
      /\ pc' = (IF pc = "key" THEN "colon" ELSE "after")
  <2>1. Due("on_string") /\ Consume /\ frames' = frames /\ pc' = (IF pc = "key" THEN "colon" ELSE "after")
    BY DEF EndString, Goto, Send
  <2>2. pc \in InString /\ peek = "quote" /\ ~inSlash
    BY <2>1, Zenon DEF Due
  <2> QED BY <2>1, <2>2 DEF Quote
<1>2. PICK pre \in Texts, c \in Alphabet :
          /\ text = Cat(Cat(pre, Chr(c)), buffer)
          /\ pc = "key" => pre \in Before(K, Labelled) /\ c \in NameStarts
          /\ pc = "string" => pre \in Before(K, Padded) /\ Chr(c) = Quote
  BY <1>1 DEF Stand, InsideString
<1>3. /\ Quote \in Texts /\ text' = Cat(text, Quote) /\ Len(text') = Len(text) + 1 /\ text' \in Texts
      /\ text \in Texts /\ buffer \in Texts
  BY <1>1, MovesOn, TextIs
<1>4. Chr(c) \in Texts /\ Len(Chr(c)) = 1 /\ Cat(pre, Chr(c)) \in Texts
  BY ChrIs, CatIs
<1>5. Len(frames) >= 1
  <2>1. frames # <<>>
    BY <1>1, TextIs DEF FramesFitPc, InString
  <2> QED BY <2>1, Heights
<1>6. PICK m \in Nat, n \in Nat, l \in Nat, f \in Nat :
          m = Len(pre) /\ n = Len(buffer) /\ l = Len(text) /\ f = Len(frames)
  BY <1>3, TextIs, CatIs, LenProperties DEF Texts
<1>7. l = (m + 1) + n /\ (l + 1) + f <= MaxChars /\ f >= 1
  <2>1. Len(Cat(pre, Chr(c))) = Len(pre) + 1
    BY <1>4, CatIs
  <2>2. Len(Cat(Cat(pre, Chr(c)), buffer)) = Len(Cat(pre, Chr(c))) + Len(buffer)
    BY <1>3, <1>4, CatIs
  <2>3. Len(text) = Len(Cat(pre, Chr(c))) + Len(buffer)
    BY <1>2, <2>2
  <2> QED BY <1>1, <1>3, <1>5, <1>6, <2>1, <2>3 DEF Roomy
<1>8. IsBody(buffer)
  <2>1. QuotesShielded(buffer)
    BY <1>1 DEF Stand, InsideString
  <2>2. ~Shielded(buffer, Len(buffer) + 1)
    <3>1. InsideString(K)
      BY <1>1 DEF Stand
    <3> QED BY <1>1, <3>1, Zenon DEF InsideString
  <2>3. Len(buffer) <= MaxString
    BY <1>1 DEF ShortStrings
  <2>4. n + 3 <= MaxChars
    BY <1>7, BoundsAssumption
  <2> QED BY <1>3, <1>6, <2>1, <2>2, <2>3, <2>4 DEF IsBody
<1> DEFINE r == Cat(buffer, Quote)
           w == Cat(Chr(c), r)
<1>9. text' = Cat(pre, w) /\ w \in Texts
  <2>1. r \in Texts /\ w \in Texts
    BY <1>3, <1>4, CatIs
  <2>2. Cat(Cat(Cat(pre, Chr(c)), buffer), Quote) = Cat(Cat(pre, Chr(c)), r)
    BY <1>3, <1>4, CatAssociative
  <2>3. Cat(Cat(pre, Chr(c)), r) = Cat(pre, w)
    BY <1>4, <2>1, CatAssociative
  <2> QED BY <1>2, <1>3, <2>1, <2>2, <2>3, Zenon
<1> HIDE DEF r
<1>10. CASE pc = "key"
  <2>1. ASSUME Colon \in Texts PROVE text' \in Then(Before(K, Labelled), Named)
    <3>1. c \in NameStarts /\ pre \in Before(K, Labelled)
      BY <1>2, <1>10
    <3>2. w \in Named
      BY <1>3, <1>8, <2>1, <3>1, NameIs DEF r
    <3> HIDE DEF w
    <3> QED BY <1>9, <3>1, <3>2, NameFits
  <2>2. pc' = "colon"
    BY <1>1, <1>10
  <2> QED BY <2>1, <2>2, PlacesAre
<1>11. CASE pc = "string"
  <2>1. Chr(c) = Quote /\ pre \in Before(K, Padded)
    BY <1>2, <1>11
  <2>2. w \in Padded
    BY <1>3, <1>8, <2>1, StringIs DEF r
  <2> HIDE DEF w
  <2>3. InBound(text')
    BY <1>1, <1>3, <1>6, <1>7, BoundsAssumption DEF InBound
  <2>4. text' \in K
    BY <1>9, <2>1, <2>2, <2>3, ValueFits
  <2>5. pc' = "after"
    BY <1>1, <1>11
  <2> QED BY <2>4, <2>5, PlacesAre
<1> QED BY <1>1, <1>10, <1>11 DEF InString
-----------------------------------------------------------------------------
LEMMA NumberBegins ==
    ASSUME IInv, NEW K, Stand(K), EnterNumber
    PROVE  Stand(K)'
<1>1. /\ pc \in BeforeAValue /\ pc' = "int_first"
      /\ IF peek = "-" THEN Consume /\ buffer' = <<"-">> ELSE buffer' = <<>> /\ UNCHANGED input
  BY DEF EnterNumber, Goto, BeforeAValue
<1>2. text \in Before(K, Padded) /\ Len(text) >= 1 /\ text \in Texts
  BY <1>1, TextIs DEF Stand
<1>3. ASSUME text' = Cat(text, buffer'), buffer' \in {Empty} \cup Sign(Minus)
      PROVE  Stand(K)'
  <2>1. NumberSoFar'
    BY <1>1, <1>3 DEF NumberSoFar
  <2>2. InsideNumber(K)'
    BY <1>2, <1>3, <2>1 DEF InsideNumber
  <2> QED BY <1>1, <2>2, PlacesAre DEF InNumber, InInteger
<1>4. CASE peek = "-"
  <2>1. Consume /\ buffer' = Chr(peek)
    BY <1>1, <1>4 DEF Chr
  <2>2. text' = Cat(text, buffer') /\ peek \in Alphabet
    BY <2>1, MovesOn
  <2>3. buffer' \in Sign(Minus)
    BY <1>4, <2>1, <2>2 DEF Sign, Minus
  <2> QED BY <1>3, <2>2, <2>3
<1>5. CASE peek # "-"
  <2>1. text' = text /\ buffer' = Empty
    BY <1>1, <1>5 DEF input, Empty
  <2>2. text' = Cat(text, buffer')
    BY <1>2, <2>1, CatEmpty
  <2> QED BY <1>3, <2>1, <2>2
<1> QED BY <1>4, <1>5

\* Each kind of beginning of a number, and a character that goes on with it.
LEMMA SignedGoesOn ==
    ASSUME NEW signs, Sign(signs) \subseteq Texts, NEW c \in Alphabet, c \in Digits
    PROVE  /\ Chr(c) \in Signed(signs)
           /\ \A w \in Sign(signs) \cup Signed(signs) : Cat(w, Chr(c)) \in Signed(signs)
<1>0. Figures \subseteq Texts /\ \A w \in Figures : Cat(w, Chr(c)) \in Figures
  BY FiguresAre
<1>1. Chr(c) \in Figures
  BY FiguresAre
<1>2. ASSUME NEW w \in Sign(signs) PROVE Cat(w, Chr(c)) \in Signed(signs)
  BY <1>1 DEF Then, Signed
<1>3. ASSUME NEW w \in Then(Sign(signs), Figures) PROVE Cat(w, Chr(c)) \in Then(Sign(signs), Figures)
  BY <1>0, ThenGrows
<1> QED BY <1>0, <1>1, <1>2, <1>3 DEF Signed

LEMMA FractionGoesOn ==
    ASSUME NEW c \in Alphabet, c \in Digits
    PROVE  /\ \A w \in Then(Signed(Minus), Points) : Cat(w, Chr(c)) \in Then(Signed(Minus), Fractions)
           /\ \A w \in Then(Signed(Minus), Fractions) : Cat(w, Chr(c)) \in Then(Signed(Minus), Fractions)
<1>1. Signed(Minus) \subseteq Texts /\ Points \subseteq Texts /\ Fractions \subseteq Texts /\ Figures \subseteq Texts
  BY PartsAreWritten, WrittenIs
<1>2. \A p \in Points : Cat(p, Chr(c)) \in Fractions
  BY FiguresAre DEF Fractions, Then
<1>3. \A p \in Fractions : Cat(p, Chr(c)) \in Fractions
  BY <1>1, FiguresAre, ThenGrows DEF Fractions
<1> QED BY <1>1, <1>2, <1>3, ThenGrows

LEMMA ExponentGoesOn ==
    ASSUME NEW c \in Alphabet
    PROVE  /\ c \in ExponentMarks =>
                 \A w \in Mantissas : Cat(w, Chr(c)) \in Then(Mantissas, Marks)
           /\ c \in EitherSign => \A w \in Then(Mantissas, Marks) :
                 Cat(w, Chr(c)) \in Then(Mantissas, Then(Marks, Sign(EitherSign)))
           /\ c \in Digits =>
                 /\ \A w \in Then(Mantissas, Marks) : Cat(w, Chr(c)) \in Then(Mantissas, Exponents)
                 /\ \A w \in Then(Mantissas, Then(Marks, Sign(EitherSign))) :
                       Cat(w, Chr(c)) \in Then(Mantissas, Exponents)
                 /\ \A w \in Then(Mantissas, Exponents) : Cat(w, Chr(c)) \in Then(Mantissas, Exponents)
<1>1. /\ Mantissas \subseteq Texts /\ Marks \subseteq Texts /\ Exponents \subseteq Texts
      /\ Sign(EitherSign) \subseteq Texts /\ Signed(EitherSign) \subseteq Texts
  BY PartsAreWritten, WrittenIs
<1>2. Then(Marks, Sign(EitherSign)) \subseteq Texts
  BY <1>1, ThenIsTexts
<1>3. ASSUME c \in ExponentMarks, NEW w \in Mantissas PROVE Cat(w, Chr(c)) \in Then(Mantissas, Marks)
  BY <1>3 DEF Marks, Then
<1>4. ASSUME c \in EitherSign, NEW w \in Then(Mantissas, Marks)
      PROVE  Cat(w, Chr(c)) \in Then(Mantissas, Then(Marks, Sign(EitherSign)))
  <2>1. \A m \in Marks : Cat(m, Chr(c)) \in Then(Marks, Sign(EitherSign))
    BY <1>4 DEF Sign, Then
  <2> QED BY <1>1, <2>1, ThenGrows
<1>5. ASSUME c \in Digits
      PROVE  /\ \A m \in Marks : Cat(m, Chr(c)) \in Exponents
             /\ \A m \in Then(Marks, Sign(EitherSign)) : Cat(m, Chr(c)) \in Exponents
             /\ \A m \in Exponents : Cat(m, Chr(c)) \in Exponents
  <2>1. /\ Chr(c) \in Signed(EitherSign)
        /\ \A w \in Sign(EitherSign) \cup Signed(EitherSign) : Cat(w, Chr(c)) \in Signed(EitherSign)
    BY <1>1, <1>5, SignedGoesOn
  <2>2. \A m \in Marks : Cat(m, Chr(c)) \in Exponents
    BY <2>1 DEF Exponents, Then
  <2>3. \A m \in Then(Marks, Sign(EitherSign)) : Cat(m, Chr(c)) \in Exponents
    BY <1>1, <2>1, ThenGrows DEF Exponents
  <2>4. \A m \in Exponents : Cat(m, Chr(c)) \in Exponents
    BY <1>1, <2>1, ThenGrows DEF Exponents
  <2> QED BY <2>2, <2>3, <2>4
<1>6. ASSUME c \in Digits, NEW w \in Then(Mantissas, Marks) PROVE Cat(w, Chr(c)) \in Then(Mantissas, Exponents)
  BY <1>1, <1>5, <1>6, ThenGrows
<1>7. ASSUME c \in Digits, NEW w \in Then(Mantissas, Then(Marks, Sign(EitherSign)))
      PROVE  Cat(w, Chr(c)) \in Then(Mantissas, Exponents)
  BY <1>1, <1>2, <1>5, <1>7, ThenGrows
<1>8. ASSUME c \in Digits, NEW w \in Then(Mantissas, Exponents) PROVE Cat(w, Chr(c)) \in Then(Mantissas, Exponents)
  BY <1>1, <1>5, <1>8, ThenGrows
<1> QED BY <1>3, <1>4, <1>6, <1>7, <1>8

LEMMA NumberGrows ==
    ASSUME IInv, NumberSoFar, NumberChar
    PROVE  NumberSoFar' /\ pc \in InNumber /\ pc' \in InNumber /\ Keep
<1> DEFINE next == Cat(buffer, Chr(peek))
<1>1. Keep
  BY Zenon DEF NumberChar
<1>2. peek \in Alphabet /\ buffer' = next /\ buffer \in Texts /\ Chr(peek) \in Texts
  BY <1>1, KeepsIt, MovesOn, TextIs DEF Keep
<1> HIDE DEF next
<1>3. \/ pc \in {"int_first", "int"} /\ peek \in Digits /\ pc' = "int"
      \/ pc = "int" /\ Chr(peek) \in Points /\ pc' = "frac_first"
      \/ pc \in {"frac_first", "frac"} /\ peek \in Digits /\ pc' = "frac"
      \/ pc \in {"int", "frac"} /\ peek \in ExponentMarks /\ pc' = "exp_sign"
      \/ pc = "exp_sign" /\ peek \in EitherSign /\ pc' = "exp_first"
      \/ pc \in {"exp_sign", "exp_first", "exp"} /\ peek \in Digits /\ pc' = "exp"
  <2>1. peek = "." => Chr(peek) \in Points
    BY <1>2 DEF Points
  <2> QED BY <2>1, Zenon DEF NumberChar, Goto, EitherSign
<1>4. pc \in InNumber /\ pc' \in InNumber
  BY <1>3 DEF InNumber, InInteger, InReal
<1>5. CASE pc \in {"int_first", "int"} /\ peek \in Digits /\ pc' = "int"
  <2>1. buffer \in {Empty} \cup Sign(Minus) \cup Signed(Minus)
    BY <1>5 DEF NumberSoFar
  <2>2. Sign(Minus) \subseteq Texts
    BY PartsAreWritten, WrittenIs
  <2>3. Cat(Empty, Chr(peek)) = Chr(peek)
    BY <1>2, CatEmpty
  <2>4. next \in Signed(Minus)
    BY <1>2, <1>5, <2>1, <2>2, <2>3, SignedGoesOn DEF next
  <2> QED BY <1>1, <1>2, <1>4, <1>5, <2>4 DEF NumberSoFar
<1>6. CASE pc = "int" /\ Chr(peek) \in Points /\ pc' = "frac_first"
  <2>1. buffer \in Signed(Minus)
    BY <1>6 DEF NumberSoFar
  <2>2. next \in Then(Signed(Minus), Points)
    BY <1>6, <2>1 DEF Then, next
  <2> QED BY <1>1, <1>2, <1>4, <1>6, <2>2 DEF NumberSoFar
<1>7. CASE pc \in {"frac_first", "frac"} /\ peek \in Digits /\ pc' = "frac"
  <2>1. buffer \in Then(Signed(Minus), Points) \cup Then(Signed(Minus), Fractions)
    BY <1>7 DEF NumberSoFar
  <2>2. next \in Then(Signed(Minus), Fractions)
    BY <1>2, <1>7, <2>1, FractionGoesOn DEF next
  <2> QED BY <1>1, <1>2, <1>4, <1>7, <2>2 DEF NumberSoFar
<1>8. CASE pc \in {"int", "frac"} /\ peek \in ExponentMarks /\ pc' = "exp_sign"
  <2>1. buffer \in Mantissas
    BY <1>8 DEF NumberSoFar, Mantissas
  <2>2. next \in Then(Mantissas, Marks)
    BY <1>2, <1>8, <2>1, ExponentGoesOn DEF next
  <2> QED BY <1>1, <1>2, <1>4, <1>8, <2>2 DEF NumberSoFar
<1>9. CASE pc = "exp_sign" /\ peek \in EitherSign /\ pc' = "exp_first"
  <2>1. buffer \in Then(Mantissas, Marks)
    BY <1>9 DEF NumberSoFar
  <2>2. next \in Then(Mantissas, Then(Marks, Sign(EitherSign)))
    BY <1>2, <1>9, <2>1, ExponentGoesOn DEF next
  <2> QED BY <1>1, <1>2, <1>4, <1>9, <2>2 DEF NumberSoFar
<1>10. CASE pc \in {"exp_sign", "exp_first", "exp"} /\ peek \in Digits /\ pc' = "exp"
  <2>1. buffer \in Then(Mantissas, Marks) \cup Then(Mantissas, Then(Marks, Sign(EitherSign)))
                     \cup Then(Mantissas, Exponents)
    BY <1>10 DEF NumberSoFar
  <2>2. next \in Then(Mantissas, Exponents)
    BY <1>2, <1>10, <2>1, ExponentGoesOn DEF next
  <2> QED BY <1>1, <1>2, <1>4, <1>10, <2>2 DEF NumberSoFar
<1> QED BY <1>3, <1>5, <1>6, <1>7, <1>8, <1>9, <1>10

LEMMA NumberGoesOn ==
    ASSUME IInv, NEW K, Stand(K), NumberChar
    PROVE  Stand(K)'
<1>1. pc \in InNumber
  BY DEF NumberChar, InNumber, InInteger, InReal
<1>2. InsideNumber(K)
  BY <1>1 DEF Stand
<1>3. NumberSoFar' /\ pc' \in InNumber /\ Keep
  BY <1>2, NumberGrows DEF InsideNumber
<1>4. PICK pre \in Before(K, Padded) : Len(pre) >= 1 /\ text = Cat(pre, buffer)
  BY <1>2 DEF InsideNumber
<1>5. /\ Chr(peek) \in Texts /\ text' = Cat(text, Chr(peek)) /\ buffer' = Cat(buffer, Chr(peek))
      /\ buffer \in Texts /\ pre \in Texts
  BY <1>3, MovesOn, KeepsIt, TextIs, BeforeIsTexts DEF Keep
<1>6. text' = Cat(pre, buffer')
  BY <1>4, <1>5, CatAssociative
<1>7. InsideNumber(K)'
  BY <1>3, <1>4, <1>6 DEF InsideNumber
<1> QED BY <1>3, <1>7, PlacesAre

LEMMA InContainer ==
    ASSUME IInv, pc # "top"
    PROVE  frames # <<>> /\ Len(frames) >= 1
BY Heights DEF IInv, FramesFitPc

LEMMA NumberCloses ==
    ASSUME IInv, Roomy, NEW K, Stand(K), pc \in {"int", "frac", "exp"}
    PROVE  text \in K
<1>1. InsideNumber(K)
  BY DEF Stand, InNumber, InInteger, InReal
<1>2. buffer \in NumberTexts
  BY <1>1 DEF InsideNumber, NumberSoFar, NumberTexts, Mantissas
<1>3. PICK pre \in Before(K, Padded) : Len(pre) >= 1 /\ text = Cat(pre, buffer)
  BY <1>1 DEF InsideNumber
<1>4. pre \in Texts /\ buffer \in Texts /\ text \in Texts
  BY TextIs, BeforeIsTexts
<1>5. Len(frames) >= 1
  BY InContainer
<1>6. PICK m \in Nat, n \in Nat, l \in Nat, f \in Nat :
          m = Len(pre) /\ n = Len(buffer) /\ l = Len(text) /\ f = Len(frames)
  BY <1>4, TextIs, LenProperties DEF Texts
<1>7. l = m + n /\ l + f <= MaxChars /\ f >= 1 /\ m >= 1
  <2>1. Len(Cat(pre, buffer)) = Len(pre) + Len(buffer)
    BY <1>4, CatIs
  <2>2. Len(text) = Len(pre) + Len(buffer)
    BY <1>3, <2>1
  <2>3. Len(pre) >= 1 /\ Len(text) + Len(frames) <= MaxChars
    BY <1>3 DEF Roomy
  <2> QED BY <1>5, <1>6, <2>2, <2>3
<1>8. n + 2 <= MaxChars /\ l <= MaxChars
  BY <1>7, BoundsAssumption
<1>9. buffer \in Padded /\ InBound(text)
  BY <1>2, <1>6, <1>8, NumberIs DEF InBound
<1>10. InBound(Cat(pre, buffer))
  BY <1>3, <1>9
<1>11. Cat(pre, buffer) \in K
  BY <1>9, <1>10, ValueFits
<1> QED BY <1>3, <1>11

LEMMA LiteralBegins ==
    ASSUME IInv, NEW K, Stand(K), EnterLiteral
    PROVE  Stand(K)'
<1>1. /\ pc \in BeforeAValue /\ peek \in {"t", "f", "n"} /\ Consume /\ want' = Rest(peek)
      /\ pc' = (IF peek = "n" THEN "null" ELSE "boolean")
  BY DEF EnterLiteral, Goto, BeforeAValue
<1>2. text \in Before(K, Padded)
  BY <1>1 DEF Stand
<1>3. Chr(peek) \in Texts /\ text' = Cat(text, Chr(peek))
  BY <1>1, MovesOn
<1>4. Chr(peek) \o want' \in Spelled
  BY <1>1, LiteralStarts DEF Chr
<1>5. InsideLiteral(K)'
  <2>1. \E pre \in Before(K, Padded), done \in Texts : text' = Cat(pre, done) /\ done \o want' \in Spelled
    BY <1>2, <1>3, <1>4
  <2> QED BY <2>1 DEF InsideLiteral
<1>6. pc' \in InLiteral
  BY <1>1 DEF InLiteral
<1> QED BY <1>5, <1>6, PlacesAre

LEMMA LiteralKeepsPlace ==
    ASSUME IInv, NEW K, Stand(K), LiteralChar
    PROVE  Stand(K)'
<1>1. pc \in InLiteral /\ pc' = pc /\ want # <<>> /\ peek = Head(want) /\ Consume /\ want' = Tail(want)
  BY DEF LiteralChar
<1>2. PICK pre \in Before(K, Padded), done \in Texts : text = Cat(pre, done) /\ done \o want \in Spelled
  BY <1>1 DEF Stand, InsideLiteral
<1>3. Chr(peek) \in Texts /\ text' = Cat(text, Chr(peek)) /\ pre \in Texts
  BY <1>1, MovesOn, BeforeIsTexts
<1> DEFINE next == Cat(done, Chr(peek))
<1>4. next \in Texts /\ text' = Cat(pre, next)
  BY <1>2, <1>3, CatIs, CatAssociative
<1>5. next \o want' = done \o want
  <2>1. done \in Seq(Char)
    <3> HIDE DEF Char
    <3>1. Alphabet \subseteq Char
      BY AlphabetAssumption
    <3>2. \A i \in 1 .. Len(done) : done[i] \in Alphabet
      BY ElementOfSeq DEF Texts
    <3>3. done \in [1 .. Len(done) -> Char] /\ Len(done) \in Nat
      BY <3>1, <3>2, LenProperties DEF Texts
    <3> QED BY <3>3, IsASeq
  <2>2. want \in Seq(Char)
    BY DEF IInv, TypeOK
  <2>3. (done \o <<Head(want)>>) \o Tail(want) = done \o want
    BY <1>1, <2>1, <2>2, LiteralGoesOn
  <2> QED BY <1>1, <2>3 DEF Cat, Chr
<1> HIDE DEF next
<1>6. InsideLiteral(K)'
  <2>1. \E q \in Before(K, Padded), d \in Texts : text' = Cat(q, d) /\ d \o want' \in Spelled
    BY <1>2, <1>4, <1>5
  <2> QED BY <2>1 DEF InsideLiteral
<1> QED BY <1>1, <1>6, PlacesAre

LEMMA LiteralCloses ==
    ASSUME IInv, InBound(text), NEW K, Stand(K), pc \in InLiteral, want = <<>>
    PROVE  text \in K
<1>1. PICK pre \in Before(K, Padded), done \in Texts : text = Cat(pre, done) /\ done \o want \in Spelled
  BY DEF Stand, InsideLiteral
<1>2. pre \in Texts
  BY BeforeIsTexts
<1>3. done \o <<>> = done
  BY ConcatEmptySeq DEF Texts
<1>4. done \in Spelled
  BY <1>1, <1>3
<1>5. InBound(Cat(pre, done))
  BY <1>1
<1>6. InBound(done)
  BY <1>2, <1>5, PartInBound
<1>7. done \in Padded
  BY <1>4, <1>6, LiteralIs
<1>8. Cat(pre, done) \in K
  BY <1>5, <1>7, ValueFits
<1> QED BY <1>1, <1>8

LEMMA ScalarCloses ==
    ASSUME IInv, Roomy, NEW K, Stand(K), EndScalar
    PROVE  Stand(K)'
<1>1. PICK ev \in Scalars \ {"on_string"} : Due(ev)
  BY DEF EndScalar, Send
<1>2. pc' = "after" /\ text' = text
  BY DEF EndScalar, Goto, input
<1>3. pc \in {"int", "frac", "exp"} \/ (pc \in InLiteral /\ want = <<>>)
  BY <1>1, Zenon DEF Due, Scalars, InLiteral
<1>4. InBound(text)
  <2>1. PICK l \in Nat, f \in Nat : l = Len(text) /\ f = Len(frames)
    BY TextIs
  <2>2. l + f <= MaxChars
    BY <2>1 DEF Roomy
  <2> QED BY <2>1, <2>2, BoundsAssumption DEF InBound
<1>5. text \in K
  BY <1>3, <1>4, NumberCloses, LiteralCloses
<1> QED BY <1>2, <1>5, PlacesAre
-----------------------------------------------------------------------------
\* And every step from one level to another.

LEMMA ValueMayBegin ==
    ASSUME NEW K, NEW O, Fitting(K, O), Stand(K), pc \in {"top", "element", "value"}
    PROVE  text \in Before(K, Containers)
<1>1. CASE pc = "top"
  BY <1>1, ContainerFollows DEF Stand, Fitting
<1>2. CASE pc \in BeforeAValue
  BY <1>2, ContainerFollows DEF Stand
<1> QED BY <1>1, <1>2 DEF BeforeAValue

LEMMA ArrayOpens ==
    ASSUME IInv, NEW K, NEW O, Fitting(K, O), Stand(K), BeginArray
    PROVE  Stand(ArrayGoal(K))'
<1>1. pc \in {"top", "element", "value"} /\ Chr(peek) = OpenArray /\ Consume /\ pc' = "element"
  <2>1. Due("on_array_begin") /\ Consume /\ pc' = "element"
    BY DEF BeginArray, BeginContainer, Send, Goto
  <2> QED BY <2>1, Zenon DEF Due, OpenArray
<1>2. text' = Cat(text, OpenArray) /\ OpenArray \in Texts /\ Len(text') >= 1
  BY <1>1, MovesOn, TextIs
<1>3. text' \in Before(ArrayGoal(K), Padded)
  BY <1>1, <1>2, ValueMayBegin, ArrayBegins, ElementFollows
<1> DEFINE L == ArrayGoal(K)
<1> HIDE DEF L
<1>4. Stand(L)'
  BY <1>1, <1>2, <1>3, PlacesAre DEF L, BeforeAValue
<1> QED BY <1>4 DEF L

LEMMA ObjectOpens ==
    ASSUME IInv, NEW K, NEW O, Fitting(K, O), Stand(K), BeginObject
    PROVE  Stand(ObjectGoal(K))'
<1>1. pc \in {"top", "element", "value"} /\ Chr(peek) = OpenObject /\ Consume /\ pc' = "member"
  <2>1. Due("on_object_begin") /\ Consume /\ pc' = "member"
    BY Zenon DEF BeginObject, BeginContainer, Send, Goto
  <2> QED BY <2>1, Zenon DEF Due, OpenObject
<1>2. text' = Cat(text, OpenObject) /\ OpenObject \in Texts
  BY <1>1, MovesOn
<1>3. text' \in Before(ObjectGoal(K), Labelled)
  BY <1>1, <1>2, ValueMayBegin, ObjectBegins, MemberFollows
<1> DEFINE L == ObjectGoal(K)
<1> HIDE DEF L
<1>4. Stand(L)'
  BY <1>1, <1>3, PlacesAre DEF L
<1> QED BY <1>4 DEF L

LEMMA ContainerCloses ==
    ASSUME IInv, NEW K, NEW O, Fitting(K, O), Stand(K), InBound(text'), EndArray \/ EndObject
    PROVE  Stand(O)' /\ frames # <<>> /\ frames' = Front(frames)
<1>1. /\ pc = "after" /\ Consume /\ pc' \in {"top", "after"} /\ frames' = Front(frames)
      /\ \/ In("array") /\ Chr(peek) = CloseArray
         \/ In("object") /\ Chr(peek) = CloseObject
  <2>1. CASE EndArray
    <3>1. Due("on_array_end") /\ Consume /\ frames' = Front(frames) /\ pc' = ReturnTo(Front(frames))
      BY <2>1, Zenon DEF EndArray, EndContainer, Send, Goto
    <3>2. pc' \in {"top", "after"}
      BY <3>1 DEF ReturnTo
    <3> QED BY <3>1, <3>2, Zenon DEF Due, CloseArray
  <2>2. CASE EndObject
    <3>1. Due("on_object_end") /\ Consume /\ frames' = Front(frames) /\ pc' = ReturnTo(Front(frames))
      BY <2>2, Zenon DEF EndObject, EndContainer, Send, Goto
    <3>2. pc' \in {"top", "after"}
      BY <3>1 DEF ReturnTo
    <3> QED BY <3>1, <3>2, Zenon DEF Due, CloseObject
  <2> QED BY <2>1, <2>2
<1>2. text \in K /\ Chr(peek) \in Texts /\ text' = Cat(text, Chr(peek))
  BY <1>1, MovesOn DEF Stand
<1>3. CASE In("array") /\ Chr(peek) = CloseArray
  <2>1. text \in ArrayGoal(O) /\ CloseArray \in Texts /\ text' = Cat(text, CloseArray)
    BY <1>2, <1>3 DEF Fitting
  <2>2. text' \in O
    BY <2>1, ArrayEnds
  <2> QED BY <1>1, <1>3, <2>2, PlacesAre DEF In
<1>4. CASE In("object") /\ Chr(peek) = CloseObject
  <2>1. text \in ObjectGoal(O) /\ CloseObject \in Texts /\ text' = Cat(text, CloseObject)
    BY <1>2, <1>4 DEF Fitting
  <2>2. text' \in O
    BY <2>1, ObjectEnds
  <2> QED BY <1>1, <1>4, <2>2, PlacesAre DEF In
<1> QED BY <1>1, <1>3, <1>4

LEMMA NothingMoves ==
    ASSUME NEW K, Stand(K), UNCHANGED <<input, pc, frames, local, buffer>>
    PROVE  Stand(K)'
<1>1. text' = text /\ pc' = pc /\ inSlash' = inSlash /\ want' = want /\ buffer' = buffer
  BY DEF input, local
<1>2. InsideString(K)' = InsideString(K)
  BY <1>1 DEF InsideString
<1>3. InsideNumber(K)' = InsideNumber(K)
  BY <1>1 DEF InsideNumber, NumberSoFar
<1>4. InsideLiteral(K)' = InsideLiteral(K)
  BY <1>1 DEF InsideLiteral
<1> QED BY <1>1, <1>2, <1>3, <1>4 DEF Stand
-----------------------------------------------------------------------------
\* The invariant, and what it says at the end.

\* The iterator stays inside an input of at most MaxChars characters.
Bounded == Len(text) <= MaxChars /\ (peek # "end" => Len(text) < MaxChars)

PlaceInv == Bounded /\ (Roomy => Standing)

\* How a step changes the text and the arrays and objects in progress.
LEMMA StepsAre ==
    ASSUME IInv, ParserStep
    PROVE  \/ UNCHANGED <<input, frames>>
           \/ Consume /\ frames' = frames
           \/ Consume /\ \E kind \in Kinds : frames' = Append(frames, kind)
           \/ Consume /\ frames # <<>> /\ frames' = Front(frames)
<1>1. CASE BeginArray \/ BeginObject
  <2>1. Consume /\ (frames' = Append(frames, "array") \/ frames' = Append(frames, "object"))
    BY <1>1, Zenon DEF BeginArray, BeginObject, BeginContainer
  <2> QED BY <2>1 DEF Kinds
<1>2. CASE EndArray \/ EndObject
  <2>1. Consume /\ frames' = Front(frames)
    BY <1>2, Zenon DEF EndArray, EndObject, EndContainer
  <2>2. In("array") \/ In("object")
    BY <1>2, Zenon DEF EndArray, EndObject, EndContainer, Send, Due
  <2> QED BY <2>1, <2>2 DEF In
<1>3. CASE EndString \/ SkipWhitespace \/ NextElement \/ NextMember \/ Separator
  BY <1>3, Zenon DEF EndString, SkipWhitespace, NextElement, NextMember, Separator, Move
<1>4. CASE EnterKey \/ EnterValueString \/ StringChar \/ NumberChar \/ EnterLiteral \/ LiteralChar
  BY <1>4, Zenon DEF EnterKey, EnterValueString, EnterString, StringChar, NumberChar, Keep, EnterLiteral, LiteralChar
<1>5. CASE EnterNumber
  BY <1>5, Zenon DEF EnterNumber
<1>6. CASE EndScalar \/ StateThrows \/ Return \/ Overrun \/ Reject
  BY <1>6, Zenon DEF EndScalar, StateThrows, Return, Overrun, Reject, Stop
<1> QED BY <1>1, <1>2, <1>3, <1>4, <1>5, <1>6 DEF ParserStep

LEMMA RoomIsLeft ==
    ASSUME IInv, Bounded, ParserStep
    PROVE  Bounded' /\ (Roomy' => Roomy)
<1>1. PICK l \in Nat, f \in Nat : l = Len(text) /\ f = Len(frames)
  BY TextIs
<1>2. CASE UNCHANGED <<input, frames>>
  <2>1. text' = text /\ peek' = peek /\ frames' = frames
    BY <1>2 DEF input
  <2> QED BY <2>1 DEF Bounded, Roomy
<1>3. CASE Consume
  <2>1. Len(text') = l + 1 /\ l < MaxChars /\ peek' \in Ahead(Len(text) + 1)
    BY <1>1, <1>3, MovesOn DEF Bounded, Consume
  <2>2. peek' # "end" => l + 1 < MaxChars
    BY <1>1, <2>1 DEF Ahead
  <2>3. Bounded'
    BY <2>1, <2>2, BoundsAssumption DEF Bounded
  <2>4. Len(frames') \in Nat /\ Len(frames') >= f - 1
    <3>1. CASE frames' = frames
      BY <1>1, <3>1
    <3>2. CASE \E kind \in Kinds : frames' = Append(frames, kind)
      <4>1. PICK kind \in Kinds : frames' = Append(frames, kind)
        BY <3>2
      <4>2. Len(frames') = Len(frames) + 1
        BY <4>1, TextIs, AppendProperties DEF Kinds
      <4> QED BY <1>1, <4>2
    <3>3. CASE frames # <<>> /\ frames' = Front(frames)
      <4>1. Len(Front(frames)) = Len(frames) - 1
        BY <3>3, TextIs, PopTop
      <4>2. Len(frames) > 0
        BY <3>3, Heights
      <4> QED BY <1>1, <3>3, <4>1, <4>2
    <3>4. CASE UNCHANGED <<input, frames>>
      BY <1>1, <3>4
    <3> QED BY <3>1, <3>2, <3>3, <3>4, StepsAre
  <2>5. ASSUME Roomy' PROVE Roomy
    <3>1. PICK g \in Nat : g = Len(frames') /\ g >= f - 1
      BY <2>4
    <3>2. (l + 1) + g <= MaxChars
      BY <2>1, <2>5, <3>1 DEF Roomy
    <3>3. l + f <= MaxChars
      BY <1>1, <3>1, <3>2, BoundsAssumption
    <3> QED BY <1>1, <3>3 DEF Roomy
  <2> QED BY <2>3, <2>5
<1> QED BY <1>2, <1>3, StepsAre

LEMMA GroundIsFirst ==
    /\ Empty \in Ground
    /\ \E G : Tower(G, <<>>) /\ G[Len(<<>>)] = Ground
<1>1. Empty \in Ground
  <2>1. Empty \in Texts
    BY NoneIsSentence, KindsAreTexts
  <2>2. \A w \in Sentences : Cat(Empty, w) = w
    BY CatEmpty, KindsAreTexts
  <2> QED BY <2>1, <2>2 DEF Ground, Before
<1>2. Len(<<>>) = 0
  BY EmptySeq
<1> DEFINE G == [i \in 0 .. 0 |-> Ground]
<1>3. G[0] = Ground
  OBVIOUS
<1> HIDE DEF G
<1>4. Tower(G, <<>>)
  BY <1>2, <1>3 DEF Tower
<1> QED BY <1>1, <1>2, <1>3, <1>4

LEMMA StandAtFirst ==
    /\ text = <<>> /\ frames = <<>> /\ pc = "top" => Standing
    /\ text' = <<>> /\ frames' = <<>> /\ pc' = "top" => Standing'
<1>1. PICK G : Tower(G, <<>>) /\ G[Len(<<>>)] = Ground
  BY GroundIsFirst
<1>2. <<>> \in Ground
  BY GroundIsFirst DEF Empty
<1>3. ASSUME text = <<>>, frames = <<>>, pc = "top" PROVE Standing
  <2>1. Stand(Ground)
    BY <1>2, <1>3 DEF Stand, BeforeAValue, InString, InNumber, InInteger, InReal, InLiteral
  <2> QED BY <1>1, <1>3, <2>1 DEF Standing
<1>4. ASSUME text' = <<>>, frames' = <<>>, pc' = "top" PROVE Standing'
  <2>1. Stand(Ground)'
    BY <1>2, <1>4, PlacesAre
  <2> QED BY <1>1, <1>4, <2>1 DEF Standing
<1> QED BY <1>3, <1>4

LEMMA StepKeepsPlace ==
    ASSUME IInv, PlaceInv, ShortStrings, Bounded', Roomy, Roomy', ParserStep
    PROVE  Standing'
<1>0. frames \in Seq(Kinds) /\ Len(frames) \in Nat /\ text' \in Texts => InBound(text')
  BY TextIs DEF Kinds, Bounded, InBound
<1>1. PICK G, K : Tower(G, frames) /\ K = G[Len(frames)] /\ Stand(K)
  BY DEF PlaceInv, Standing
<1>2. PICK O : O = G[Len(frames) - 1]
  OBVIOUS
<1>3. frames \in Seq(Kinds) /\ Len(frames) \in Nat
  BY TextIs DEF Kinds
<1>4. Fitting(K, O)
  <2>1. /\ K \subseteq Texts /\ SpaceMayFollow(K) /\ (frames = <<>> => K = Ground)
        /\ frames # <<>> => K = Goal(Last(frames), O)
    BY <1>1, <1>2, <1>3, TowerTop
  <2>2. pc = "top" => frames = <<>>
    BY TextIs DEF FramesFitPc
  <2> QED BY <2>1, <2>2 DEF Fitting, In, Goal
<1>5. InBound(text')
  BY DEF Bounded, InBound
<1>6. ASSUME frames' = frames, Stand(K)' PROVE Standing'
  BY <1>1, <1>6 DEF Standing
<1>7. ASSUME NEW kind \in Kinds, frames' = Append(frames, kind), Stand(Goal(kind, K))' PROVE Standing'
  <2>1. PICK H : Tower(H, Append(frames, kind)) /\ H[Len(frames) + 1] = Goal(kind, G[Len(frames)])
    BY <1>1, <1>3, TowerGrows
  <2>2. Len(frames') = Len(frames) + 1
    BY <1>3, <1>7, AppendProperties
  <2> DEFINE L == Goal(kind, K)
  <2>3. Tower(H, frames') /\ L = H[Len(frames')]
    BY <1>1, <1>7, <2>1, <2>2
  <2> HIDE DEF L
  <2>4. Stand(L)'
    BY <1>7 DEF L
  <2> QED BY <2>3, <2>4 DEF Standing
<1>8. CASE BeginArray
  <2>1. Stand(ArrayGoal(K))'
    BY <1>1, <1>4, <1>8, ArrayOpens
  <2>2. Goal("array", K) = ArrayGoal(K) /\ "array" \in Kinds
    BY DEF Goal, Kinds
  <2>3. frames' = Append(frames, "array")
    BY <1>8, Zenon DEF BeginArray, BeginContainer
  <2> QED BY <1>7, <2>1, <2>2, <2>3
<1>9. CASE BeginObject
  <2>1. Stand(ObjectGoal(K))'
    BY <1>1, <1>4, <1>9, ObjectOpens
  <2>2. Goal("object", K) = ObjectGoal(K) /\ "object" \in Kinds
    BY DEF Goal, Kinds
  <2>3. frames' = Append(frames, "object")
    BY <1>9, Zenon DEF BeginObject, BeginContainer
  <2> QED BY <1>7, <2>1, <2>2, <2>3
<1>10. CASE EndArray \/ EndObject
  <2>1. Stand(O)' /\ frames # <<>> /\ frames' = Front(frames)
    BY <1>1, <1>4, <1>5, <1>10, ContainerCloses
  <2>2. Tower(G, frames') /\ Len(frames') = Len(frames) - 1
    BY <1>1, <1>3, <2>1, TowerShrinks
  <2>3. O = G[Len(frames')]
    BY <1>2, <2>2
  <2> QED BY <2>1, <2>2, <2>3 DEF Standing
<1>11. CASE SkipWhitespace
  <2>1. Stand(K)'
    BY <1>1, <1>4, <1>5, <1>11, SpaceKeepsPlace
  <2> QED BY <1>6, <1>11, <2>1 DEF SkipWhitespace
<1>12. CASE NextElement \/ NextMember
  <2>1. Stand(K)'
    BY <1>1, <1>4, <1>12, CommaKeepsPlace
  <2>2. frames' = frames
    BY <1>12, Zenon DEF NextElement, NextMember, Move
  <2> QED BY <1>6, <2>1, <2>2
<1>13. CASE Separator
  <2>1. Stand(K)'
    BY <1>1, <1>13, ColonKeepsPlace
  <2>2. frames' = frames
    BY <1>13, Zenon DEF Separator, Move
  <2> QED BY <1>6, <2>1, <2>2
<1>14. CASE EnterKey \/ EnterValueString
  <2>1. Stand(K)'
    BY <1>1, <1>14, StringBegins
  <2>2. frames' = frames
    BY <1>14, Zenon DEF EnterKey, EnterValueString, EnterString
  <2> QED BY <1>6, <2>1, <2>2
<1>15. CASE StringChar
  <2>1. Stand(K)'
    BY <1>1, <1>15, StringGoesOn
  <2> QED BY <1>6, <1>15, <2>1 DEF StringChar
<1>16. CASE EndString
  <2>1. Stand(K)'
    BY <1>1, <1>16, StringEnds
  <2> QED BY <1>6, <1>16, <2>1 DEF EndString
<1>17. CASE EndScalar
  <2>1. Stand(K)'
    BY <1>1, <1>17, ScalarCloses
  <2> QED BY <1>6, <1>17, <2>1 DEF EndScalar
<1>18. CASE EnterNumber
  <2>1. Stand(K)'
    BY <1>1, <1>18, NumberBegins
  <2> QED BY <1>6, <1>18, <2>1 DEF EnterNumber
<1>19. CASE NumberChar
  <2>1. Stand(K)'
    BY <1>1, <1>19, NumberGoesOn
  <2> QED BY <1>6, <1>19, <2>1 DEF NumberChar
<1>20. CASE EnterLiteral
  <2>1. Stand(K)'
    BY <1>1, <1>20, LiteralBegins
  <2> QED BY <1>6, <1>20, <2>1 DEF EnterLiteral
<1>21. CASE LiteralChar
  <2>1. Stand(K)'
    BY <1>1, <1>21, LiteralKeepsPlace
  <2> QED BY <1>6, <1>21, <2>1 DEF LiteralChar
<1>22. CASE StateThrows \/ Return \/ Overrun \/ Reject
  <2>1. UNCHANGED <<input, pc, frames, local, buffer>>
    BY <1>22, Zenon DEF StateThrows, Return, Overrun, Reject, Stop
  <2>2. Stand(K)'
    BY <1>1, <2>1, NothingMoves
  <2> QED BY <1>6, <2>1, <2>2
<1> QED
  BY <1>8, <1>9, <1>10, <1>11, <1>12, <1>13, <1>14, <1>15, <1>16, <1>17, <1>18, <1>19, <1>20, <1>21, <1>22
     DEF ParserStep

LEMMA PlaceInvAtFirst == Init => PlaceInv
<1> SUFFICES ASSUME Init PROVE PlaceInv
  OBVIOUS
<1>1. text = <<>> /\ frames = <<>> /\ pc = "top" /\ peek = "end" /\ Len(text) = 0
  BY EmptySeq DEF Init
<1> QED BY <1>1, StandAtFirst, BoundsAssumption DEF PlaceInv, Bounded

LEMMA PlaceInvIsKept == IInv /\ PlaceInv /\ ShortStrings /\ [Next]_vars => PlaceInv'
<1>1. ASSUME IInv, PlaceInv, UNCHANGED vars PROVE PlaceInv'
  <2>1. UNCHANGED <<input, pc, frames, local, buffer>> /\ text' = text /\ peek' = peek /\ frames' = frames
    BY <1>1 DEF vars, input
  <2>2. Bounded' /\ Roomy' = Roomy
    BY <1>1, <2>1 DEF PlaceInv, Bounded, Roomy
  <2>3. ASSUME Standing PROVE Standing'
    <3>1. PICK G, K : Tower(G, frames) /\ K = G[Len(frames)] /\ Stand(K)
      BY <2>3 DEF Standing
    <3>2. Stand(K)'
      BY <2>1, <3>1, NothingMoves
    <3> QED BY <2>1, <3>1, <3>2 DEF Standing
  <2> QED BY <1>1, <2>2, <2>3 DEF PlaceInv
<1>2. ASSUME IInv, PlaceInv, StartParse PROVE PlaceInv'
  <2>1. text' = <<>> /\ frames' = <<>> /\ pc' = "top" /\ peek' \in Ahead(0) /\ Len(text') = 0
    BY <1>2, EmptySeq DEF StartParse, Goto
  <2>2. Bounded'
    BY <2>1, BoundsAssumption DEF Bounded, Ahead
  <2> QED BY <2>1, <2>2, StandAtFirst DEF PlaceInv
<1>3. ASSUME IInv, PlaceInv, ShortStrings, ParserStep PROVE PlaceInv'
  <2>1. Bounded' /\ (Roomy' => Roomy)
    BY <1>3, RoomIsLeft DEF PlaceInv
  <2> QED BY <1>3, <2>1, StepKeepsPlace DEF PlaceInv
<1> QED BY <1>1, <1>2, <1>3 DEF Next

\* In no array or object, what was read is a sentence.
LEMMA PlaceInvSaysSentence ==
    ASSUME IInv, PlaceInv
    PROVE  AcceptsOnlyDialect
<1> SUFFICES ASSUME outcome = "accepted" PROVE text \in Documents
  BY DEF AcceptsOnlyDialect
<1>1. pc = "top" /\ frames = <<>> /\ Len(frames) = 0 /\ text \in Texts
  BY TextIs, EmptySeq DEF IInv, FramesFitPc
<1>2. Len(text) <= MaxChars /\ Len(text) \in Nat
  BY TextIs DEF PlaceInv, Bounded
<1>3. Roomy
  BY <1>1, <1>2 DEF Roomy
<1>4. PICK G, K : Tower(G, frames) /\ K = G[Len(frames)] /\ Stand(K)
  BY <1>3 DEF PlaceInv, Standing
<1>5. text \in Ground
  BY <1>1, <1>4 DEF Tower, Stand
<1>6. Cat(text, Empty) = text /\ InBound(text)
  BY <1>1, <1>2, CatEmpty DEF InBound
<1>7. text \in Sentences
  BY <1>5, <1>6, NoneIsSentence DEF Ground, Before
<1> QED BY <1>7, SentenceIsDocument

\* AcceptsOnlyDialect: whatever text is given to json_parser, as deeply nested
\* as it may be, it returns normally only when the text is one the grammar has.
\* The grammar is cut off as in the runs, at strings of MaxString characters.
THEOREM AcceptedIsSentence == Spec /\ []ShortStrings => []AcceptsOnlyDialect
<1>1. IInv /\ PlaceInv => AcceptsOnlyDialect
  BY PlaceInvSaysSentence
<1> QED BY <1>1, PlaceInvAtFirst, PlaceInvIsKept, SpecIInv, PTL DEF Spec

\* No string is longer than what was read of the text.
StringInText == Bounded /\ (pc \in InString => Len(buffer) <= Len(text))

LEMMA StringStaysInText == IInv /\ StringInText /\ [Next]_vars => StringInText'
<1>1. ASSUME IInv, StringInText, UNCHANGED vars PROVE StringInText'
  <2>1. text' = text /\ peek' = peek /\ pc' = pc /\ buffer' = buffer
    BY <1>1 DEF vars, input
  <2> QED BY <1>1, <2>1 DEF StringInText, Bounded
<1>2. ASSUME IInv, StringInText, StartParse PROVE StringInText'
  <2>1. pc' = "top" /\ peek' \in Ahead(0) /\ Len(text') = 0
    BY <1>2, EmptySeq DEF StartParse, Goto
  <2>2. Bounded'
    BY <2>1, BoundsAssumption DEF Bounded, Ahead
  <2> QED BY <2>1, <2>2 DEF StringInText, InString
<1>3. ASSUME IInv, StringInText, ParserStep PROVE StringInText'
  <2>1. Bounded'
    BY <1>3, RoomIsLeft DEF StringInText
  <2>2. PICK l \in Nat, n \in Nat : l = Len(text) /\ n = Len(buffer)
    BY <1>3, TextIs
  <2>3. ASSUME pc' \in InString PROVE Len(buffer') <= Len(text')
    <3>1. CASE EnterKey \/ EnterValueString
      <4>1. Consume /\ buffer' = <<>>
        BY <3>1, Zenon DEF EnterKey, EnterValueString, EnterString
      <4>2. Len(text') = l + 1 /\ Len(buffer') = 0
        BY <1>3, <2>2, <4>1, MovesOn, EmptySeq
      <4> QED BY <4>2
    <3>2. CASE StringChar
      <4>1. Keep /\ Consume /\ pc \in InString
        BY <3>2 DEF StringChar, Keep
      <4>2. Len(text') = l + 1 /\ Len(buffer') = n + 1 /\ n <= l
        BY <1>3, <2>2, <4>1, MovesOn, KeepsIt DEF StringInText
      <4> QED BY <4>2
    <3>3. CASE StateThrows \/ Return \/ Overrun \/ Reject
      <4>1. UNCHANGED <<input, pc, buffer>>
        BY <3>3, Zenon DEF StateThrows, Return, Overrun, Reject, Stop
      <4> QED BY <1>3, <2>3, <4>1 DEF StringInText, input
    <3>4. CASE BeginArray \/ BeginObject \/ EndArray \/ EndObject \/ EndString \/ EndScalar
      <4>1. pc' \in {"element", "member", "top", "after", "colon"}
        BY <3>4, Zenon DEF BeginArray, BeginObject, BeginContainer, EndArray, EndObject, EndContainer,
                           ReturnTo, EndString, EndScalar, Goto
      <4> QED BY <2>3, <4>1 DEF InString
    <3>5. CASE SkipWhitespace
      <4>1. pc' \in {"top", "element", "member", "colon", "value", "after"}
        BY <3>5 DEF SkipWhitespace
      <4> QED BY <2>3, <4>1 DEF InString
    <3>6. CASE NextElement \/ NextMember \/ Separator \/ EnterNumber \/ NumberChar
      <4>1. pc' \in {"element", "member", "value"} \cup InNumber
        <5>1. CASE NextElement \/ NextMember \/ Separator
          <6>1. pc' = "element" \/ pc' = "member" \/ pc' = "value"
            BY <5>1, Zenon DEF NextElement, NextMember, Separator, Move, Goto
          <6> QED BY <6>1
        <5>2. CASE EnterNumber \/ NumberChar
          BY <5>2 DEF EnterNumber, NumberChar, Goto, InNumber, InInteger, InReal
        <5> QED BY <3>6, <5>1, <5>2
      <4> QED BY <2>3, <4>1 DEF InString, InNumber, InInteger, InReal
    <3>7. CASE EnterLiteral \/ LiteralChar
      <4>1. pc' \in InLiteral
        BY <3>7 DEF EnterLiteral, LiteralChar, Goto, InLiteral
      <4> QED BY <2>3, <4>1 DEF InString, InLiteral
    <3> QED BY <1>3, <3>1, <3>2, <3>3, <3>4, <3>5, <3>6, <3>7 DEF ParserStep
  <2> QED BY <2>1, <2>3 DEF StringInText
<1> QED BY <1>1, <1>2, <1>3 DEF Next

LEMMA StringsStayShort ==
    ASSUME MaxChars <= MaxString
    PROVE  Spec => []ShortStrings
<1>1. Init => StringInText
  <2> SUFFICES ASSUME Init PROVE StringInText
    OBVIOUS
  <2>1. pc = "top" /\ peek = "end" /\ Len(text) = 0
    BY EmptySeq DEF Init
  <2> QED BY <2>1, BoundsAssumption DEF StringInText, Bounded, InString
<1>2. IInv /\ StringInText => ShortStrings
  <2> SUFFICES ASSUME IInv, StringInText, pc \in InString PROVE Len(buffer) <= MaxString
    BY DEF ShortStrings
  <2>1. PICK l \in Nat, n \in Nat : l = Len(text) /\ n = Len(buffer)
    BY TextIs
  <2>2. n <= l /\ l <= MaxChars
    BY <2>1 DEF StringInText, Bounded
  <2> QED BY <2>1, <2>2, BoundsAssumption, MaxStringAssumption
<1> QED BY <1>1, <1>2, StringStaysInText, SpecIInv, PTL DEF Spec

\* AcceptsOnlyDialect, for a grammar that leaves out no string that fits into
\* MaxChars characters: no other text is ever accepted.
THEOREM EveryAcceptedIsSentence ==
    ASSUME MaxChars <= MaxString
    PROVE  Spec => []AcceptsOnlyDialect
BY StringsStayShort, AcceptedIsSentence, PTL
=============================================================================
