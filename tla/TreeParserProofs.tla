--------------------------- MODULE TreeParserProofs ---------------------------
(***************************************************************************)
(* For every alphabet and every bound: the types of the tree parser's      *)
(* state, and that the value a call of parse_json returns is the one that  *)
(* the grammar says for the text it moved over.                            *)
(***************************************************************************)
EXTENDS TreeDialect, SequenceLemmas

-----------------------------------------------------------------------------
\* Types, and which functions are in progress where.

\* What lists a value.
Events == {"on_string", "on_integer", "on_real", "on_boolean", "on_null",
           "on_array_begin", "on_array_end", "on_object_begin", "on_object_end"}

\* The innermost call is that of the function that pc is in.
FramesFit ==
    /\ pc \in {"element", "close"} => In("array")
    /\ pc \in {"first_member", "member", "name", "colon"} => In("object")

Bounded ==
    /\ Len(text) <= MaxChars
    /\ peek # "end" => Len(text) < MaxChars

TypeInv ==
    /\ TypeOK /\ listed \in Seq(Events)
    /\ FramesFit /\ Bounded
    /\ pc \in InLiteral => want # <<>>
    /\ outcome = "accepted" => pc = "after" /\ frames = <<>>

LEMMA AheadIs ==
    ASSUME NEW n \in Nat, NEW c \in Ahead(n)
    PROVE  c \in Alphabet \cup {"end"} /\ (c # "end" => n < MaxChars)
BY DEF Ahead

\* What the range has moved over.
LEMMA Consumed ==
    ASSUME TypeInv, Consume
    PROVE  /\ peek \in Alphabet /\ text \in Seq(Alphabet) /\ text' = Append(text, peek)
           /\ text' \in Seq(Alphabet) /\ Len(text') = Len(text) + 1 /\ Len(text) \in Nat
           /\ peek' \in Alphabet \cup {"end"} /\ Bounded'
<1>1. peek \in Alphabet /\ text \in Seq(Alphabet) /\ text' = Append(text, peek) /\ peek' \in Ahead(Len(text) + 1)
  BY DEF TypeInv, TypeOK, Consume
<1>2. text' \in Seq(Alphabet) /\ Len(text') = Len(text) + 1 /\ Len(text) \in Nat
  BY <1>1, AppendProperties, LenProperties
<1>3. Len(text) < MaxChars
  BY DEF TypeInv, Bounded, Consume
<1> QED BY <1>1, <1>2, <1>3, AheadIs, BoundsAssumption DEF Bounded

\* Another level, and one less.
LEMMA Pushed ==
    ASSUME NEW fs \in Seq({"array", "object"}), NEW k \in {"array", "object"}
    PROVE  /\ Append(fs, k) \in Seq({"array", "object"}) /\ Append(fs, k) # <<>>
           /\ Last(Append(fs, k)) = k
BY PushTop DEF Last

LEMMA Popped ==
    ASSUME NEW fs \in Seq({"array", "object"}), fs # <<>>
    PROVE  Front(fs) \in Seq({"array", "object"})
BY PopTop

LEMMA LettersOf ==
    ASSUME NEW c \in {"t", "f", "n"}
    PROVE  Rest(c) \in Seq(Char) /\ Rest(c) # <<>>
<1>1. "r" \in Char /\ "u" \in Char /\ "e" \in Char /\ "a" \in Char /\ "l" \in Char /\ "s" \in Char
  BY Zenon DEF Char, ExponentMarks
<1>2. CASE c = "t"
  BY <1>1, <1>2 DEF Rest
<1>3. CASE c = "f"
  BY <1>1, <1>3 DEF Rest
<1>4. CASE c = "n"
  BY <1>1, <1>4 DEF Rest
<1> QED BY <1>2, <1>3, <1>4

LEMMA TypeInvAtFirst == Init => TypeInv
<1> SUFFICES ASSUME Init PROVE TypeInv
  OBVIOUS
<1>1. text = <<>> /\ peek \in Alphabet \cup {"end"} /\ (peek # "end" => 0 < MaxChars)
  BY AheadIs DEF Init
<1>2. \A T : <<>> \in Seq(T) /\ Len(<<>>) = 0
  BY EmptySeq
<1>3. TypeOK
  <2>1. odd \in BOOLEAN
    BY Zenon DEF Init
  <2>2. pc \in PCs /\ outcome \in Outcomes
    BY DEF Init, PCs, Skipping, BeforeValue, Outcomes
  <2>3. first \in 0 .. Len(text)
    BY <1>1, <1>2 DEF Init
  <2>4. text \in Seq(Alphabet) /\ frames \in Seq({"array", "object"}) /\ want \in Seq(Char)
    BY <1>1, <1>2, Zenon DEF Init
  <2> QED BY <1>1, <2>1, <2>2, <2>3, <2>4 DEF TypeOK
<1>4. FramesFit /\ Bounded
  BY <1>1, <1>2, BoundsAssumption DEF Init, FramesFit, Bounded
<1> QED
  BY <1>2, <1>3, <1>4 DEF Init, TypeInv, InLiteral

LEMMA StopKeepsTypes ==
    ASSUME TypeInv, NEW how \in Outcomes, Stop(how), how = "accepted" => pc = "after" /\ frames = <<>>
    PROVE  TypeInv'
BY DEF Stop, input, token, TypeInv, TypeOK, FramesFit, Bounded, In

LEMMA NextKeepsTypes ==
    ASSUME TypeInv, Next
    PROVE  TypeInv'
<1> USE DEF PCs, Skipping, BeforeValue, InString, InNumber, InLiteral
<1>0. /\ "on_object_begin" \in Events /\ "on_object_end" \in Events
      /\ "on_array_begin" \in Events /\ "on_array_end" \in Events /\ "on_string" \in Events
      /\ "on_integer" \in Events /\ "on_real" \in Events
      /\ "on_boolean" \in Events /\ "on_null" \in Events
  BY DEF Events
<1>1. ASSUME Consume, frames' \in Seq({"array", "object"}), pc' \in PCs, FramesFit',
             first' \in 0 .. Len(text'), odd' \in BOOLEAN, want' \in Seq(Char),
             listed' \in Seq(Events), pc' \in InLiteral => want' # <<>>, UNCHANGED outcome, outcome = "running"
      PROVE  TypeInv'
  BY <1>1, Consumed DEF TypeInv, TypeOK
<1>2. /\ text \in Seq(Alphabet) /\ Len(text) \in Nat /\ outcome = "running"
      /\ pc \in PCs /\ frames \in Seq({"array", "object"}) /\ first \in 0 .. Len(text) /\ odd \in BOOLEAN
      /\ want \in Seq(Char) /\ listed \in Seq(Events) /\ FramesFit
      /\ pc \in InLiteral => want # <<>>
  BY LenProperties DEF TypeInv, TypeOK, Next
<1>3. ASSUME Consume PROVE first \in 0 .. Len(text') /\ Len(text) + 1 \in 0 .. Len(text')
  BY <1>2, <1>3, Consumed
<1>4. ASSUME NEW ev \in Events, List(ev) PROVE listed' \in Seq(Events)
  BY <1>2, <1>4, AppendProperties DEF List
<1>5. CASE SkipWhitespace
  BY <1>1, <1>2, <1>3, <1>5 DEF SkipWhitespace, FramesFit, token, In
<1>6. ASSUME NEW char, NEW k \in {"array", "object"}, NEW ev \in Events, NEW label,
             BeginContainer(char, k, ev, label),
             (k = "array" /\ label = "element") \/ (k = "object" /\ label = "first_member")
      PROVE  TypeInv'
  <2>1. /\ frames' \in Seq({"array", "object"}) /\ frames' # <<>> /\ Last(frames') = k
        /\ pc' = label /\ Consume /\ UNCHANGED <<token, outcome>> /\ listed' \in Seq(Events)
    BY <1>2, <1>4, <1>6, Pushed DEF BeginContainer, Goto
  <2> QED BY <1>1, <1>2, <1>3, <1>6, <2>1 DEF FramesFit, token, In
<1>7. CASE BeginArray
  BY <1>0, <1>6, <1>7 DEF BeginArray
<1>8. CASE BeginObject
  BY <1>0, <1>6, <1>8, Zenon DEF BeginObject
<1>9. ASSUME NEW char, NEW ev \in Events, EndContainer(char, ev), frames # <<>>
      PROVE  TypeInv'
  <2>1. /\ frames' \in Seq({"array", "object"}) /\ pc' = "after"
        /\ Consume /\ UNCHANGED <<token, outcome>> /\ listed' \in Seq(Events)
    BY <1>2, <1>4, <1>9, Popped DEF EndContainer, Goto
  <2> QED BY <1>1, <1>2, <1>3, <2>1 DEF FramesFit, token
<1>10. CASE EndArray
  <2>1. frames # <<>>
    BY <1>2, <1>10, Zenon DEF EndArray, FramesFit, In
  <2> QED BY <1>0, <1>9, <1>10, <2>1 DEF EndArray
<1>11. CASE EndObject
  <2>1. frames # <<>>
    BY <1>2, <1>11, Zenon DEF EndObject, FramesFit, In
  <2> QED BY <1>0, <1>9, <1>11, <2>1, Zenon DEF EndObject
<1>12. ASSUME NEW char, NEW label, Move(char, label),
              \/ In("array") /\ label \in {"element", "close"}
              \/ In("object") /\ label = "member"
              \/ label = "value"
       PROVE  TypeInv'
  BY <1>1, <1>2, <1>3, <1>12 DEF Move, Goto, FramesFit, token, In
<1>22. CASE NextElement
  <2> DEFINE label == IF peek' = "end" THEN "close" ELSE "element"
  <2>1. In("array") /\ \E char : Move(char, label)
    BY <1>22, Zenon DEF NextElement
  <2>2. label \in {"element", "close"}
    OBVIOUS
  <2> HIDE DEF label
  <2> QED BY <1>12, <2>1, <2>2
<1>23. CASE NextMember
  <2>1. In("object") /\ \E char : Move(char, "member")
    BY <1>23, Zenon DEF NextMember
  <2> QED BY <1>12, <2>1
<1>24. CASE Separator
  BY <1>12, <1>24 DEF Separator
<1>13. CASE EnterString
  BY <1>1, <1>2, <1>3, <1>13 DEF EnterString, Goto, FramesFit, In
<1>14. CASE StringChar
  BY <1>1, <1>2, <1>3, <1>14 DEF StringChar, Shields, FramesFit, In
<1>15. CASE EndString
  BY <1>0, <1>1, <1>2, <1>3, <1>4, <1>15 DEF EndString, Goto, FramesFit, token, In
<1>16. CASE EnterNumber
  <2>1. pc' = "digits" /\ first' = Len(text) /\ UNCHANGED <<frames, odd, want, listed, outcome>>
    BY <1>16 DEF EnterNumber, Goto
  <2>2. CASE Consume
    <3>1. first' \in 0 .. Len(text')
      BY <1>2, <2>1, <2>2, Consumed
    <3> QED BY <1>1, <1>2, <2>1, <2>2, <3>1 DEF FramesFit
  <2>3. CASE UNCHANGED input
    BY <1>2, <2>1, <2>3 DEF TypeInv, TypeOK, FramesFit, Bounded, input
  <2> QED BY <1>16, <2>2, <2>3 DEF EnterNumber
<1>17. CASE NumberChar
  BY <1>1, <1>2, <1>3, <1>17 DEF NumberChar, Goto, FramesFit, token
<1>18. CASE EndNumber
  <2>1. pc' = "after" /\ UNCHANGED <<input, frames, token, outcome>> /\ listed' \in Seq(Events)
    BY <1>0, <1>4, <1>18 DEF EndNumber, Goto
  <2> QED BY <1>2, <2>1 DEF TypeInv, TypeOK, FramesFit, Bounded, input, token
<1>19. CASE EnterLiteral
  <2>1. want' \in Seq(Char) /\ want' # <<>>
    BY <1>19, LettersOf DEF EnterLiteral
  <2> QED BY <1>1, <1>2, <1>3, <1>19, <2>1 DEF EnterLiteral, Goto, FramesFit
<1>20. CASE LiteralChar
  <2>1. Len(want) \in Nat \ {0} /\ Tail(want) \in Seq(Char) /\ Len(Tail(want)) = Len(want) - 1
    BY <1>2, <1>20, HeadTailProperties, EmptySeq DEF LiteralChar
  <2>5. want' = Tail(want)
    BY <1>20 DEF LiteralChar
  <2>6. Tail(want) = <<>> => Len(Tail(want)) = 0
    BY EmptySeq
  <2>2. want' \in Seq(Char) /\ (Len(want) > 1 => want' # <<>>)
    BY <2>1, <2>5, <2>6
  <2>3. CASE Len(want) > 1
    <3>1. pc' = pc /\ listed' = listed
      BY <1>20, <2>3 DEF LiteralChar
    <3> QED BY <1>1, <1>2, <1>3, <1>20, <2>2, <2>3, <3>1 DEF LiteralChar, FramesFit
  <2>4. CASE ~(Len(want) > 1)
    <3>1. pc' = "after" /\ listed' \in Seq(Events)
      BY <1>0, <1>4, <1>20, <2>4 DEF LiteralChar, Goto
    <3> QED BY <1>1, <1>2, <1>3, <1>20, <2>2, <3>1 DEF LiteralChar, FramesFit
  <2> QED BY <2>3, <2>4
<1>21. CASE EmptyName \/ Return \/ Overrun \/ Malformed
  BY <1>21, StopKeepsTypes DEF EmptyName, Return, Overrun, Malformed, Outcomes
<1> QED
  BY <1>5, <1>7, <1>8, <1>10, <1>11, <1>12, <1>13, <1>14, <1>15, <1>16, <1>17, <1>18, <1>19, <1>20, <1>21,
     <1>22, <1>23, <1>24 DEF Next

LEMMA TypeInvIsKept == TypeInv /\ [Next]_vars => TypeInv'
<1>1. ASSUME TypeInv, UNCHANGED vars PROVE TypeInv'
  BY <1>1 DEF vars, input, token, TypeInv, TypeOK, FramesFit, Bounded, In
<1> QED BY <1>1, NextKeepsTypes

LEMMA TypeInvHolds == Spec => []TypeInv
BY TypeInvAtFirst, TypeInvIsKept, PTL DEF Spec

\* TypeOK: for every text, however deep and wherever it ends, each variable
\* stays in its set; no array or object is left that was not begun, and no
\* letter of a literal compared behind its last one.
THEOREM TypesHold == Spec => []TypeOK
<1>1. TypeInv => TypeOK
  BY DEF TypeInv
<1> QED BY <1>1, TypeInvHolds, PTL
-----------------------------------------------------------------------------
\* The grammar, whose definition is a recursive function.

Short(g, n) == IF n = 0 THEN <<>> ELSE g[n - 1]
IsTable(g, m) == g = [n \in 0 .. m |-> Append(Short(g, n), Entry(Short(g, n), n))]

LEMMA TableExists ==
    ASSUME NEW m \in Nat
    PROVE  \E g : IsTable(g, m)
<1> DEFINE P == {k \in Nat : \E g : IsTable(g, k)}
<1>1. 0 \in P
  <2> DEFINE g == [n \in 0 .. 0 |-> Append(<<>>, Entry(<<>>, n))]
  <2>1. g = [n \in 0 .. 0 |-> Append(Short(g, n), Entry(Short(g, n), n))]
    BY DEF Short
  <2> QED BY <2>1 DEF IsTable
<1>2. ASSUME NEW k \in Nat, k \in P PROVE k + 1 \in P
  <2>1. PICK g : IsTable(g, k)
    BY <1>2
  <2> DEFINE x == Append(g[k], Entry(g[k], k + 1))
             h == [n \in 0 .. k + 1 |-> IF n = k + 1 THEN x ELSE g[n]]
  <2>2. ASSUME NEW n \in 0 .. k + 1
        PROVE  h[n] = Append(Short(h, n), Entry(Short(h, n), n))
    <3>1. CASE n = k + 1
      <4>1. h[n] = x /\ Short(h, n) = g[k]
        BY <3>1 DEF Short
      <4> HIDE DEF h
      <4> QED BY <3>1, <4>1
    <3>2. CASE n \in 0 .. k
      <4>1. h[n] = g[n] /\ Short(h, n) = Short(g, n)
        BY <3>2 DEF Short
      <4>2. g[n] = Append(Short(g, n), Entry(Short(g, n), n))
        BY <2>1, <3>2, Zenon DEF IsTable
      <4> HIDE DEF h
      <4> QED BY <4>1, <4>2, Zenon
    <3> HIDE DEF h
    <3> QED BY <3>1, <3>2
  <2>3. DOMAIN h = 0 .. k + 1 /\ h = [n \in 0 .. k + 1 |-> h[n]]
    OBVIOUS
  <2> HIDE DEF h
  <2>4. h = [n \in 0 .. k + 1 |-> Append(Short(h, n), Entry(Short(h, n), n))]
    BY <2>2, <2>3
  <2>5. IsTable(h, k + 1)
    BY <2>4, Zenon DEF IsTable
  <2> QED BY <2>5
<1> HIDE DEF P
<1>3. m \in P
  BY <1>1, <1>2, NumberInduction
<1> QED BY <1>3 DEF P

LEMMA GrammarIsTable == IsTable(Grammar, MaxChars)
<1> DEFINE Q(g) == g = [n \in 0 .. MaxChars |-> LET short == IF n = 0 THEN <<>> ELSE g[n - 1]
                                               IN Append(short, Entry(short, n))]
<1>1. Grammar = CHOOSE g : Q(g)
  BY DEF Grammar
<1>2. \E g : Q(g)
  BY TableExists, BoundsAssumption DEF IsTable, Short
<1> HIDE DEF Q
<1>3. Q(Grammar)
  BY <1>1, <1>2, Zenon
<1> QED BY <1>3 DEF Q, IsTable, Short

\* The sentences of length n.
At(n) == Grammar[n][n + 1]

LEMMA TableShape ==
    ASSUME NEW n \in 0 .. MaxChars
    PROVE  /\ Len(Grammar[n]) = n + 1 /\ DOMAIN Grammar[n] = 1 .. n + 1
           /\ \A k \in 0 .. n : Grammar[n][k + 1] = At(k)
           /\ At(n) = Entry(Short(Grammar, n), n)
<1> DEFINE U == {Entry(Short(Grammar, k), k) : k \in 0 .. MaxChars}
           Good(k) == /\ Grammar[k] \in Seq(U) /\ Len(Grammar[k]) = k + 1
                      /\ At(k) = Entry(Short(Grammar, k), k)
                      /\ \A j \in 0 .. k : Grammar[k][j + 1] = At(j)
           P == {k \in Nat : k <= MaxChars => Good(k)}
<1>1. ASSUME NEW k \in 0 .. MaxChars
      PROVE  /\ Grammar[k] = Append(Short(Grammar, k), Entry(Short(Grammar, k), k))
             /\ Entry(Short(Grammar, k), k) \in U
  <2>1. Grammar[k] = Append(Short(Grammar, k), Entry(Short(Grammar, k), k))
    BY GrammarIsTable, Zenon DEF IsTable
  <2> QED BY <2>1
<1> HIDE DEF U
<1>2. 0 \in P
  <2>1. /\ Short(Grammar, 0) = <<>> /\ Grammar[0] = Append(<<>>, Entry(<<>>, 0)) /\ Entry(<<>>, 0) \in U
    BY <1>1, BoundsAssumption DEF Short
  <2>2. <<>> \in Seq(U) /\ Len(<<>>) = 0
    BY EmptySeq
  <2>3. Grammar[0] \in Seq(U) /\ Len(Grammar[0]) = 1 /\ Grammar[0][1] = Entry(<<>>, 0)
    <3> DEFINE e == Entry(<<>>, 0)
    <3> HIDE DEF e
    <3> QED BY <2>1, <2>2, AppendProperties DEF e
  <2>4. At(0) = Entry(<<>>, 0)
    BY <2>3 DEF At
  <2>5. Good(0)
    BY <2>1, <2>3, <2>4
  <2> QED BY <2>5
<1>3. ASSUME NEW k \in Nat, k \in P PROVE k + 1 \in P
  <2> SUFFICES ASSUME k + 1 <= MaxChars PROVE Good(k + 1)
    OBVIOUS
  <2>1. Good(k) /\ k + 1 \in 0 .. MaxChars /\ k + 1 # 0 /\ k + 1 - 1 = k
    BY <1>3, BoundsAssumption
  <2> DEFINE e == Entry(Short(Grammar, k + 1), k + 1)
  <2>2. Short(Grammar, k + 1) = Grammar[k]
    BY <2>1 DEF Short
  <2>3. Grammar[k + 1] = Append(Grammar[k], e) /\ e \in U
    BY <1>1, <2>1, <2>2
  <2> HIDE DEF e
  <2>4. /\ Grammar[k + 1] \in Seq(U) /\ Len(Grammar[k + 1]) = k + 2 /\ Grammar[k + 1][k + 2] = e
        /\ \A j \in 1 .. k + 1 : Grammar[k + 1][j] = Grammar[k][j]
    BY <2>1, <2>3, AppendProperties
  <2>5. At(k + 1) = e
    BY <2>4 DEF At
  <2>6. \A j \in 0 .. k + 1 : Grammar[k + 1][j + 1] = At(j)
    <3> SUFFICES ASSUME NEW j \in 0 .. k + 1 PROVE Grammar[k + 1][j + 1] = At(j)
      OBVIOUS
    <3>1. CASE j = k + 1
      BY <2>4, <2>5, <3>1
    <3>2. CASE j \in 0 .. k
      BY <2>1, <2>4, <3>2
    <3> QED BY <3>1, <3>2
  <2> QED BY <2>4, <2>5, <2>6 DEF e
<1> HIDE DEF P
<1>4. Nat \subseteq P
  BY <1>2, <1>3, NumberInduction
<1>5. n \in Nat /\ n \in P /\ n <= MaxChars
  BY <1>4, BoundsAssumption
<1> QED BY <1>5, LenProperties DEF P

\* The sentences of all lengths are among those of the last table.
LEMMA AtInSentences ==
    ASSUME NEW n \in 0 .. MaxChars, NEW u \in At(n).padded
    PROVE  u \in Sentences
<1> DEFINE g == Grammar[MaxChars]
<1>1. MaxChars \in 0 .. MaxChars
  BY BoundsAssumption
<1>2. DOMAIN g = 1 .. MaxChars + 1 /\ g[n + 1] = At(n)
  BY <1>1, TableShape
<1>3. n + 1 \in 1 .. MaxChars + 1
  BY BoundsAssumption
<1> HIDE DEF g
<1>4. At(n) \in Range(g)
  BY <1>2, <1>3 DEF Range
<1> QED BY <1>4 DEF Sentences, g

\* The rules of the grammar, without the table.
LEMMA Rules ==
    ASSUME NEW n \in 0 .. MaxChars
    PROVE  /\ At(n).blank = {<<s, <<>>>> : s \in Words(Whitespace, n)}
           /\ Scalar(n) \subseteq At(n).padded
           /\ n >= 2 => Arrays(At(n - 2).elements) \cup Objects(At(n - 2).members) \subseteq At(n).padded
           /\ n >= 1 => SpaceBefore(At(n - 1).padded) \cup SpaceAfter(At(n - 1).padded) \subseteq At(n).padded
           /\ Says(Quoted(n) \ {<<"quote", "quote">>}, "on_string") \subseteq At(n).names
           /\ n >= 1 => SpaceAfter(At(n - 1).names) \subseteq At(n).names
           /\ n >= 1 => SpaceBefore(At(n - 1).member) \subseteq At(n).member
           /\ \A k \in 0 .. n - 1 : Join(At(k).names, ":", At(n - k - 1).padded) \subseteq At(n).member
           /\ At(n).blank \cup At(n).padded \subseteq At(n).elements
           /\ \A k \in 0 .. n - 1 : Listed(At(k).padded, At(n - k - 1).elements) \subseteq At(n).elements
           /\ At(n).blank \cup At(n).member \subseteq At(n).members
           /\ \A k \in 0 .. n - 1 :
                 Listed(At(k).member, At(n - k - 1).members \ At(n - k - 1).blank) \subseteq At(n).members
<1> DEFINE short == Short(Grammar, n)
           Sub(m) == IF m < 0 THEN None ELSE short[m + 1]
<1>1. At(n) = Entry(short, n)
  BY TableShape
<1>2. ASSUME NEW k \in 0 .. n - 1
      PROVE  short[k + 1] = At(k) /\ short[n - k] = At(n - k - 1)
  <2>1. n - 1 \in 0 .. MaxChars /\ short = Grammar[n - 1] /\ n - k - 1 \in 0 .. n - 1
    BY BoundsAssumption DEF Short
  <2> DEFINE j == n - k - 1
  <2>2. short[k + 1] = At(k) /\ short[j + 1] = At(j)
    BY <2>1, TableShape
  <2>3. j + 1 = n - k
    OBVIOUS
  <2> QED BY <2>2, <2>3
<1> HIDE DEF short
<1>3. n >= 1 => Sub(n - 1) = At(n - 1)
  BY <1>2
<1>4. n >= 2 => Sub(n - 2) = At(n - 2)
  <2> SUFFICES ASSUME n >= 2 PROVE Sub(n - 2) = At(n - 2)
    OBVIOUS
  <2>1. n - 2 \in 0 .. n - 1 /\ ~(n - 2 < 0)
    OBVIOUS
  <2> QED BY <1>2, <2>1
<1>5. /\ At(n).blank = {<<s, <<>>>> : s \in Words(Whitespace, n)}
      /\ At(n).padded = Scalar(n)
              \cup Arrays(Sub(n - 2).elements) \cup Objects(Sub(n - 2).members)
              \cup SpaceBefore(Sub(n - 1).padded) \cup SpaceAfter(Sub(n - 1).padded)
      /\ At(n).names = Says(Quoted(n) \ {<<"quote", "quote">>}, "on_string") \cup SpaceAfter(Sub(n - 1).names)
      /\ At(n).member = SpaceBefore(Sub(n - 1).member)
              \cup UNION {Join(short[k + 1].names, ":", short[n - k].padded) : k \in 0 .. n - 1}
      /\ At(n).elements = At(n).blank \cup At(n).padded \cup
              UNION {Listed(short[k + 1].padded, short[n - k].elements) : k \in 0 .. n - 1}
      /\ At(n).members = At(n).blank \cup At(n).member \cup
              UNION {Listed(short[k + 1].member, short[n - k].members \ short[n - k].blank) : k \in 0 .. n - 1}
  BY <1>1 DEF Entry
<1> HIDE DEF Sub
<1>6. \A k \in 0 .. n - 1 : Listed(At(k).padded, At(n - k - 1).elements) \subseteq At(n).elements
  BY <1>2, <1>5
<1>7. \A k \in 0 .. n - 1 :
         Listed(At(k).member, At(n - k - 1).members \ At(n - k - 1).blank) \subseteq At(n).members
  BY <1>2, <1>5
<1>8. \A k \in 0 .. n - 1 : Join(At(k).names, ":", At(n - k - 1).padded) \subseteq At(n).member
  BY <1>2, <1>5
<1> QED BY <1>3, <1>4, <1>5, <1>6, <1>7, <1>8
-----------------------------------------------------------------------------
\* Pairs of a text and the events of what it says, put one after the other.

Pairs == Seq(Alphabet) \X Seq(Events)
Empty == <<<<>>, <<>>>>

\* No more than the grammar looks at.
Fits(p) == Len(p[1]) <= MaxChars /\ Considered(p[1])

LEMMA PairIs ==
    ASSUME NEW p \in Pairs
    PROVE  /\ p = <<p[1], p[2]>> /\ p[1] \in Seq(Alphabet) /\ p[2] \in Seq(Events)
           /\ Len(p[1]) \in Nat /\ DOMAIN p[1] = 1 .. Len(p[1])
BY LenProperties DEF Pairs

LEMMA CatIs ==
    ASSUME NEW p \in Pairs, NEW q \in Pairs
    PROVE  /\ Cat(p, q) \in Pairs /\ Len(Cat(p, q)[1]) = Len(p[1]) + Len(q[1])
           /\ Cat(p, q)[1] = p[1] \o q[1] /\ Cat(p, q)[2] = p[2] \o q[2]
<1>1. /\ p[1] \in Seq(Alphabet) /\ p[2] \in Seq(Events)
      /\ q[1] \in Seq(Alphabet) /\ q[2] \in Seq(Events)
  BY PairIs
<1>2. p[1] \o q[1] \in Seq(Alphabet) /\ Len(p[1] \o q[1]) = Len(p[1]) + Len(q[1])
  BY <1>1, ConcatProperties
<1>3. p[2] \o q[2] \in Seq(Events)
  BY <1>1, ConcatProperties
<1> QED BY <1>2, <1>3 DEF Cat, Pairs

LEMMA CatAssociative ==
    ASSUME NEW p \in Pairs, NEW q \in Pairs, NEW r \in Pairs
    PROVE  Cat(Cat(p, q), r) = Cat(p, Cat(q, r))
<1>1. /\ p[1] \in Seq(Alphabet) /\ p[2] \in Seq(Events)
      /\ q[1] \in Seq(Alphabet) /\ q[2] \in Seq(Events)
      /\ r[1] \in Seq(Alphabet) /\ r[2] \in Seq(Events)
  BY PairIs
<1>2. (p[1] \o q[1]) \o r[1] = p[1] \o (q[1] \o r[1])
  <2>1. \A x, y, z \in Seq(Alphabet) : (x \o y) \o z = x \o (y \o z)
    BY Associates
  <2> QED BY <1>1, <2>1, Zenon
<1>3. (p[2] \o q[2]) \o r[2] = p[2] \o (q[2] \o r[2])
  <2>1. \A x, y, z \in Seq(Events) : (x \o y) \o z = x \o (y \o z)
    BY Associates
  <2> QED BY <1>1, <2>1, Zenon
<1>4. Cat(Cat(p, q), r) = <<(p[1] \o q[1]) \o r[1], (p[2] \o q[2]) \o r[2]>>
  BY DEF Cat
<1>5. Cat(p, Cat(q, r)) = <<p[1] \o (q[1] \o r[1]), p[2] \o (q[2] \o r[2])>>
  BY DEF Cat
<1> QED BY <1>2, <1>3, <1>4, <1>5, Zenon

LEMMA CatEmpty ==
    ASSUME NEW p \in Pairs
    PROVE  Empty \in Pairs /\ Cat(p, Empty) = p /\ Cat(Empty, p) = p
<1>1. p = <<p[1], p[2]>> /\ p[1] \in Seq(Alphabet) /\ p[2] \in Seq(Events)
  BY PairIs
<1>2. p[1] \o <<>> = p[1] /\ <<>> \o p[1] = p[1]
  BY <1>1, ConcatEmptySeq
<1>3. p[2] \o <<>> = p[2] /\ <<>> \o p[2] = p[2]
  BY <1>1, ConcatEmptySeq
<1>4. Empty[1] = <<>> /\ Empty[2] = <<>> /\ Empty \in Pairs
  BY EmptySeq DEF Empty, Pairs
<1>5. Cat(p, Empty) = <<p[1] \o <<>>, p[2] \o <<>>>> /\ Cat(Empty, p) = <<<<>> \o p[1], <<>> \o p[2]>>
  BY <1>4, Zenon DEF Cat
<1> QED BY <1>1, <1>2, <1>3, <1>4, <1>5, Zenon

LEMMA ChrIs ==
    ASSUME NEW c \in Alphabet
    PROVE  /\ Chr(c) \in Pairs /\ Chr(c)[1] = <<c>> /\ Chr(c)[2] = <<>> /\ Len(Chr(c)[1]) = 1
           /\ \A ev \in Events : Tok(c, ev) \in Pairs /\ Tok(c, ev)[1] = <<c>> /\ Tok(c, ev)[2] = <<ev>>
<1>1. <<c>> \in Seq(Alphabet) /\ Len(<<c>>) = 1
  OBVIOUS
<1>2. \A ev \in Events : <<ev>> \in Seq(Events)
  OBVIOUS
<1>3. <<>> \in Seq(Events)
  BY EmptySeq
<1> QED BY <1>1, <1>2, <1>3 DEF Chr, Tok, Pairs

\* What goes before, and after, something that fits does.
LEMMA PartFits ==
    ASSUME NEW p \in Pairs, NEW q \in Pairs, Fits(Cat(p, q))
    PROVE  Fits(p) /\ Fits(q)
<1>1. /\ p[1] \in Seq(Alphabet) /\ q[1] \in Seq(Alphabet) /\ Len(p[1]) \in Nat /\ Len(q[1]) \in Nat
      /\ Len(Cat(p, q)[1]) = Len(p[1]) + Len(q[1]) /\ Cat(p, q)[1] = p[1] \o q[1]
  BY PairIs, CatIs
<1>2. Range(p[1] \o q[1]) = Range(p[1]) \cup Range(q[1])
  BY <1>1, RangeConcatenation
<1>3. Len(p[1]) + Len(q[1]) <= MaxChars
  BY <1>1 DEF Fits
<1>0. \A m, n, k \in Nat : m + n <= k => m <= k /\ n <= k
  OBVIOUS
<1>4. Len(p[1]) <= MaxChars /\ Len(q[1]) <= MaxChars
  BY <1>0, <1>1, <1>3, BoundsAssumption, Zenon
<1>5. CASE Len(p[1]) + Len(q[1]) <= ShortChars
  <2>1. Len(p[1]) <= ShortChars /\ Len(q[1]) <= ShortChars
    BY <1>0, <1>1, <1>5, DialectAssumption, Zenon
  <2> QED BY <1>4, <2>1 DEF Fits, Considered
<1>6. CASE Range(p[1] \o q[1]) \subseteq LongAlphabet
  BY <1>2, <1>4, <1>6 DEF Fits, Considered
<1> QED BY <1>1, <1>5, <1>6 DEF Fits, Considered

LEMMA WordsHas ==
    ASSUME NEW s \in Seq(Alphabet), Considered(s), NEW C, Range(s) \subseteq C
    PROVE  s \in Words(C, Len(s))
<1>1. Len(s) \in Nat /\ s \in [1 .. Len(s) -> Alphabet] /\ DOMAIN s = 1 .. Len(s)
  BY LenProperties
<1>2. \A i \in 1 .. Len(s) : s[i] \in Range(s)
  BY <1>1 DEF Range
<1> QED BY <1>1, <1>2 DEF Words, Considered
-----------------------------------------------------------------------------
\* The operators of the grammar, for what fits.

LEMMA SpaceAfterHas ==
    ASSUME NEW S, NEW u \in S, NEW c \in Alphabet, c \in Whitespace, Fits(Cat(u, Chr(c)))
    PROVE  Cat(u, Chr(c)) \in SpaceAfter(S)
<1>1. c \in Spaces /\ Considered(Cat(u, Chr(c))[1])
  BY DEF Spaces, Fits
<1> QED BY <1>1 DEF SpaceAfter, Keep

LEMMA SpaceBeforeHas ==
    ASSUME NEW S, NEW u \in S, NEW c \in Alphabet, c \in Whitespace, Fits(Cat(Chr(c), u))
    PROVE  Cat(Chr(c), u) \in SpaceBefore(S)
<1>1. c \in Spaces /\ Considered(Cat(Chr(c), u)[1])
  BY DEF Spaces, Fits
<1> QED BY <1>1 DEF SpaceBefore, Keep

LEMMA JoinHas ==
    ASSUME NEW S, NEW T, NEW u \in S, NEW v \in T,
           NEW c \in Alphabet, Fits(Cat(Cat(u, Chr(c)), v))
    PROVE  Cat(Cat(u, Chr(c)), v) \in Join(S, c, T)
<1>1. Considered(Cat(Cat(u, Chr(c)), v)[1])
  BY DEF Fits
<1> QED BY <1>1 DEF Join, Keep

LEMMA EncloseHas ==
    ASSUME NEW S, NEW u \in S, NEW o \in Pairs, NEW c \in Pairs, Fits(Cat(Cat(o, u), c))
    PROVE  Cat(Cat(o, u), c) \in Enclose(o, S, c)
<1>1. Considered(Cat(Cat(o, u), c)[1])
  BY DEF Fits
<1>2. o[1] \in Seq(Alphabet) /\ c[1] \in Seq(Alphabet)
  BY PairIs
<1>3. o[1] \o c[1] \in Seq(Alphabet)
  BY <1>2, ConcatProperties
<1>4. Range(o[1] \o c[1]) \subseteq Alphabet
  BY <1>3, RangeOfSeq
<1> QED BY <1>1, <1>4 DEF Enclose, Keep
-----------------------------------------------------------------------------
\* The kinds of sentences, and the rules of the grammar for what fits.

Padded == {p \in Pairs : Len(p[1]) <= MaxChars /\ p \in At(Len(p[1])).padded}
Named == {p \in Pairs : Len(p[1]) <= MaxChars /\ p \in At(Len(p[1])).names /\ p[2] # <<>>}
Elements == {p \in Pairs : Len(p[1]) <= MaxChars /\ p \in At(Len(p[1])).elements}
Member == {p \in Pairs : Len(p[1]) <= MaxChars /\ p \in At(Len(p[1])).member}
Members == {p \in Pairs : Len(p[1]) <= MaxChars /\ p \in At(Len(p[1])).members}
Blank == {p \in Pairs : p[2] = <<>> /\ Range(p[1]) \subseteq Whitespace}

\* What may follow a comma in an object.
More == {p \in Members : p[2] # <<>>}

ArrayBegin == Tok("[", "on_array_begin")
ArrayEnd == Tok("]", "on_array_end")
ObjectBegin == Tok("{", "on_object_begin")
ObjectEnd == Tok("}", "on_object_end")
Comma == Chr(",")
Colon == Chr(":")

LEMMA LengthIs ==
    ASSUME NEW p \in Pairs, Fits(p)
    PROVE  Len(p[1]) \in 0 .. MaxChars /\ Len(p[1]) \in Nat /\ Len(p[1]) <= MaxChars
BY PairIs, BoundsAssumption DEF Fits

LEMMA EmptyIsBlank == Empty \in Blank
<1>1. <<>> \in Seq(Alphabet) /\ <<>> \in Seq(Events) /\ Range(<<>>) = {}
  BY EmptySeq DEF Range
<1>2. Empty \in Pairs /\ Empty[1] = <<>> /\ Empty[2] = <<>>
  BY <1>1 DEF Empty, Pairs
<1> QED BY <1>1, <1>2 DEF Blank

LEMMA BlankIs ==
    ASSUME NEW p \in Blank, Fits(p)
    PROVE  p \in Elements /\ p \in Members
<1>1. p \in Pairs /\ p = <<p[1], p[2]>> /\ p[2] = <<>> /\ Range(p[1]) \subseteq Whitespace /\ p[1] \in Seq(Alphabet)
  BY PairIs DEF Blank
<1>2. Len(p[1]) \in 0 .. MaxChars /\ Len(p[1]) <= MaxChars
  BY <1>1, LengthIs
<1>3. p[1] \in Words(Whitespace, Len(p[1]))
  BY <1>1, WordsHas DEF Fits
<1>4. p \in {<<s, <<>>>> : s \in Words(Whitespace, Len(p[1]))}
  BY <1>1, <1>3, Zenon
<1>5. p \in At(Len(p[1])).blank
  BY <1>2, <1>4, Rules
<1>6. p \in At(Len(p[1])).elements /\ p \in At(Len(p[1])).members
  BY <1>2, <1>5, Rules
<1> QED BY <1>1, <1>2, <1>6 DEF Elements, Members

LEMMA BlankBefore ==
    ASSUME NEW p \in Blank, NEW c \in Alphabet, c \in Whitespace
    PROVE  Cat(Chr(c), p) \in Blank
<1>1. p \in Pairs /\ p[1] \in Seq(Alphabet) /\ p[2] = <<>> /\ Range(p[1]) \subseteq Whitespace
  BY PairIs DEF Blank
<1>2. Chr(c) \in Pairs /\ Chr(c)[1] = <<c>> /\ Chr(c)[2] = <<>> /\ <<c>> \in Seq(Alphabet)
  BY ChrIs, PairIs
<1>3. Range(<<c>>) \subseteq Whitespace
  BY DEF Range
<1>4. Range(<<c>> \o p[1]) = Range(<<c>>) \cup Range(p[1])
  <2>1. \A x, y \in Seq(Alphabet) : Range(x \o y) = Range(x) \cup Range(y)
    BY RangeConcatenation
  <2> QED BY <1>1, <1>2, <2>1
<1>5. <<>> \o <<>> = <<>>
  BY EmptySeq, ConcatEmptySeq
<1>6. /\ Cat(Chr(c), p) \in Pairs
      /\ Cat(Chr(c), p)[1] = Chr(c)[1] \o p[1] /\ Cat(Chr(c), p)[2] = Chr(c)[2] \o p[2]
  BY <1>1, <1>2, CatIs
<1> QED BY <1>1, <1>2, <1>3, <1>4, <1>5, <1>6, Zenon DEF Blank

\* Values.
LEMMA ScalarIsPadded ==
    ASSUME NEW p \in Pairs, Fits(p), p \in Scalar(Len(p[1]))
    PROVE  p \in Padded
BY LengthIs, Rules DEF Padded

LEMMA PaddedIsElements == Padded \subseteq Elements
<1> SUFFICES ASSUME NEW p \in Padded PROVE p \in Elements
  OBVIOUS
<1>1. p \in Pairs /\ Len(p[1]) \in 0 .. MaxChars /\ Len(p[1]) <= MaxChars /\ p \in At(Len(p[1])).padded
  BY PairIs, BoundsAssumption DEF Padded
<1>2. p \in At(Len(p[1])).elements
  BY <1>1, Rules
<1> QED BY <1>1, <1>2 DEF Elements

LEMMA SpaceAfterPadded ==
    ASSUME NEW p \in Padded, NEW c \in Alphabet, c \in Whitespace, Fits(Cat(p, Chr(c)))
    PROVE  Cat(p, Chr(c)) \in Padded
<1> DEFINE q == Cat(p, Chr(c))
<1>1. p \in Pairs /\ p \in At(Len(p[1])).padded /\ Len(p[1]) \in Nat /\ Chr(c) \in Pairs /\ Len(Chr(c)[1]) = 1
  BY PairIs, ChrIs DEF Padded
<1>2. q \in Pairs /\ Len(q[1]) = Len(p[1]) + 1
  BY <1>1, CatIs
<1>3. Len(q[1]) \in 0 .. MaxChars /\ Len(q[1]) <= MaxChars
  BY <1>2, LengthIs
<1>4. q \in SpaceAfter(At(Len(p[1])).padded)
  BY <1>1, SpaceAfterHas
<1> HIDE DEF q
<1>5. PICK n \in 0 .. MaxChars : n = Len(q[1]) /\ n >= 1 /\ Len(p[1]) = n - 1
  BY <1>1, <1>2, <1>3
<1>6. SpaceAfter(At(n - 1).padded) \subseteq At(n).padded
  BY <1>5, Rules
<1>7. q \in At(n).padded
  BY <1>4, <1>5, <1>6
<1> QED BY <1>2, <1>3, <1>5, <1>7 DEF Padded, q

LEMMA SpaceBeforePadded ==
    ASSUME NEW p \in Padded, NEW c \in Alphabet, c \in Whitespace, Fits(Cat(Chr(c), p))
    PROVE  Cat(Chr(c), p) \in Padded
<1> DEFINE q == Cat(Chr(c), p)
<1>1. p \in Pairs /\ p \in At(Len(p[1])).padded /\ Len(p[1]) \in Nat /\ Chr(c) \in Pairs /\ Len(Chr(c)[1]) = 1
  BY PairIs, ChrIs DEF Padded
<1>2. q \in Pairs /\ Len(q[1]) = 1 + Len(p[1])
  BY <1>1, CatIs
<1>3. Len(q[1]) \in 0 .. MaxChars /\ Len(q[1]) <= MaxChars
  BY <1>2, LengthIs
<1>4. q \in SpaceBefore(At(Len(p[1])).padded)
  BY <1>1, SpaceBeforeHas
<1> HIDE DEF q
<1>5. PICK n \in 0 .. MaxChars : n = Len(q[1]) /\ n >= 1 /\ Len(p[1]) = n - 1
  BY <1>1, <1>2, <1>3
<1>6. SpaceBefore(At(n - 1).padded) \subseteq At(n).padded
  BY <1>5, Rules
<1>7. q \in At(n).padded
  BY <1>4, <1>5, <1>6
<1> QED BY <1>2, <1>3, <1>5, <1>7 DEF Padded, q

LEMMA TripleIs ==
    ASSUME NEW p \in Pairs, NEW q \in Pairs, NEW r \in Pairs, Fits(Cat(Cat(p, q), r))
    PROVE  /\ Cat(Cat(p, q), r) \in Pairs
           /\ Len(Cat(Cat(p, q), r)[1]) = Len(p[1]) + Len(q[1]) + Len(r[1])
           /\ Len(p[1]) \in Nat /\ Len(q[1]) \in Nat /\ Len(r[1]) \in Nat
           /\ Len(Cat(Cat(p, q), r)[1]) \in 0 .. MaxChars
           /\ Len(Cat(Cat(p, q), r)[1]) <= MaxChars
<1>1. Cat(p, q) \in Pairs /\ Len(Cat(p, q)[1]) = Len(p[1]) + Len(q[1])
  BY CatIs
<1>2. /\ Cat(Cat(p, q), r) \in Pairs
      /\ Len(Cat(Cat(p, q), r)[1]) = Len(p[1]) + Len(q[1]) + Len(r[1])
  BY <1>1, CatIs
<1> QED BY <1>2, LengthIs, PairIs

LEMMA BracketsAre ==
    /\ Len(ArrayBegin[1]) = 1 /\ Len(ArrayEnd[1]) = 1
    /\ Len(ObjectBegin[1]) = 1 /\ Len(ObjectEnd[1]) = 1
<1>1. \A c, ev : Tok(c, ev)[1] = <<c>> /\ Len(<<c>>) = 1
  BY DEF Tok
<1> QED BY <1>1, Zenon DEF ArrayBegin, ArrayEnd, ObjectBegin, ObjectEnd

LEMMA ArrayIsPadded ==
    ASSUME NEW e \in Elements, ArrayBegin \in Pairs, ArrayEnd \in Pairs, Fits(Cat(Cat(ArrayBegin, e), ArrayEnd))
    PROVE  Cat(Cat(ArrayBegin, e), ArrayEnd) \in Padded
<1> DEFINE u == Cat(Cat(ArrayBegin, e), ArrayEnd)
<1>0. e \in Pairs /\ e \in At(Len(e[1])).elements
  BY DEF Elements
<1>1. /\ u \in Pairs /\ Len(u[1]) \in 0 .. MaxChars /\ Len(u[1]) <= MaxChars
      /\ Len(u[1]) = Len(ArrayBegin[1]) + Len(e[1]) + Len(ArrayEnd[1])
      /\ Len(e[1]) \in Nat
  BY <1>0, TripleIs
<1>2. Len(ArrayBegin[1]) = 1 /\ Len(ArrayEnd[1]) = 1
  BY BracketsAre
<1>3. u \in Arrays(At(Len(e[1])).elements)
  <2>1. u \in Enclose(ArrayBegin, At(Len(e[1])).elements, ArrayEnd)
    BY <1>0, EncloseHas
  <2> QED BY <2>1, Zenon DEF Arrays, ArrayBegin, ArrayEnd
<1> HIDE DEF u
<1>4. PICK n \in 0 .. MaxChars : n = Len(u[1]) /\ n >= 2 /\ Len(e[1]) = n - 2
  BY <1>1, <1>2
<1>5. Arrays(At(n - 2).elements) \subseteq At(n).padded
  BY <1>4, Rules
<1>6. u \in At(n).padded
  BY <1>1, <1>3, <1>4, <1>5
<1> QED BY <1>1, <1>4, <1>6 DEF Padded, u

LEMMA ObjectIsPadded ==
    ASSUME NEW e \in Members, ObjectBegin \in Pairs, ObjectEnd \in Pairs, Fits(Cat(Cat(ObjectBegin, e), ObjectEnd))
    PROVE  Cat(Cat(ObjectBegin, e), ObjectEnd) \in Padded
<1> DEFINE u == Cat(Cat(ObjectBegin, e), ObjectEnd)
<1>0. e \in Pairs /\ e \in At(Len(e[1])).members
  BY DEF Members
<1>1. /\ u \in Pairs /\ Len(u[1]) \in 0 .. MaxChars /\ Len(u[1]) <= MaxChars
      /\ Len(u[1]) = Len(ObjectBegin[1]) + Len(e[1]) + Len(ObjectEnd[1])
      /\ Len(e[1]) \in Nat
  BY <1>0, TripleIs
<1>2. Len(ObjectBegin[1]) = 1 /\ Len(ObjectEnd[1]) = 1
  BY BracketsAre
<1>3. u \in Objects(At(Len(e[1])).members)
  <2>1. u \in Enclose(ObjectBegin, At(Len(e[1])).members, ObjectEnd)
    BY <1>0, EncloseHas
  <2> QED BY <2>1, Zenon DEF Objects, ObjectBegin, ObjectEnd
<1> HIDE DEF u
<1>4. PICK n \in 0 .. MaxChars : n = Len(u[1]) /\ n >= 2 /\ Len(e[1]) = n - 2
  BY <1>1, <1>2
<1>5. Objects(At(n - 2).members) \subseteq At(n).padded
  BY <1>4, Rules
<1>6. u \in At(n).padded
  BY <1>1, <1>3, <1>4, <1>5
<1> QED BY <1>1, <1>4, <1>6 DEF Padded, u

\* Names and members.

LEMMA ListsSomething ==
    ASSUME NEW p \in Pairs, NEW q \in Pairs, p[2] # <<>> \/ q[2] # <<>>
    PROVE  Cat(p, q)[2] # <<>>
<1>1. p[2] \in Seq(Events) /\ q[2] \in Seq(Events) /\ Cat(p, q)[2] = p[2] \o q[2]
  BY PairIs, CatIs
<1>2. \A x, y \in Seq(Events) : x \o y = <<>> => x = <<>> /\ y = <<>>
  BY ConcatEqualIffEmpty
<1> QED BY <1>1, <1>2

LEMMA CharacterOf ==
    ASSUME NEW c, Chr(c) \in Pairs
    PROVE  c \in Alphabet
<1>1. <<c>> \in Seq(Alphabet)
  BY DEF Chr, Pairs
<1> QED BY <1>1

LEMMA ListedHas ==
    ASSUME NEW S, NEW T, NEW u \in S, NEW v \in T,
           Comma \in Pairs, Fits(Cat(Cat(u, Comma), v))
    PROVE  Cat(Cat(u, Comma), v) \in Listed(S, T)
<1>1. \A c : Chr(c) \in Pairs /\ Fits(Cat(Cat(u, Chr(c)), v)) => Cat(Cat(u, Chr(c)), v) \in Join(S, c, T)
  BY CharacterOf, JoinHas
<1> QED BY <1>1, Zenon DEF Listed, Comma

LEMMA SpaceAfterNamed ==
    ASSUME NEW p \in Named, NEW c \in Alphabet, c \in Whitespace, Fits(Cat(p, Chr(c)))
    PROVE  Cat(p, Chr(c)) \in Named
<1> DEFINE q == Cat(p, Chr(c))
<1>1. /\ p \in Pairs /\ p \in At(Len(p[1])).names /\ Len(p[1]) \in Nat /\ p[2] # <<>>
      /\ Chr(c) \in Pairs /\ Len(Chr(c)[1]) = 1
  BY PairIs, ChrIs DEF Named
<1>2. q \in Pairs /\ Len(q[1]) = Len(p[1]) + 1 /\ q[2] # <<>>
  BY <1>1, CatIs, ListsSomething
<1>3. Len(q[1]) \in 0 .. MaxChars /\ Len(q[1]) <= MaxChars
  BY <1>2, LengthIs
<1>4. q \in SpaceAfter(At(Len(p[1])).names)
  BY <1>1, SpaceAfterHas
<1> HIDE DEF q
<1>5. PICK n \in 0 .. MaxChars : n = Len(q[1]) /\ n >= 1 /\ Len(p[1]) = n - 1
  BY <1>1, <1>2, <1>3
<1>6. SpaceAfter(At(n - 1).names) \subseteq At(n).names
  BY <1>5, Rules
<1>7. q \in At(n).names
  BY <1>4, <1>5, <1>6
<1> QED BY <1>2, <1>3, <1>5, <1>7 DEF Named, q

LEMMA SpaceBeforeMember ==
    ASSUME NEW p \in Member, NEW c \in Alphabet, c \in Whitespace, Fits(Cat(Chr(c), p))
    PROVE  Cat(Chr(c), p) \in Member
<1> DEFINE q == Cat(Chr(c), p)
<1>1. p \in Pairs /\ p \in At(Len(p[1])).member /\ Len(p[1]) \in Nat /\ Chr(c) \in Pairs /\ Len(Chr(c)[1]) = 1
  BY PairIs, ChrIs DEF Member
<1>2. q \in Pairs /\ Len(q[1]) = 1 + Len(p[1])
  BY <1>1, CatIs
<1>3. Len(q[1]) \in 0 .. MaxChars /\ Len(q[1]) <= MaxChars
  BY <1>2, LengthIs
<1>4. q \in SpaceBefore(At(Len(p[1])).member)
  BY <1>1, SpaceBeforeHas
<1> HIDE DEF q
<1>5. PICK n \in 0 .. MaxChars : n = Len(q[1]) /\ n >= 1 /\ Len(p[1]) = n - 1
  BY <1>1, <1>2, <1>3
<1>6. SpaceBefore(At(n - 1).member) \subseteq At(n).member
  BY <1>5, Rules
<1>7. q \in At(n).member
  BY <1>4, <1>5, <1>6
<1> QED BY <1>2, <1>3, <1>5, <1>7 DEF Member, q

\* Three parts, of which the second is one character.
LEMMA MiddleCharacter ==
    ASSUME NEW p \in Pairs, NEW q \in Pairs, NEW r \in Pairs, Len(q[1]) = 1, Fits(Cat(Cat(p, q), r))
    PROVE  \E n \in 0 .. MaxChars : \E k \in 0 .. n - 1 :
              /\ n = Len(Cat(Cat(p, q), r)[1]) /\ n \in Nat /\ n <= MaxChars
              /\ k = Len(p[1]) /\ n - k - 1 = Len(r[1]) /\ Cat(Cat(p, q), r) \in Pairs
<1> DEFINE u == Cat(Cat(p, q), r)
<1>1. /\ u \in Pairs /\ Len(u[1]) = Len(p[1]) + Len(q[1]) + Len(r[1])
      /\ Len(p[1]) \in Nat /\ Len(r[1]) \in Nat /\ Len(u[1]) \in 0 .. MaxChars /\ Len(u[1]) <= MaxChars
  BY TripleIs
<1> HIDE DEF u
<1>2. PICK n \in 0 .. MaxChars, k, m \in Nat : n = Len(u[1]) /\ n <= MaxChars /\ k = Len(p[1]) /\ m = Len(r[1])
  BY <1>1
<1>3. n = k + 1 + m
  BY <1>1, <1>2, Zenon
<1>4. n \in Nat /\ k \in 0 .. n - 1 /\ n - k - 1 = m
  BY <1>3
<1> QED BY <1>1, <1>2, <1>3, <1>4 DEF u

LEMMA MemberHas ==
    ASSUME NEW p \in Named, NEW v \in Padded, Colon \in Pairs, Fits(Cat(Cat(p, Colon), v))
    PROVE  Cat(Cat(p, Colon), v) \in Member
<1> DEFINE u == Cat(Cat(p, Colon), v)
<1>1. p \in Pairs /\ p \in At(Len(p[1])).names /\ v \in Pairs /\ v \in At(Len(v[1])).padded
  BY DEF Named, Padded
<1>2. Colon = Chr(":") /\ ":" \in Alphabet /\ Len(Colon[1]) = 1
  BY CharacterOf, ChrIs DEF Colon
<1>3. u \in Join(At(Len(p[1])).names, ":", At(Len(v[1])).padded)
  BY <1>1, <1>2, JoinHas
<1>4. PICK n \in 0 .. MaxChars : \E k \in 0 .. n - 1 :
         n = Len(u[1]) /\ n <= MaxChars /\ k = Len(p[1]) /\ n - k - 1 = Len(v[1]) /\ u \in Pairs
  BY <1>1, <1>2, MiddleCharacter
<1>9. PICK k \in 0 .. n - 1 :
         n = Len(u[1]) /\ n <= MaxChars /\ k = Len(p[1]) /\ n - k - 1 = Len(v[1]) /\ u \in Pairs
  BY <1>4
<1> HIDE DEF u
<1>5. Join(At(k).names, ":", At(n - k - 1).padded) \subseteq At(n).member
  BY Rules
<1>6. u \in At(n).member
  BY <1>3, <1>9, <1>5
<1> QED BY <1>9, <1>6 DEF Member, u

LEMMA MemberIsMembers == Member \subseteq Members
<1> SUFFICES ASSUME NEW p \in Member PROVE p \in Members
  OBVIOUS
<1>1. p \in Pairs /\ Len(p[1]) \in 0 .. MaxChars /\ Len(p[1]) <= MaxChars /\ p \in At(Len(p[1])).member
  BY PairIs, BoundsAssumption DEF Member
<1>2. p \in At(Len(p[1])).members
  BY <1>1, Rules
<1> QED BY <1>1, <1>2 DEF Members

LEMMA ListedElements ==
    ASSUME NEW p \in Padded, NEW e \in Elements, Comma \in Pairs, Fits(Cat(Cat(p, Comma), e))
    PROVE  Cat(Cat(p, Comma), e) \in Elements
<1> DEFINE u == Cat(Cat(p, Comma), e)
<1>1. p \in Pairs /\ p \in At(Len(p[1])).padded /\ e \in Pairs /\ e \in At(Len(e[1])).elements
  BY DEF Elements, Padded
<1>2. Len(Comma[1]) = 1
  <2>1. \A c : Len(Chr(c)[1]) = 1
    BY DEF Chr
  <2> QED BY <2>1, Zenon DEF Comma
<1>3. u \in Listed(At(Len(p[1])).padded, At(Len(e[1])).elements)
  BY <1>1, ListedHas
<1>4. PICK n \in 0 .. MaxChars : \E k \in 0 .. n - 1 :
         n = Len(u[1]) /\ n <= MaxChars /\ k = Len(p[1]) /\ n - k - 1 = Len(e[1]) /\ u \in Pairs
  BY <1>1, <1>2, MiddleCharacter
<1>9. PICK k \in 0 .. n - 1 :
         n = Len(u[1]) /\ n <= MaxChars /\ k = Len(p[1]) /\ n - k - 1 = Len(e[1]) /\ u \in Pairs
  BY <1>4
<1> HIDE DEF u
<1>5. Listed(At(k).padded, At(n - k - 1).elements) \subseteq At(n).elements
  BY Rules
<1>6. u \in At(n).elements
  BY <1>3, <1>9, <1>5
<1> QED BY <1>9, <1>6 DEF Elements, u

LEMMA ListedMembers ==
    ASSUME NEW p \in Member, NEW e \in More, Comma \in Pairs, Fits(Cat(Cat(p, Comma), e))
    PROVE  Cat(Cat(p, Comma), e) \in More
<1> DEFINE u == Cat(Cat(p, Comma), e)
           Rest2(k) == At(k).members \ At(k).blank
<1>1. p \in Pairs /\ p \in At(Len(p[1])).member /\ e \in Pairs /\ e \in At(Len(e[1])).members /\ e[2] # <<>>
  BY DEF Member, Members, More
<1>2. Len(Comma[1]) = 1
  <2>1. \A c : Len(Chr(c)[1]) = 1
    BY DEF Chr
  <2> QED BY <2>1, Zenon DEF Comma
<1>4. PICK n \in 0 .. MaxChars : \E k \in 0 .. n - 1 :
         n = Len(u[1]) /\ n <= MaxChars /\ k = Len(p[1]) /\ n - k - 1 = Len(e[1]) /\ u \in Pairs
  BY <1>1, <1>2, MiddleCharacter
<1>9. PICK k \in 0 .. n - 1 :
         n = Len(u[1]) /\ n <= MaxChars /\ k = Len(p[1]) /\ n - k - 1 = Len(e[1]) /\ u \in Pairs
  BY <1>4
<1>7. e \notin At(Len(e[1])).blank
  <2>1. Len(e[1]) \in 0 .. MaxChars
    BY <1>1, PairIs, BoundsAssumption DEF Members, More
  <2>2. At(Len(e[1])).blank = {<<s, <<>>>> : s \in Words(Whitespace, Len(e[1]))}
    BY <2>1, Rules
  <2> QED BY <1>1, <2>2
<1>3. u \in Listed(At(Len(p[1])).member, Rest2(Len(e[1])))
  BY <1>1, <1>7, ListedHas
<1>8. u[2] # <<>>
  <2>1. Cat(p, Comma) \in Pairs
    BY <1>1, CatIs
  <2> QED BY <1>1, <2>1, ListsSomething
<1> HIDE DEF u
<1>5. Listed(At(k).member, Rest2(n - k - 1)) \subseteq At(n).members
  BY Rules
<1>6. u \in At(n).members
  BY <1>3, <1>9, <1>5
<1> QED BY <1>9, <1>6, <1>8 DEF Members, More, u
-----------------------------------------------------------------------------
\* What a beginning of a text is for: it is Before(K, W) when every W that
\* follows it makes a K of it.

Before(K, W) == {t \in Pairs : \A w \in W : Fits(Cat(t, w)) => Cat(t, w) \in K}
Then(A, B) == {Cat(a, b) : a \in A, b \in B}
Closed(S, c) == {w \in Pairs : c \in Pairs /\ \E s \in S : w = Cat(s, c)}

\* A name with what is around it, up to a value.
Labels == {x \in Pairs : x[2] # <<>> /\ x \in Before(Member, Padded)}
Labelled == Then(Labels, Padded)

\* Where the elements that are still to come may start, and the members.
ElementStarts(K) == Before(K, Closed(Elements, ArrayEnd))
MemberStarts(K) == Before(K, Closed(More, ObjectEnd))

\* An array behind one of its elements, in the midst of what is to be a K, and
\* an object behind one of its members.
ArrayGoal(K) == Then(ElementStarts(K), Padded)
ObjectGoal(K) == Then(MemberStarts(K), Labelled)

\* White space may be put before these, and behind those.
SpaceMayPrecede(W) == \A w \in W, c \in Spaces : Fits(Cat(Chr(c), w)) => Cat(Chr(c), w) \in W
SpaceMayFollow(K) == \A p \in K, c \in Spaces : Fits(Cat(p, Chr(c))) => Cat(p, Chr(c)) \in K

LEMMA SpacesAre ==
    ASSUME NEW c \in Spaces
    PROVE  c \in Alphabet /\ c \in Whitespace /\ Chr(c) \in Pairs
BY ChrIs DEF Spaces

LEMMA KindsArePairs ==
    /\ Padded \subseteq Pairs /\ Named \subseteq Pairs /\ Elements \subseteq Pairs /\ Member \subseteq Pairs
    /\ Members \subseteq Pairs /\ More \subseteq Pairs /\ Blank \subseteq Pairs /\ Labels \subseteq Pairs
BY DEF Padded, Named, Elements, Member, Members, More, Blank, Labels

LEMMA ThenIsPairs ==
    ASSUME NEW A, A \subseteq Pairs, NEW B, B \subseteq Pairs
    PROVE  Then(A, B) \subseteq Pairs
<1> SUFFICES ASSUME NEW a \in A, NEW b \in B PROVE Cat(a, b) \in Pairs
  BY DEF Then
<1>1. a \in Pairs /\ b \in Pairs
  OBVIOUS
<1> QED BY <1>1, CatIs

LEMMA GoalsArePairs ==
    /\ Labelled \subseteq Pairs
    /\ \A K : ArrayGoal(K) \subseteq Pairs /\ ObjectGoal(K) \subseteq Pairs
<1>1. Labelled \subseteq Pairs
  BY KindsArePairs, ThenIsPairs DEF Labelled
<1>2. \A K : ElementStarts(K) \subseteq Pairs /\ MemberStarts(K) \subseteq Pairs
  BY DEF ElementStarts, MemberStarts, Before
<1> QED BY <1>1, <1>2, KindsArePairs, ThenIsPairs DEF ArrayGoal, ObjectGoal

LEMMA SpaceMayFollowThen ==
    ASSUME NEW A, A \subseteq Pairs, NEW B, B \subseteq Pairs, SpaceMayFollow(B)
    PROVE  SpaceMayFollow(Then(A, B))
<1> SUFFICES ASSUME NEW a \in A, NEW b \in B, NEW c \in Spaces, Fits(Cat(Cat(a, b), Chr(c)))
             PROVE  Cat(Cat(a, b), Chr(c)) \in Then(A, B)
  BY DEF SpaceMayFollow, Then
<1>1. a \in Pairs /\ b \in Pairs /\ Chr(c) \in Pairs /\ Cat(b, Chr(c)) \in Pairs
  BY SpacesAre, CatIs
<1>2. Cat(Cat(a, b), Chr(c)) = Cat(a, Cat(b, Chr(c)))
  BY <1>1, CatAssociative
<1>3. Fits(Cat(b, Chr(c)))
  BY <1>1, <1>2, PartFits
<1>4. Cat(b, Chr(c)) \in B
  BY <1>3 DEF SpaceMayFollow
<1> QED BY <1>2, <1>4 DEF Then

LEMMA SpaceMayPrecedeThen ==
    ASSUME NEW A, A \subseteq Pairs, NEW B, B \subseteq Pairs, SpaceMayPrecede(A)
    PROVE  SpaceMayPrecede(Then(A, B))
<1> SUFFICES ASSUME NEW a \in A, NEW b \in B, NEW c \in Spaces, Fits(Cat(Chr(c), Cat(a, b)))
             PROVE  Cat(Chr(c), Cat(a, b)) \in Then(A, B)
  BY DEF SpaceMayPrecede, Then
<1>1. a \in Pairs /\ b \in Pairs /\ Chr(c) \in Pairs /\ Cat(Chr(c), a) \in Pairs
  BY SpacesAre, CatIs
<1>2. Cat(Chr(c), Cat(a, b)) = Cat(Cat(Chr(c), a), b)
  BY <1>1, CatAssociative
<1>3. Fits(Cat(Chr(c), a))
  BY <1>1, <1>2, PartFits
<1>4. Cat(Chr(c), a) \in A
  BY <1>3 DEF SpaceMayPrecede
<1> QED BY <1>2, <1>4 DEF Then

LEMMA SpaceIsNothingNew ==
    /\ SpaceMayFollow(Padded) /\ SpaceMayFollow(Named) /\ SpaceMayFollow(Labelled)
    /\ \A K : SpaceMayFollow(ArrayGoal(K)) /\ SpaceMayFollow(ObjectGoal(K))
    /\ SpaceMayPrecede(Padded) /\ SpaceMayPrecede(Labelled)
    /\ \A c : SpaceMayPrecede(Closed(Blank, c))
<1>1. SpaceMayFollow(Padded) /\ SpaceMayFollow(Named)
  BY SpacesAre, SpaceAfterPadded, SpaceAfterNamed DEF SpaceMayFollow
<1>2. SpaceMayFollow(Labelled)
  BY <1>1, KindsArePairs, SpaceMayFollowThen DEF Labelled
<1>3. ASSUME NEW K PROVE SpaceMayFollow(ArrayGoal(K)) /\ SpaceMayFollow(ObjectGoal(K))
  <2>1. ElementStarts(K) \subseteq Pairs /\ MemberStarts(K) \subseteq Pairs
    BY DEF ElementStarts, MemberStarts, Before
  <2> QED BY <1>1, <1>2, <2>1, KindsArePairs, GoalsArePairs, SpaceMayFollowThen DEF ArrayGoal, ObjectGoal
<1>4. SpaceMayPrecede(Padded)
  BY SpacesAre, SpaceBeforePadded DEF SpaceMayPrecede
<1>5. SpaceMayPrecede(Labels)
  <2> SUFFICES ASSUME NEW x \in Labels, NEW c \in Spaces PROVE Cat(Chr(c), x) \in Labels
    BY DEF SpaceMayPrecede
  <2>1. x \in Pairs /\ Chr(c) \in Pairs /\ Cat(Chr(c), x) \in Pairs /\ Cat(Chr(c), x)[2] # <<>>
    BY SpacesAre, CatIs, ListsSomething DEF Labels
  <2>2. ASSUME NEW v \in Padded, Fits(Cat(Cat(Chr(c), x), v)) PROVE Cat(Cat(Chr(c), x), v) \in Member
    <3>1. v \in Pairs /\ Cat(x, v) \in Pairs
      BY <2>1, KindsArePairs, CatIs
    <3>2. Cat(Cat(Chr(c), x), v) = Cat(Chr(c), Cat(x, v))
      BY <2>1, <3>1, CatAssociative
    <3>3. Fits(Cat(x, v))
      BY <2>1, <2>2, <3>1, <3>2, PartFits
    <3>4. Cat(x, v) \in Member
      BY <3>3 DEF Labels, Before
    <3> QED BY <2>2, <3>2, <3>4, SpacesAre, SpaceBeforeMember
  <2> QED BY <2>1, <2>2 DEF Labels, Before
<1>6. SpaceMayPrecede(Labelled)
  BY <1>5, KindsArePairs, SpaceMayPrecedeThen DEF Labelled
<1>7. ASSUME NEW e PROVE SpaceMayPrecede(Closed(Blank, e))
  <2> SUFFICES ASSUME NEW w \in Closed(Blank, e), NEW c \in Spaces PROVE Cat(Chr(c), w) \in Closed(Blank, e)
    BY DEF SpaceMayPrecede
  <2>1. PICK b \in Blank : w = Cat(b, e)
    BY DEF Closed
  <2>2. b \in Pairs /\ e \in Pairs /\ w \in Pairs /\ Chr(c) \in Pairs
    BY KindsArePairs, SpacesAre DEF Closed
  <2>3. Cat(Chr(c), w) = Cat(Cat(Chr(c), b), e) /\ Cat(Chr(c), w) \in Pairs
    BY <2>1, <2>2, CatAssociative, CatIs
  <2>4. Cat(Chr(c), b) \in Blank
    BY SpacesAre, BlankBefore
  <2> QED BY <2>2, <2>3, <2>4 DEF Closed
<1> QED BY <1>1, <1>2, <1>3, <1>4, <1>6, <1>7

\* White space behind a beginning.
LEMMA BeforeSpace ==
    ASSUME NEW K, NEW W, W \subseteq Pairs, SpaceMayPrecede(W), NEW t \in Before(K, W), NEW c \in Spaces
    PROVE  Cat(t, Chr(c)) \in Before(K, W)
<1>1. t \in Pairs /\ Chr(c) \in Pairs /\ Cat(t, Chr(c)) \in Pairs
  BY SpacesAre, CatIs DEF Before
<1>2. ASSUME NEW w \in W, Fits(Cat(Cat(t, Chr(c)), w)) PROVE Cat(Cat(t, Chr(c)), w) \in K
  <2>1. w \in Pairs /\ Cat(Chr(c), w) \in Pairs
    BY <1>1, CatIs
  <2>2. Cat(Cat(t, Chr(c)), w) = Cat(t, Cat(Chr(c), w))
    BY <1>1, <2>1, CatAssociative
  <2>3. Fits(Cat(Chr(c), w))
    BY <1>1, <1>2, <2>1, <2>2, PartFits
  <2>4. Cat(Chr(c), w) \in W
    BY <2>3 DEF SpaceMayPrecede
  <2> QED BY <1>2, <2>2, <2>4 DEF Before
<1> QED BY <1>1, <1>2 DEF Before

\* What the characters of arrays do to where the text stands.

LEMMA ArrayBegins ==
    ASSUME NEW K, NEW t \in Before(K, Padded), ArrayBegin \in Pairs
    PROVE  Cat(t, ArrayBegin) \in ElementStarts(K)
<1> DEFINE q == Cat(t, ArrayBegin)
<1>1. t \in Pairs /\ q \in Pairs
  BY CatIs DEF Before
<1>2. ASSUME NEW w \in Closed(Elements, ArrayEnd), Fits(Cat(q, w)) PROVE Cat(q, w) \in K
  <2>1. PICK e \in Elements : w = Cat(e, ArrayEnd)
    BY DEF Closed
  <2>2. e \in Pairs /\ w \in Pairs /\ ArrayEnd \in Pairs /\ Cat(ArrayBegin, e) \in Pairs
    BY KindsArePairs, CatIs DEF Closed
  <2>3. Cat(q, w) = Cat(t, Cat(ArrayBegin, w)) /\ Cat(ArrayBegin, w) \in Pairs
    <3>1. Cat(ArrayBegin, w) \in Pairs
      BY <1>1, <2>2, CatIs
    <3>2. Cat(q, w) = Cat(t, Cat(ArrayBegin, w))
      BY <1>1, <2>2, CatAssociative
    <3> QED BY <3>1, <3>2
  <2>4. Cat(ArrayBegin, w) = Cat(Cat(ArrayBegin, e), ArrayEnd)
    BY <2>1, <2>2, CatAssociative
  <2>5. Fits(Cat(ArrayBegin, w))
    BY <1>1, <1>2, <2>3, PartFits
  <2>6. Cat(ArrayBegin, w) \in Padded
    BY <2>2, <2>4, <2>5, ArrayIsPadded
  <2> QED BY <1>2, <2>3, <2>6 DEF Before
<1> QED BY <1>1, <1>2 DEF ElementStarts, Before

LEMMA ElementFollows ==
    ASSUME NEW K, NEW t \in ElementStarts(K)
    PROVE  t \in Before(ArrayGoal(K), Padded) /\ t \in Before(K, Closed(Blank, ArrayEnd))
<1>1. t \in Pairs
  BY DEF ElementStarts, Before
<1>2. t \in Before(ArrayGoal(K), Padded)
  BY <1>1 DEF Before, ArrayGoal, Then
<1>3. ASSUME NEW w \in Closed(Blank, ArrayEnd), Fits(Cat(t, w)) PROVE Cat(t, w) \in K
  <2>1. PICK b \in Blank : w = Cat(b, ArrayEnd)
    BY DEF Closed
  <2>2. b \in Pairs /\ w \in Pairs /\ ArrayEnd \in Pairs
    BY KindsArePairs DEF Closed
  <2>3. Fits(w)
    BY <1>1, <1>3, <2>2, PartFits
  <2>4. Fits(b)
    BY <2>1, <2>2, <2>3, PartFits
  <2>5. w \in Closed(Elements, ArrayEnd)
    BY <2>1, <2>2, <2>4, BlankIs DEF Closed
  <2> QED BY <1>3, <2>5 DEF ElementStarts, Before
<1> QED BY <1>1, <1>2, <1>3 DEF Before

LEMMA ArrayEndsEmpty ==
    ASSUME NEW K, NEW c \in Pairs, NEW t \in Before(K, Closed(Blank, c)), Fits(Cat(t, c))
    PROVE  Cat(t, c) \in K
<1>1. Cat(Empty, c) = c
  BY CatEmpty
<1>2. c \in Closed(Blank, c)
  BY <1>1, EmptyIsBlank DEF Closed
<1> QED BY <1>2 DEF Before

LEMMA ArrayEnds ==
    ASSUME NEW K, NEW t \in ArrayGoal(K), ArrayEnd \in Pairs, Fits(Cat(t, ArrayEnd))
    PROVE  Cat(t, ArrayEnd) \in K
<1>1. PICK u \in ElementStarts(K), v \in Padded : t = Cat(u, v)
  BY DEF ArrayGoal, Then
<1>2. u \in Pairs /\ v \in Pairs /\ v \in Elements /\ Cat(v, ArrayEnd) \in Pairs
  BY KindsArePairs, PaddedIsElements, CatIs DEF ElementStarts, Before
<1>3. Cat(t, ArrayEnd) = Cat(u, Cat(v, ArrayEnd))
  BY <1>1, <1>2, CatAssociative
<1>4. Cat(v, ArrayEnd) \in Closed(Elements, ArrayEnd)
  BY <1>2 DEF Closed
<1> QED BY <1>3, <1>4 DEF ElementStarts, Before

LEMMA ArrayGoesOn ==
    ASSUME NEW K, NEW t \in ArrayGoal(K), Comma \in Pairs
    PROVE  Cat(t, Comma) \in ElementStarts(K)
<1> DEFINE q == Cat(t, Comma)
<1>1. PICK u \in ElementStarts(K), v \in Padded : t = Cat(u, v)
  BY DEF ArrayGoal, Then
<1>2. u \in Pairs /\ v \in Pairs /\ t \in Pairs /\ q \in Pairs /\ Cat(v, Comma) \in Pairs
  BY <1>1, KindsArePairs, CatIs DEF ElementStarts, Before
<1>3. q = Cat(u, Cat(v, Comma))
  BY <1>1, <1>2, CatAssociative
<1>4. ASSUME NEW w \in Closed(Elements, ArrayEnd), Fits(Cat(q, w)) PROVE Cat(q, w) \in K
  <2>1. PICK e \in Elements : w = Cat(e, ArrayEnd)
    BY DEF Closed
  <2>2. e \in Pairs /\ w \in Pairs /\ ArrayEnd \in Pairs /\ Cat(Cat(v, Comma), e) \in Pairs
    BY <1>2, KindsArePairs, CatIs DEF Closed
  <2>3. Cat(q, w) = Cat(u, Cat(Cat(v, Comma), w)) /\ Cat(Cat(v, Comma), w) \in Pairs
    <3>1. Cat(Cat(v, Comma), w) \in Pairs
      BY <1>2, <1>3, <2>2, CatIs
    <3>2. Cat(q, w) = Cat(u, Cat(Cat(v, Comma), w))
      BY <1>2, <1>3, <2>2, CatAssociative
    <3> QED BY <3>1, <3>2
  <2>4. Cat(Cat(v, Comma), w) = Cat(Cat(Cat(v, Comma), e), ArrayEnd)
    BY <1>2, <2>1, <2>2, CatAssociative
  <2>5. Fits(Cat(Cat(v, Comma), e))
    BY <1>2, <1>4, <2>2, <2>3, <2>4, PartFits
  <2>6. Cat(Cat(v, Comma), e) \in Elements
    BY <2>5, ListedElements
  <2>7. Cat(Cat(v, Comma), w) \in Closed(Elements, ArrayEnd)
    BY <2>2, <2>3, <2>4, <2>6 DEF Closed
  <2> QED BY <1>4, <2>3, <2>7 DEF ElementStarts, Before
<1> HIDE DEF q
<1> QED BY <1>2, <1>4 DEF ElementStarts, Before, q

\* And those of objects.

LEMMA ObjectBegins ==
    ASSUME NEW K, NEW t \in Before(K, Padded), ObjectBegin \in Pairs
    PROVE  /\ Cat(t, ObjectBegin) \in MemberStarts(K)
           /\ Cat(t, ObjectBegin) \in Before(K, Closed(Blank, ObjectEnd))
<1> DEFINE q == Cat(t, ObjectBegin)
<1>1. t \in Pairs /\ q \in Pairs
  BY CatIs DEF Before
<1>2. ASSUME NEW w \in Pairs, NEW e \in Pairs, w = Cat(e, ObjectEnd), ObjectEnd \in Pairs,
             Fits(e) => e \in Members, Fits(Cat(q, w))
      PROVE  Cat(q, w) \in K
  <2>2. Cat(ObjectBegin, e) \in Pairs
    BY CatIs
  <2>3. Cat(q, w) = Cat(t, Cat(ObjectBegin, w)) /\ Cat(ObjectBegin, w) \in Pairs
    <3>1. Cat(ObjectBegin, w) \in Pairs
      BY <1>1, CatIs
    <3>2. Cat(q, w) = Cat(t, Cat(ObjectBegin, w))
      BY <1>1, CatAssociative
    <3> QED BY <3>1, <3>2
  <2>4. Cat(ObjectBegin, w) = Cat(Cat(ObjectBegin, e), ObjectEnd)
    BY <1>2, CatAssociative
  <2>5. Fits(Cat(ObjectBegin, w))
    BY <1>1, <1>2, <2>3, PartFits
  <2>6. Fits(e)
    BY <1>2, <2>2, <2>4, <2>5, PartFits
  <2>7. Cat(ObjectBegin, w) \in Padded
    BY <1>2, <2>4, <2>5, <2>6, ObjectIsPadded
  <2> QED BY <1>2, <2>3, <2>7 DEF Before
<1> HIDE DEF q
<1>3. q \in MemberStarts(K)
  <2>1. ASSUME NEW w \in Closed(More, ObjectEnd), Fits(Cat(q, w)) PROVE Cat(q, w) \in K
    <3>1. PICK e \in More : w = Cat(e, ObjectEnd) /\ w \in Pairs /\ ObjectEnd \in Pairs
      BY DEF Closed
    <3>2. e \in Pairs /\ e \in Members
      BY KindsArePairs DEF More
    <3> QED BY <1>2, <2>1, <3>1, <3>2
  <2> QED BY <1>1, <2>1 DEF MemberStarts, Before
<1>4. q \in Before(K, Closed(Blank, ObjectEnd))
  <2>1. ASSUME NEW w \in Closed(Blank, ObjectEnd), Fits(Cat(q, w)) PROVE Cat(q, w) \in K
    <3>1. PICK e \in Blank : w = Cat(e, ObjectEnd) /\ w \in Pairs /\ ObjectEnd \in Pairs
      BY DEF Closed
    <3>2. e \in Pairs /\ (Fits(e) => e \in Members)
      BY KindsArePairs, BlankIs
    <3> QED BY <1>2, <2>1, <3>1, <3>2
  <2> QED BY <1>1, <2>1 DEF Before
<1> QED BY <1>3, <1>4 DEF q

LEMMA MemberFollows ==
    ASSUME NEW K, NEW t \in MemberStarts(K)
    PROVE  t \in Before(ObjectGoal(K), Labelled)
BY DEF MemberStarts, Before, ObjectGoal, Then

\* A name and its value are a member.
LEMMA LabelledIsMember ==
    ASSUME NEW w \in Labelled, Fits(w)
    PROVE  w \in Member /\ w \in More
<1>1. PICK x \in Labels, v \in Padded : w = Cat(x, v)
  BY DEF Labelled, Then
<1>2. x \in Pairs /\ x[2] # <<>> /\ v \in Pairs
  BY KindsArePairs DEF Labels
<1>3. w \in Member
  BY <1>1 DEF Labels, Before
<1>4. w[2] # <<>>
  BY <1>1, <1>2, ListsSomething
<1> QED BY <1>3, <1>4, MemberIsMembers DEF More

LEMMA ObjectEnds ==
    ASSUME NEW K, NEW t \in ObjectGoal(K), ObjectEnd \in Pairs, Fits(Cat(t, ObjectEnd))
    PROVE  Cat(t, ObjectEnd) \in K
<1>1. PICK u \in MemberStarts(K), m \in Labelled : t = Cat(u, m)
  BY DEF ObjectGoal, Then
<1>2. u \in Pairs /\ m \in Pairs /\ t \in Pairs /\ Cat(m, ObjectEnd) \in Pairs
  BY <1>1, GoalsArePairs, CatIs DEF MemberStarts, Before
<1>3. Cat(t, ObjectEnd) = Cat(u, Cat(m, ObjectEnd))
  BY <1>1, <1>2, CatAssociative
<1>4. Fits(m)
  BY <1>1, <1>2, PartFits
<1>5. Cat(m, ObjectEnd) \in Closed(More, ObjectEnd)
  BY <1>2, <1>4, LabelledIsMember DEF Closed
<1> QED BY <1>3, <1>5 DEF MemberStarts, Before

LEMMA ObjectGoesOn ==
    ASSUME NEW K, NEW t \in ObjectGoal(K), Comma \in Pairs
    PROVE  Cat(t, Comma) \in MemberStarts(K)
<1> DEFINE q == Cat(t, Comma)
<1>1. PICK u \in MemberStarts(K), m \in Labelled : t = Cat(u, m)
  BY DEF ObjectGoal, Then
<1>2. u \in Pairs /\ m \in Pairs /\ t \in Pairs /\ q \in Pairs /\ Cat(m, Comma) \in Pairs
  BY <1>1, GoalsArePairs, CatIs DEF MemberStarts, Before
<1>3. q = Cat(u, Cat(m, Comma))
  BY <1>1, <1>2, CatAssociative
<1>4. ASSUME NEW w \in Closed(More, ObjectEnd), Fits(Cat(q, w)) PROVE Cat(q, w) \in K
  <2>1. PICK e \in More : w = Cat(e, ObjectEnd)
    BY DEF Closed
  <2>2. e \in Pairs /\ w \in Pairs /\ ObjectEnd \in Pairs /\ Cat(Cat(m, Comma), e) \in Pairs
    BY <1>2, KindsArePairs, CatIs DEF Closed
  <2>3. Cat(q, w) = Cat(u, Cat(Cat(m, Comma), w)) /\ Cat(Cat(m, Comma), w) \in Pairs
    <3>1. Cat(Cat(m, Comma), w) \in Pairs
      BY <1>2, <1>3, <2>2, CatIs
    <3>2. Cat(q, w) = Cat(u, Cat(Cat(m, Comma), w))
      BY <1>2, <1>3, <2>2, CatAssociative
    <3> QED BY <3>1, <3>2
  <2>4. Cat(Cat(m, Comma), w) = Cat(Cat(Cat(m, Comma), e), ObjectEnd)
    BY <1>2, <2>1, <2>2, CatAssociative
  <2>5. Fits(Cat(Cat(m, Comma), e))
    BY <1>2, <1>4, <2>2, <2>3, <2>4, PartFits
  <2>8. Fits(m)
    BY <1>2, <2>2, <2>5, PartFits
  <2>6. Cat(Cat(m, Comma), e) \in More
    BY <2>5, <2>8, LabelledIsMember, ListedMembers
  <2>7. Cat(Cat(m, Comma), w) \in Closed(More, ObjectEnd)
    BY <2>2, <2>3, <2>4, <2>6 DEF Closed
  <2> QED BY <1>4, <2>3, <2>7 DEF MemberStarts, Before
<1> HIDE DEF q
<1> QED BY <1>2, <1>4 DEF MemberStarts, Before, q

\* The colon behind a name.
LEMMA ValueFollows ==
    ASSUME NEW K, NEW t \in Then(Before(K, Labelled), Named), Colon \in Pairs
    PROVE  Cat(t, Colon) \in Before(K, Padded)
<1> DEFINE q == Cat(t, Colon)
<1>1. PICK u \in Before(K, Labelled), n \in Named : t = Cat(u, n)
  BY DEF Then
<1>2. u \in Pairs /\ n \in Pairs /\ n[2] # <<>> /\ t \in Pairs /\ q \in Pairs /\ Cat(n, Colon) \in Pairs
  BY <1>1, KindsArePairs, CatIs DEF Before, Named
<1>3. q = Cat(u, Cat(n, Colon))
  BY <1>1, <1>2, CatAssociative
<1>4. Cat(n, Colon) \in Labels
  <2>1. Cat(n, Colon)[2] # <<>>
    BY <1>2, ListsSomething
  <2> QED BY <1>2, <2>1, MemberHas DEF Labels, Before
<1>5. ASSUME NEW v \in Padded, Fits(Cat(q, v)) PROVE Cat(q, v) \in K
  <2>1. v \in Pairs
    BY KindsArePairs
  <2>2. Cat(q, v) = Cat(u, Cat(Cat(n, Colon), v))
    BY <1>2, <1>3, <2>1, CatAssociative
  <2>3. Cat(Cat(n, Colon), v) \in Labelled
    BY <1>4 DEF Labelled, Then
  <2> QED BY <1>5, <2>2, <2>3 DEF Before
<1> HIDE DEF q
<1> QED BY <1>2, <1>5 DEF Before, q
-----------------------------------------------------------------------------
\* Strings.

\* Every quote among these characters is shielded.
QuotesShielded(s) == \A i \in 1 .. Len(s) : s[i] = "quote" => Shielded(s, i)

\* Whether a quote is shielded depends on what is before it.
LEMMA ShieldedBefore ==
    ASSUME NEW s \in Seq(Alphabet), NEW c \in Alphabet, NEW i \in 1 .. Len(s) + 1
    PROVE  Shielded(Append(s, c), i) <=> Shielded(s, i)
<1> DEFINE t == Append(s, c)
<1>1. Len(s) \in Nat /\ \A j \in 1 .. Len(s) : t[j] = s[j]
  BY AppendProperties, LenProperties
<1> HIDE DEF t
<1>2. ASSUME NEW k \in 1 .. i - 1
      PROVE  /\ \A j \in k .. i - 1 : t[j] = s[j]
             /\ k > 1 => t[k - 1] = s[k - 1]
  BY <1>1
<1>3. Shielded(t, i) <=> Shielded(s, i)
  BY <1>2 DEF Shielded
<1> QED BY <1>3 DEF t

\* And so a backslash shields what follows it when it is not shielded itself.
LEMMA ShieldedBehind ==
    ASSUME NEW s \in Seq(Alphabet), NEW c \in Alphabet
    PROVE  Shielded(Append(s, c), Len(s) + 2) <=> c = "slash" /\ ~Shielded(s, Len(s) + 1)
<1>0. PICK n \in Nat : n = Len(s) + 1 /\ n >= 1
  BY LenProperties
<1> DEFINE t == Append(s, c)
<1>1. t[n] = c /\ \A j \in 1 .. n - 1 : t[j] = s[j]
  BY <1>0, AppendProperties
<1>2. Shielded(t, n) <=> Shielded(s, n)
  BY <1>0, ShieldedBefore
<1> HIDE DEF t
<1>3. ASSUME Shielded(t, n + 1) PROVE c = "slash" /\ ~Shielded(t, n)
  <2>1. PICK k \in 1 .. n : (n + 1 - k) % 2 = 1 /\ (\A j \in k .. n : t[j] = "slash") /\ (k > 1 => t[k - 1] # "slash")
    BY <1>3 DEF Shielded
  <2>2. c = "slash"
    BY <1>1, <2>1
  <2>3. SUFFICES ASSUME NEW m \in 1 .. n - 1, (n - m) % 2 = 1, \A j \in m .. n - 1 : t[j] = "slash",
                        m > 1 => t[m - 1] # "slash"
                 PROVE  FALSE
    BY <2>2 DEF Shielded
  <2>4. ~(k > m)
    <3> SUFFICES ASSUME k > m PROVE FALSE
      OBVIOUS
    <3>1. k - 1 \in m .. n - 1 /\ k > 1
      OBVIOUS
    <3> QED BY <2>1, <2>3, <3>1
  <2>5. ~(m > k)
    <3> SUFFICES ASSUME m > k PROVE FALSE
      OBVIOUS
    <3>1. m - 1 \in k .. n /\ m > 1
      OBVIOUS
    <3> QED BY <2>1, <2>3, <3>1
  <2>6. m = k
    BY <2>4, <2>5
  <2> QED BY <2>1, <2>3, <2>6
<1>4. ASSUME c = "slash", ~Shielded(t, n) PROVE Shielded(t, n + 1)
  <2>1. CASE n = 1 \/ t[n - 1] # "slash"
    <3>1. (n + 1 - n) % 2 = 1 /\ (\A j \in n .. n : t[j] = "slash") /\ (n > 1 => t[n - 1] # "slash")
      BY <1>1, <1>4, <2>1
    <3>2. n \in 1 .. n + 1 - 1 /\ n + 1 - 1 = n
      BY <1>0
    <3> QED BY <3>1, <3>2 DEF Shielded
  <2>2. CASE n # 1 /\ t[n - 1] = "slash"
    <3> DEFINE T == {k \in 1 .. n - 1 : \A j \in k .. n - 1 : t[j] = "slash"}
    <3>1. n - 1 \in T /\ T \subseteq Nat
      <4>1. n - 1 \in 1 .. n - 1 /\ \A j \in n - 1 .. n - 1 : j = n - 1
        BY <1>0, <2>2
      <4> QED BY <2>2, <4>1
    <3>2. PICK k \in T : \A m \in T : k <= m
      BY <3>1, LeastOf
    <3>3. k \in 1 .. n - 1 /\ \A j \in k .. n - 1 : t[j] = "slash"
      OBVIOUS
    <3>4. k > 1 => t[k - 1] # "slash"
      <4> SUFFICES ASSUME k > 1, t[k - 1] = "slash" PROVE FALSE
        OBVIOUS
      <4>1. k - 1 \in 1 .. n - 1 /\ \A j \in k - 1 .. n - 1 : j = k - 1 \/ j \in k .. n - 1
        BY <3>3
      <4>2. k - 1 \in T
        BY <3>3, <4>1
      <4>3. k <= k - 1
        BY <3>2, <4>2
      <4> QED BY <3>3, <4>3
    <3> HIDE DEF T
    <3>5. (n - k) % 2 # 1
      BY <1>4, <3>3, <3>4 DEF Shielded
    <3>6. (n + 1 - k) % 2 = 1
      BY <3>3, <3>5
    <3>7. \A j \in k .. n : t[j] = "slash"
      BY <1>1, <1>4, <3>3
    <3> QED BY <3>3, <3>4, <3>6, <3>7 DEF Shielded
  <2> QED BY <2>1, <2>2
<1>5. n + 1 = Len(s) + 2
  BY <1>0, LenProperties
<1> QED BY <1>0, <1>2, <1>3, <1>4, <1>5 DEF t

\* A character that closes nothing goes on with a string.
LEMMA StringGrows ==
    ASSUME NEW s \in Seq(Alphabet), QuotesShielded(s), NEW c \in Alphabet,
           c = "quote" => Shielded(s, Len(s) + 1)
    PROVE  QuotesShielded(Append(s, c))
<1> DEFINE t == Append(s, c)
<1>1. /\ Len(s) \in Nat /\ Len(t) = Len(s) + 1 /\ t[Len(s) + 1] = c
      /\ \A i \in 1 .. Len(s) : t[i] = s[i]
  BY AppendProperties, LenProperties
<1>2. \A i \in 1 .. Len(s) + 1 : Shielded(t, i) <=> Shielded(s, i)
  BY ShieldedBefore
<1> HIDE DEF t
<1> SUFFICES ASSUME NEW i \in 1 .. Len(t), t[i] = "quote" PROVE Shielded(t, i)
  BY DEF QuotesShielded, t
<1>3. CASE i = Len(s) + 1
  BY <1>1, <1>2, <1>3
<1>4. CASE i \in 1 .. Len(s)
  BY <1>1, <1>2, <1>4 DEF QuotesShielded
<1> QED BY <1>1, <1>3, <1>4

\* The quotes with what is between them.
LEMMA QuotedHas ==
    ASSUME NEW s \in Seq(Alphabet), QuotesShielded(s), ~Shielded(s, Len(s) + 1), "quote" \in Alphabet,
           Len(s) <= MaxString, NEW p \in Pairs, p = <<<<"quote">> \o s \o <<"quote">>, <<"on_string">>>>, Fits(p)
    PROVE  /\ p \in Padded
           /\ s # <<>> => p \in Named
<1> DEFINE q == <<"quote">>
<1>1. q \in Seq(Alphabet) /\ Len(q) = 1
  OBVIOUS
<1> HIDE DEF q
<1> DEFINE w == q \o s \o q
<1>2. p = <<w, <<"on_string">>>> /\ p[1] = w
  BY Zenon DEF q
<1>3. /\ q \o s \in Seq(Alphabet) /\ w \in Seq(Alphabet) /\ Len(w) = Len(s) + 2 /\ Len(s) \in Nat
      /\ Len(q \o s) = Len(s) + 1
  <2>1. q \o s \in Seq(Alphabet) /\ Len(q \o s) = 1 + Len(s)
    BY <1>1, ConcatProperties
  <2>2. w \in Seq(Alphabet) /\ Len(w) = Len(q \o s) + 1
    BY <1>1, <2>1, ConcatProperties
  <2>3. Len(s) \in Nat
    BY LenProperties
  <2> HIDE DEF w
  <2> QED BY <2>1, <2>2, <2>3
<1>4. Considered(s)
  <2> DEFINE a == <<q \o s, <<>>>>
             b == <<q, <<"on_string">>>>
  <2>1. <<>> \in Seq(Events) /\ <<"on_string">> \in Seq(Events) /\ <<>> \o <<"on_string">> = <<"on_string">>
    BY EmptySeq, ConcatEmptySeq DEF Events
  <2>2. a \in Pairs /\ b \in Pairs
    BY <1>1, <1>3, <2>1 DEF Pairs
  <2>3. Cat(a, b) = p
    BY <1>2, <2>1, Zenon DEF Cat
  <2>4. Fits(a)
    BY <2>2, <2>3, PartFits
  <2> DEFINE d == <<q, <<>>>>
             e == <<s, <<>>>>
  <2>5. d \in Pairs /\ e \in Pairs /\ <<>> \o <<>> = <<>>
    BY <1>1, <2>1, ConcatEmptySeq DEF Pairs
  <2>6. Cat(d, e) = a
    BY <2>5, Zenon DEF Cat
  <2>7. Fits(e) /\ e[1] = s
    BY <2>4, <2>5, <2>6, PartFits
  <2> QED BY <2>7 DEF Fits
<1>5. Len(w) \in 0 .. MaxChars /\ Len(w) - 2 = Len(s) /\ Len(w) - 1 = Len(s) + 1 /\ Len(s) \in 0 .. MaxString
  BY <1>2, <1>3, LengthIs, DialectAssumption
<1>6. s \in Words(Alphabet, Len(s))
  BY <1>4, WordsHas, RangeOfSeq
<1>7. w \in Quoted(Len(w))
  <2>1. /\ Len(w) - 2 \in 0 .. MaxString
        /\ s \in Words(Alphabet, Len(w) - 2)
        /\ \A i \in 1 .. Len(w) - 2 : s[i] = "quote" => Shielded(s, i)
        /\ ~Shielded(s, Len(w) - 1)
    BY <1>5, <1>6 DEF QuotesShielded
  <2> DEFINE S(n) == {x \in IF n - 2 \in 0 .. MaxString /\ "quote" \in Alphabet
                            THEN Words(Alphabet, n - 2) ELSE {} :
                         /\ \A i \in 1 .. n - 2 : x[i] = "quote" => Shielded(x, i)
                         /\ ~Shielded(x, n - 1)}
  <2> HIDE DEF w
  <2>2. s \in S(Len(w))
    BY <2>1
  <2> HIDE DEF S
  <2>3. \E x \in S(Len(w)) : w = <<"quote">> \o x \o <<"quote">>
    BY <2>2, Zenon DEF w, q
  <2>4. w \in {<<"quote">> \o x \o <<"quote">> : x \in S(Len(w))}
    BY <2>3, Zenon
  <2> QED BY <2>4, Zenon DEF Quoted, S
<1>8. p \in Says(Quoted(Len(w)), "on_string")
  BY <1>2, <1>7, Zenon DEF Says
<1>9. p \in Scalar(Len(w))
  BY <1>8, Zenon DEF Scalar
<1>10. p \in Padded
  BY <1>2, <1>9, ScalarIsPadded
<1>11. ASSUME s # <<>> PROVE p \in Named
  <2>1. w # <<"quote", "quote">>
    <3>1. Len(s) # 0 /\ Len(<<"quote", "quote">>) = 2
      BY <1>11, EmptySeq
    <3>2. Len(w) # 2
      BY <1>3, <3>1
    <3> HIDE DEF w
    <3> QED BY <3>1, <3>2
  <2>2. p \in Says(Quoted(Len(w)) \ {<<"quote", "quote">>}, "on_string")
    BY <1>2, <1>7, <2>1, Zenon DEF Says
  <2>3. p \in At(Len(w)).names
    BY <1>5, <2>2, Rules
  <2>4. p[2] # <<>> /\ Len(p[1]) <= MaxChars /\ Len(p[1]) = Len(w)
    BY <1>2, LengthIs
  <2> QED BY <2>3, <2>4 DEF Named
<1> QED BY <1>10, <1>11
-----------------------------------------------------------------------------
\* Numbers.

\* Digits, but for a sign that may come first.
SignedDigits(s, signs) == \A i \in 1 .. Len(s) : s[i] \in Digits \/ (i = 1 /\ s[1] \in signs)

LEMMA UnsignedIs ==
    ASSUME NEW s \in Seq(Alphabet), NEW signs, SignedDigits(s, signs)
    PROVE  /\ Unsigned(s, signs) \in Seq(Alphabet)
           /\ AllDigits(Unsigned(s, signs))
           /\ signs \cap Digits = {} /\ (\E i \in 1 .. Len(s) : s[i] \in Digits) => Unsigned(s, signs) # <<>>
<1>1. Len(s) \in Nat /\ (s = <<>> => Len(s) = 0)
  BY LenProperties, EmptySeq
<1>2. ASSUME NEW t \in Seq(Alphabet), \A i \in 1 .. Len(t) : t[i] \in Digits PROVE AllDigits(t)
  BY <1>2, LenProperties DEF AllDigits, Range
<1> HIDE DEF Digits
<1>3. CASE s # <<>> /\ s[1] \in signs
  <2>1. /\ Tail(s) \in Seq(Alphabet) /\ Len(Tail(s)) = Len(s) - 1
        /\ \A i \in 1 .. Len(Tail(s)) : Tail(s)[i] = s[i + 1]
    BY <1>3, HeadTailProperties
  <2>2. \A i \in 1 .. Len(Tail(s)) : Tail(s)[i] \in Digits
    <3> SUFFICES ASSUME NEW i \in 1 .. Len(Tail(s)) PROVE s[i + 1] \in Digits
      BY <2>1
    <3>1. i + 1 \in 1 .. Len(s) /\ i + 1 # 1
      BY <1>1, <2>1
    <3> QED BY <3>1 DEF SignedDigits
  <2>3. Unsigned(s, signs) = Tail(s)
    BY <1>3 DEF Unsigned
  <2>4. ASSUME signs \cap Digits = {}, NEW i \in 1 .. Len(s), s[i] \in Digits PROVE Tail(s) # <<>>
    <3>1. i # 1
      BY <1>3, <2>4
    <3>2. Len(Tail(s)) # 0
      BY <1>1, <2>1, <3>1
    <3> QED BY <3>2, EmptySeq
  <2> QED BY <1>2, <2>1, <2>2, <2>3, <2>4
<1>4. CASE ~(s # <<>> /\ s[1] \in signs)
  <2>1. Unsigned(s, signs) = s
    BY <1>4 DEF Unsigned
  <2>2. \A i \in 1 .. Len(s) : s[i] \in Digits
    BY <1>1, <1>4 DEF SignedDigits
  <2> QED BY <1>1, <1>2, <2>1, <2>2
<1> QED BY <1>3, <1>4

LEMMA IntegerHas ==
    ASSUME NEW w \in Seq(Alphabet), w # <<>>, SignedDigits(w, {"-"}), CastsToInteger(w)
    PROVE  IsInteger(w)
<1> DEFINE digits == Unsigned(w, {"-"})
<1>1. digits = (IF w[1] = "-" THEN Tail(w) ELSE w)
  BY DEF Unsigned
<1>2. digits \in Seq(Alphabet) /\ AllDigits(digits)
  BY UnsignedIs
<1> HIDE DEF digits
<1>3. digits # <<>> /\ \E zeros \in 0 .. Len(digits) :
          (\A i \in 1 .. zeros : digits[i] = "0") /\ Len(digits) - zeros <= MaxDigits
  BY <1>1 DEF CastsToInteger
<1>4. PICK zeros \in 0 .. Len(digits) :
          (\A i \in 1 .. zeros : digits[i] = "0") /\ Len(digits) - zeros <= MaxDigits
  BY <1>3
<1>5. PICK k \in Nat : k = Len(digits) - zeros /\ k <= MaxDigits /\ k <= Len(digits) /\ Len(digits) - k = zeros
  BY <1>2, <1>4, LenProperties
<1>6. k \in 0 .. MaxDigits
  BY <1>5, BoundsAssumption
<1>7. Range(SubSeq(digits, 1, zeros)) \subseteq {"0"}
  <2> DEFINE t == SubSeq(digits, 1, zeros)
  <2>1. zeros \in Int /\ 1 \in Int /\ \A i \in 1 .. zeros : digits[i] \in {"0"}
    BY <1>2, <1>4, LenProperties
  <2>2. t \in Seq({"0"})
    BY <2>1, SubSeqProperties
  <2> QED BY <2>2, RangeOfSeq
<1> QED BY <1>2, <1>3, <1>5, <1>6, <1>7 DEF IsInteger, digits

\* A point at p, and an exponent mark at m unless m is behind the end.
RealShape(w, p, m) ==
    /\ p \in 1 .. Len(w) /\ m \in p + 1 .. Len(w) + 1
    /\ w[p] = "." /\ (m <= Len(w) => w[m] \in ExponentMarks)
    /\ \A i \in 1 .. Len(w) :
          i # p /\ i # m => \/ w[i] \in Digits
                            \/ i = 1 /\ w[i] = "-"
                            \/ i = m + 1 /\ w[i] \in {"-", "+"}

\* Part of a sequence.
LEMMA PartIs ==
    ASSUME NEW w \in Seq(Alphabet), NEW a \in 1 .. Len(w) + 1, NEW b \in a - 1 .. Len(w)
    PROVE  /\ SubSeq(w, a, b) \in Seq(Alphabet) /\ Len(SubSeq(w, a, b)) = b - a + 1
           /\ \A i \in 1 .. b - a + 1 : SubSeq(w, a, b)[i] = w[a + i - 1]
           /\ (b - a + 1 = 0) <=> SubSeq(w, a, b) = <<>>
<1>1. Len(w) \in Nat /\ a \in Int /\ b \in Int
  BY LenProperties
<1>2. \A i \in a .. b : w[i] \in Alphabet
  BY <1>1, ElementOfSeq
<1>3. /\ SubSeq(w, a, b) \in Seq(Alphabet)
      /\ Len(SubSeq(w, a, b)) = (IF a <= b THEN b - a + 1 ELSE 0)
      /\ \A i \in 1 .. b - a + 1 : SubSeq(w, a, b)[i] = w[a + i - 1]
  BY <1>1, <1>2, SubSeqProperties
<1> DEFINE t == SubSeq(w, a, b)
<1> HIDE DEF t
<1>4. Len(t) = b - a + 1
  BY <1>1, <1>3 DEF t
<1>5. t = <<>> <=> Len(t) = 0
  BY <1>3, EmptySeq DEF t
<1> QED BY <1>3, <1>4, <1>5 DEF t

LEMMA RealHas ==
    ASSUME NEW w \in Seq(Alphabet), NEW p, NEW m, RealShape(w, p, m), CastsToReal(w)
    PROVE  IsReal(w)
<1> DEFINE before == SubSeq(w, 1, p - 1)
           whole == Unsigned(before, {"-"})
           fraction == SubSeq(w, p + 1, m - 1)
           exponent == SubSeq(w, m, Len(w))
<1>0. "." \notin Digits /\ "-" \notin Digits /\ "+" \notin Digits /\ ExponentMarks \cap Digits = {}
      /\ "." \notin ExponentMarks /\ "-" \notin ExponentMarks /\ "+" \notin ExponentMarks
  BY DEF Digits, ExponentMarks
<1>1. /\ Len(w) \in Nat /\ p \in 1 .. Len(w) /\ m \in p + 1 .. Len(w) + 1 /\ p \in Nat /\ m \in Nat
      /\ w[p] = "." /\ (m <= Len(w) => w[m] \in ExponentMarks)
  BY LenProperties DEF RealShape
<1> HIDE DEF Digits, ExponentMarks
<1>2. \A i \in 1 .. Len(w) :
          i # p /\ i # m => \/ w[i] \in Digits
                            \/ i = 1 /\ w[i] = "-"
                            \/ i = m + 1 /\ w[i] \in {"-", "+"}
  BY DEF RealShape
<1>3. /\ before \in Seq(Alphabet) /\ Len(before) = p - 1
      /\ \A i \in 1 .. p - 1 : before[i] = w[i]
  <2>1. 1 \in 1 .. Len(w) + 1 /\ p - 1 \in 1 - 1 .. Len(w) /\ p - 1 - 1 + 1 = p - 1
    BY <1>1
  <2>2. \A i \in 1 .. p - 1 : 1 + i - 1 = i
    BY <1>1
  <2> QED BY <2>1, <2>2, PartIs
<1>4. /\ fraction \in Seq(Alphabet) /\ Len(fraction) = m - p - 1
      /\ \A i \in 1 .. m - p - 1 : fraction[i] = w[p + i]
  <2> DEFINE a == p + 1
             b == m - 1
  <2>1. a \in 1 .. Len(w) + 1 /\ b \in a - 1 .. Len(w) /\ b - a + 1 = m - p - 1
    BY <1>1
  <2>2. \A i \in 1 .. m - p - 1 : a + i - 1 = p + i
    BY <1>1
  <2> HIDE DEF a, b
  <2>3. /\ SubSeq(w, a, b) \in Seq(Alphabet) /\ Len(SubSeq(w, a, b)) = b - a + 1
        /\ \A i \in 1 .. b - a + 1 : SubSeq(w, a, b)[i] = w[a + i - 1]
    BY <2>1, PartIs
  <2>4. fraction = SubSeq(w, a, b)
    BY DEF a, b
  <2> HIDE DEF fraction
  <2> QED BY <2>1, <2>2, <2>3, <2>4
<1>5. /\ exponent \in Seq(Alphabet) /\ Len(exponent) = Len(w) - m + 1
      /\ \A i \in 1 .. Len(w) - m + 1 : exponent[i] = w[m + i - 1]
  <2>1. m \in 1 .. Len(w) + 1 /\ Len(w) \in m - 1 .. Len(w)
    BY <1>1
  <2> QED BY <2>1, PartIs
<1> HIDE DEF before, fraction, exponent
<1>6. SignedDigits(before, {"-"})
  <2> SUFFICES ASSUME NEW i \in 1 .. p - 1 PROVE w[i] \in Digits \/ (i = 1 /\ w[1] \in {"-"})
    BY <1>1, <1>3 DEF SignedDigits
  <2>1. i \in 1 .. Len(w) /\ i # p /\ i # m /\ i # m + 1
    BY <1>1
  <2> QED BY <1>2, <2>1
<1>7. whole \in Seq(Alphabet) /\ AllDigits(whole)
  BY <1>3, <1>6, UnsignedIs
<1>8. AllDigits(fraction)
  <2>1. \A i \in 1 .. m - p - 1 : fraction[i] \in Digits
    <3> SUFFICES ASSUME NEW i \in 1 .. m - p - 1 PROVE w[p + i] \in Digits
      BY <1>4
    <3>1. p + i \in 1 .. Len(w) /\ p + i # p /\ p + i # m /\ p + i # 1 /\ p + i # m + 1
      BY <1>1
    <3> QED BY <1>2, <3>1
  <2> QED BY <1>4, <2>1, LenProperties DEF AllDigits, Range
<1>9. PICK d \in 1 .. Len(w) : w[d] \in Digits /\ \A k \in 1 .. Len(w) : w[k] \in ExponentMarks => d < k
  BY DEF CastsToReal
<1>10. d # p /\ d < m
  <2>1. CASE m <= Len(w)
    <3>1. m \in 1 .. Len(w)
      BY <1>1, <2>1
    <3> QED BY <1>0, <1>1, <1>9, <2>1, <3>1
  <2>2. CASE m > Len(w)
    BY <1>0, <1>1, <1>9, <2>2
  <2> QED BY <1>1, <2>1, <2>2
<1>11. whole # <<>> \/ fraction # <<>>
  <2>1. CASE d < p
    <3>1. d \in 1 .. Len(before) /\ before[d] \in Digits
      BY <1>1, <1>3, <1>9, <2>1
    <3> QED BY <1>0, <1>3, <1>6, <3>1, UnsignedIs
  <2>2. CASE d > p
    <3>1. Len(fraction) # 0
      BY <1>1, <1>4, <1>10, <2>2
    <3> QED BY <3>1, EmptySeq
  <2> QED BY <1>1, <1>9, <1>10, <2>1, <2>2
<1> HIDE DEF whole
<1>12. AllDigits(whole \o fraction) /\ whole \o fraction # <<>>
  <2>1. \A x, y \in Seq(Alphabet) : Range(x \o y) = Range(x) \cup Range(y)
    BY RangeConcatenation
  <2>2. \A x, y \in Seq(Alphabet) : x \o y = <<>> => x = <<>> /\ y = <<>>
    BY ConcatEqualIffEmpty
  <2> QED BY <1>4, <1>7, <1>8, <1>11, <2>1, <2>2 DEF AllDigits
<1>13. exponent = <<>> \/
          /\ exponent[1] \in ExponentMarks
          /\ Unsigned(Tail(exponent), {"-", "+"}) # <<>> /\ AllDigits(Unsigned(Tail(exponent), {"-", "+"}))
  <2>1. CASE m > Len(w)
    <3>1. Len(exponent) = 0
      BY <1>1, <1>5, <2>1
    <3> QED BY <1>5, <3>1, EmptySeq
  <2>2. CASE m <= Len(w)
    <3> DEFINE tail == Tail(exponent)
    <3>1. Len(exponent) >= 1 /\ exponent[1] = w[m]
      <4>1. 1 \in 1 .. Len(w) - m + 1 /\ m + 1 - 1 = m
        BY <1>1, <2>2
      <4> QED BY <1>5, <4>1
    <3>2. /\ tail \in Seq(Alphabet) /\ Len(tail) = Len(w) - m
          /\ \A i \in 1 .. Len(w) - m : tail[i] = w[m + i]
      <4>1. exponent # <<>>
        BY <3>1, EmptySeq
      <4>2. /\ tail \in Seq(Alphabet) /\ Len(tail) = Len(exponent) - 1
            /\ \A i \in 1 .. Len(tail) : tail[i] = exponent[i + 1]
        BY <1>5, <4>1, HeadTailProperties
      <4> HIDE DEF tail
      <4>3. Len(tail) = Len(w) - m
        BY <1>1, <1>5, <4>2
      <4>4. ASSUME NEW i \in 1 .. Len(w) - m PROVE tail[i] = w[m + i]
        <5>1. i + 1 \in 1 .. Len(w) - m + 1 /\ m + (i + 1) - 1 = m + i
          BY <1>1
        <5>2. exponent[i + 1] = w[m + i]
          BY <1>5, <5>1
        <5> QED BY <4>2, <4>3, <5>2
      <4> QED BY <4>2, <4>3, <4>4 DEF tail
    <3> HIDE DEF tail
    <3>3. SignedDigits(tail, {"-", "+"})
      <4> SUFFICES ASSUME NEW i \in 1 .. Len(w) - m PROVE w[m + i] \in Digits \/ (i = 1 /\ w[m + 1] \in {"-", "+"})
        BY <1>1, <3>2 DEF SignedDigits
      <4>1. m + i \in 1 .. Len(w) /\ m + i # p /\ m + i # m /\ m + i # 1 /\ (m + i = m + 1 => i = 1)
        BY <1>1
      <4> QED BY <1>2, <4>1
    <3>4. PICK e \in 1 .. Len(w) : w[e] \in Digits /\ e > m
      <4>1. m \in 1 .. Len(w) /\ w[m] \in ExponentMarks
        BY <1>1, <2>2
      <4> QED BY <4>1 DEF CastsToReal
    <3>5. e - m \in 1 .. Len(tail) /\ tail[e - m] \in Digits
      <4>1. e - m \in 1 .. Len(w) - m /\ m + (e - m) = e
        BY <1>1, <3>4
      <4> QED BY <3>2, <3>4, <4>1
    <3>6. {"-", "+"} \cap Digits = {}
      BY <1>0
    <3>7. Unsigned(tail, {"-", "+"}) # <<>> /\ AllDigits(Unsigned(tail, {"-", "+"}))
      BY <3>2, <3>3, <3>5, <3>6, UnsignedIs
    <3> QED BY <1>1, <2>2, <3>1, <3>7 DEF tail
  <2> QED BY <1>1, <2>1, <2>2
<1> DEFINE j == m - 1
<1>14. p \in 1 .. Len(w) /\ j \in 1 .. Len(w) /\ p <= j /\ j + 1 = m
  BY <1>1
<1>15. /\ fraction = SubSeq(w, p + 1, j) /\ exponent = SubSeq(w, j + 1, Len(w))
       /\ whole = Unsigned(SubSeq(w, 1, p - 1), {"-"})
  BY <1>14 DEF fraction, exponent, whole, before
<1> HIDE DEF j
<1> QED BY <1>1, <1>12, <1>13, <1>14, <1>15 DEF IsReal

LEMMA NumeralHas ==
    ASSUME NEW w \in Seq(Alphabet), Range(w) \subseteq Digits \cup ExponentMarks \cup {"-", "+", "."},
           NEW ev \in Events, NEW p \in Pairs, p = <<w, <<ev>>>>, Fits(p),
           (ev = "on_integer" /\ IsInteger(w)) \/ (ev = "on_real" /\ IsReal(w))
    PROVE  p \in Padded
<1>1. p[1] = w /\ Considered(w)
  BY DEF Fits
<1>2. w \in Numerals(Len(w))
  BY <1>1, WordsHas DEF Numerals
<1>3. p \in Scalar(Len(w))
  BY <1>2, Zenon DEF Scalar, Says
<1> QED BY <1>1, <1>3, ScalarIsPadded

\* What a number is made of, and what one more character makes of it.

LEMMA NumeralsRange ==
    ASSUME NEW w \in Seq(Alphabet), SignedDigits(w, {"-"}) \/ \E p, m : RealShape(w, p, m)
    PROVE  Range(w) \subseteq Digits \cup ExponentMarks \cup {"-", "+", "."}
<1> SUFFICES ASSUME NEW i \in 1 .. Len(w) PROVE w[i] \in Digits \cup ExponentMarks \cup {"-", "+", "."}
  BY LenProperties DEF Range
<1> HIDE DEF Digits, ExponentMarks
<1>1. CASE SignedDigits(w, {"-"})
  BY <1>1 DEF SignedDigits
<1>2. CASE \E p, m : RealShape(w, p, m)
  <2>1. PICK p, m : RealShape(w, p, m)
    BY <1>2
  <2>2. Len(w) \in Nat /\ m \in Nat
    BY <2>1, LenProperties DEF RealShape
  <2>3. CASE i = p
    BY <2>1, <2>3 DEF RealShape
  <2>4. CASE i = m
    BY <2>1, <2>2, <2>4 DEF RealShape
  <2>5. CASE i # p /\ i # m
    BY <2>1, <2>5 DEF RealShape
  <2> QED BY <2>3, <2>4, <2>5
<1> QED BY <1>1, <1>2

LEMMA DigitBehind ==
    ASSUME NEW w \in Seq(Alphabet), NEW signs, SignedDigits(w, signs), NEW c \in Alphabet, c \in Digits
    PROVE  SignedDigits(Append(w, c), signs)
<1> DEFINE t == Append(w, c)
<1>1. /\ Len(w) \in Nat /\ Len(t) = Len(w) + 1 /\ t[Len(w) + 1] = c
      /\ \A i \in 1 .. Len(w) : t[i] = w[i]
  BY AppendProperties, LenProperties
<1> HIDE DEF t, Digits
<1>2. ASSUME NEW i \in 1 .. Len(w) + 1 PROVE t[i] \in Digits \/ (i = 1 /\ t[1] \in signs)
  <2>1. CASE i = Len(w) + 1
    BY <1>1, <2>1
  <2>2. CASE i \in 1 .. Len(w)
    BY <1>1, <2>2 DEF SignedDigits
  <2> QED BY <1>1, <2>1, <2>2
<1> QED BY <1>1, <1>2 DEF SignedDigits, t

LEMMA PointBehind ==
    ASSUME NEW w \in Seq(Alphabet), SignedDigits(w, {"-"}), NEW c \in Alphabet, c = "."
    PROVE  RealShape(Append(w, c), Len(w) + 1, Len(w) + 2)
<1> DEFINE t == Append(w, c)
<1>1. /\ Len(w) \in Nat /\ Len(t) = Len(w) + 1 /\ t[Len(w) + 1] = c
      /\ \A i \in 1 .. Len(w) : t[i] = w[i]
  BY AppendProperties, LenProperties
<1> HIDE DEF t, Digits
<1>2. ASSUME NEW i \in 1 .. Len(w) + 1, i # Len(w) + 1 PROVE t[i] \in Digits \/ (i = 1 /\ t[i] = "-")
  <2>1. i \in 1 .. Len(w)
    BY <1>1, <1>2
  <2> QED BY <1>1, <2>1 DEF SignedDigits
<1>3. Len(w) + 1 \in 1 .. Len(t) /\ Len(w) + 2 \in Len(w) + 1 + 1 .. Len(t) + 1 /\ ~(Len(w) + 2 <= Len(t))
  BY <1>1
<1> QED BY <1>1, <1>2, <1>3 DEF RealShape, t

LEMMA FractionGoesOn ==
    ASSUME NEW w \in Seq(Alphabet), NEW p, RealShape(w, p, Len(w) + 1), NEW c \in Alphabet
    PROVE  /\ c \in Digits => RealShape(Append(w, c), p, Len(w) + 2)
           /\ c \in ExponentMarks => RealShape(Append(w, c), p, Len(w) + 1)
<1> DEFINE t == Append(w, c)
<1>1. /\ Len(w) \in Nat /\ Len(t) = Len(w) + 1 /\ t[Len(w) + 1] = c
      /\ \A i \in 1 .. Len(w) : t[i] = w[i]
  BY AppendProperties, LenProperties
<1> HIDE DEF t, Digits, ExponentMarks
<1>2. /\ p \in 1 .. Len(w) /\ p \in Nat /\ w[p] = "."
      /\ \A i \in 1 .. Len(w) : i # p => w[i] \in Digits \/ (i = 1 /\ w[i] = "-")
  BY <1>1 DEF RealShape
<1>3. p \in 1 .. Len(t) /\ t[p] = "." /\ Len(w) + 1 \in p + 1 .. Len(t) + 1 /\ Len(w) + 2 \in p + 1 .. Len(t) + 1
  BY <1>1, <1>2
<1>4. ASSUME NEW i \in 1 .. Len(t), i # p, i # Len(w) + 1
      PROVE  t[i] \in Digits \/ (i = 1 /\ t[i] = "-")
  <2>1. i \in 1 .. Len(w)
    BY <1>1, <1>4
  <2> QED BY <1>1, <1>2, <1>4, <2>1
<1>5. ASSUME c \in Digits PROVE RealShape(t, p, Len(w) + 2)
  <2>1. ~(Len(w) + 2 <= Len(t))
    BY <1>1
  <2>2. \A i \in 1 .. Len(t) : i # p => t[i] \in Digits \/ (i = 1 /\ t[i] = "-")
    BY <1>1, <1>4, <1>5
  <2> QED BY <1>3, <2>1, <2>2 DEF RealShape
<1>6. ASSUME c \in ExponentMarks PROVE RealShape(t, p, Len(w) + 1)
  BY <1>1, <1>3, <1>4, <1>6 DEF RealShape
<1> QED BY <1>5, <1>6 DEF t

LEMMA ExponentGoesOn ==
    ASSUME NEW w \in Seq(Alphabet), NEW p, NEW m, RealShape(w, p, m), m <= Len(w), NEW c \in Alphabet,
           c \in Digits \/ (m = Len(w) /\ c \in {"-", "+"})
    PROVE  RealShape(Append(w, c), p, m) /\ m < Len(Append(w, c))
<1> DEFINE t == Append(w, c)
<1>1. /\ Len(w) \in Nat /\ Len(t) = Len(w) + 1 /\ t[Len(w) + 1] = c
      /\ \A i \in 1 .. Len(w) : t[i] = w[i]
  BY AppendProperties, LenProperties
<1> HIDE DEF t, Digits, ExponentMarks
<1>2. /\ p \in 1 .. Len(w) /\ p \in Nat /\ w[p] = "." /\ m \in p + 1 .. Len(w) /\ w[m] \in ExponentMarks
      /\ \A i \in 1 .. Len(w) :
            i # p /\ i # m => \/ w[i] \in Digits
                              \/ i = 1 /\ w[i] = "-"
                              \/ i = m + 1 /\ w[i] \in {"-", "+"}
  BY <1>1 DEF RealShape
<1>3. /\ p \in 1 .. Len(t) /\ t[p] = "." /\ m \in p + 1 .. Len(t) + 1 /\ m \in 1 .. Len(w) /\ t[m] \in ExponentMarks
      /\ m < Len(t)
  BY <1>1, <1>2
<1>4. ASSUME NEW i \in 1 .. Len(t), i # p, i # m
      PROVE  \/ t[i] \in Digits
             \/ i = 1 /\ t[i] = "-"
             \/ i = m + 1 /\ t[i] \in {"-", "+"}
  <2>1. CASE i = Len(w) + 1
    BY <1>1, <2>1
  <2>2. CASE i \in 1 .. Len(w)
    BY <1>1, <1>2, <1>4, <2>2
  <2> QED BY <1>1, <2>1, <2>2
<1> QED BY <1>3, <1>4 DEF RealShape, t
-----------------------------------------------------------------------------
\* Literals: what has been read of one, and what is still wanted.

LEMMA LiteralStarts ==
    ASSUME NEW c \in {"t", "f", "n"}
    PROVE  <<c>> \o Rest(c) \in Literals /\ (<<c>> \o Rest(c))[1] = c
<1>1. CASE c = "t"
  <2>1. Rest(c) = <<"r", "u", "e">>
    BY <1>1 DEF Rest
  <2>2. <<c>> \o Rest(c) = <<"t", "r", "u", "e">>
    BY <1>1, <2>1, OneAndThree
  <2> QED BY <1>1, <2>2 DEF Literals
<1>2. CASE c = "f"
  <2>1. Rest(c) = <<"a", "l", "s", "e">>
    BY <1>2 DEF Rest
  <2>2. <<c>> \o Rest(c) = <<"f", "a", "l", "s", "e">>
    BY <1>2, <2>1, OneAndFour
  <2> QED BY <1>2, <2>2 DEF Literals
<1>3. CASE c = "n"
  <2>1. Rest(c) = <<"u", "l", "l">>
    BY <1>3 DEF Rest
  <2>2. <<c>> \o Rest(c) = <<"n", "u", "l", "l">>
    BY <1>3, <2>1, OneAndThree
  <2> QED BY <1>3, <2>2 DEF Literals
<1> QED BY <1>1, <1>2, <1>3

LEMMA LiteralHas ==
    ASSUME NEW w \in Seq(Alphabet), w \in Literals, NEW ev,
           ev = (IF w[1] = "n" THEN "on_null" ELSE "on_boolean"), NEW p \in Pairs, p = <<w, <<ev>>>>, Fits(p)
    PROVE  p \in Padded
<1>1. p[1] = w /\ Considered(w) /\ Range(w) \subseteq Alphabet
  BY RangeOfSeq DEF Fits
<1> DEFINE S == {x \in Literals : Len(x) = Len(w) /\ Range(x) \subseteq Alphabet /\ Considered(x)}
<1>2. w \in S
  BY <1>1
<1> HIDE DEF S
<1>3. p \in {<<x, <<IF x[1] = "n" THEN "on_null" ELSE "on_boolean">>>> : x \in S}
  BY <1>2, Zenon
<1>4. p \in Scalar(Len(w))
  BY <1>3, Zenon DEF Scalar, S
<1> QED BY <1>1, <1>4, ScalarIsPadded
-----------------------------------------------------------------------------
\* Beginnings of the text.

LEMMA SplitAt ==
    ASSUME NEW s \in Seq(Alphabet), NEW k \in 0 .. Len(s)
    PROVE  /\ SubSeq(s, 1, k) \in Seq(Alphabet) /\ SubSeq(s, k + 1, Len(s)) \in Seq(Alphabet)
           /\ s = SubSeq(s, 1, k) \o SubSeq(s, k + 1, Len(s))
<1>1. /\ 1 \in 1 .. Len(s) + 1 /\ k \in 1 - 1 .. Len(s) /\ Len(s) \in k .. Len(s)
      /\ k + 1 \in 1 .. Len(s) + 1 /\ Len(s) \in k + 1 - 1 .. Len(s)
  BY LenProperties
<1>2. SubSeq(s, 1, k) \in Seq(Alphabet) /\ SubSeq(s, k + 1, Len(s)) \in Seq(Alphabet)
  BY <1>1, PartIs
<1>3. SubSeq(s, 1, k) \o SubSeq(s, k + 1, Len(s)) = SubSeq(s, 1, Len(s))
  BY <1>1, ConcatAdjacentSubSeq
<1> QED BY <1>2, <1>3, SubSeqFull

LEMMA FirstOf ==
    ASSUME NEW s \in Seq(Alphabet), NEW k \in 1 .. Len(s)
    PROVE  SubSeq(s, k, Len(s)) = <<s[k]>> \o SubSeq(s, k + 1, Len(s))
<1>1. Len(s) \in k .. Len(s)
  BY LenProperties
<1> QED BY <1>1, SubSeqRecursiveFirst

LEMMA BeginningStays ==
    ASSUME NEW s \in Seq(Alphabet), NEW c \in Alphabet, NEW k \in 0 .. Len(s)
    PROVE  SubSeq(Append(s, c), 1, k) = SubSeq(s, 1, k)
<1> DEFINE t == Append(s, c)
<1>1. /\ t \in Seq(Alphabet) /\ Len(s) \in Nat /\ Len(t) = Len(s) + 1
      /\ \A i \in 1 .. Len(s) : t[i] = s[i]
  BY AppendProperties, LenProperties
<1> HIDE DEF t
<1>2. /\ 1 \in 1 .. Len(s) + 1 /\ k \in 1 - 1 .. Len(s) /\ k - 1 + 1 = k
      /\ 1 \in 1 .. Len(t) + 1 /\ k \in 1 - 1 .. Len(t)
  BY <1>1
<1>3. /\ SubSeq(s, 1, k) \in Seq(Alphabet) /\ Len(SubSeq(s, 1, k)) = k
      /\ \A i \in 1 .. k : SubSeq(s, 1, k)[i] = s[1 + i - 1]
  BY <1>2, PartIs
<1>4. /\ SubSeq(t, 1, k) \in Seq(Alphabet) /\ Len(SubSeq(t, 1, k)) = k
      /\ \A i \in 1 .. k : SubSeq(t, 1, k)[i] = t[1 + i - 1]
  BY <1>1, <1>2, PartIs
<1>5. \A i \in 1 .. k : 1 + i - 1 \in 1 .. Len(s)
  BY <1>1
<1>6. \A i \in 1 .. k : SubSeq(t, 1, k)[i] = SubSeq(s, 1, k)[i]
  BY <1>1, <1>3, <1>4, <1>5
<1>7. SubSeq(t, 1, k) = SubSeq(s, 1, k)
  BY <1>3, <1>4, <1>6, SeqEqual
<1> QED BY <1>7 DEF t
-----------------------------------------------------------------------------
\* Where the parser stands.

\* What was moved over and listed so far, and a beginning of it.
Here == <<text, listed>>
Upto(k) == <<SubSeq(text, 1, k), listed>>

LEMMA HereIs ==
    ASSUME TypeInv
    PROVE  /\ Here \in Pairs /\ Here[1] = text /\ Here[2] = listed
           /\ \A k \in 0 .. Len(text) : Upto(k) \in Pairs /\ Upto(k)[1] = SubSeq(text, 1, k) /\ Upto(k)[2] = listed
<1>1. text \in Seq(Alphabet) /\ listed \in Seq(Events)
  BY DEF TypeInv, TypeOK
<1>2. \A k \in 0 .. Len(text) : SubSeq(text, 1, k) \in Seq(Alphabet)
  BY <1>1, SplitAt
<1> QED BY <1>1, <1>2 DEF Here, Upto, Pairs

\* A character that lists nothing.
LEMMA Moved ==
    ASSUME TypeInv, Consume, listed' = listed
    PROVE  /\ peek \in Alphabet /\ Chr(peek) \in Pairs
           /\ Here' = Cat(Here, Chr(peek)) /\ Here' \in Pairs
           /\ <<SubSeq(text', 1, Len(text)), listed'>> = Here
<1>1. peek \in Alphabet /\ text \in Seq(Alphabet) /\ text' = Append(text, peek) /\ listed \in Seq(Events)
  BY Consumed DEF TypeInv
<1>2. Chr(peek) \in Pairs /\ Chr(peek)[1] = <<peek>> /\ Chr(peek)[2] = <<>>
  BY <1>1, ChrIs
<1>3. Here \in Pairs /\ Here[1] = text /\ Here[2] = listed
  BY HereIs
<1>4. text' = text \o <<peek>> /\ listed = listed \o <<>>
  BY <1>1, AppendIsConcat, ConcatEmptySeq
<1>5. Here' = Cat(Here, Chr(peek))
  BY <1>2, <1>3, <1>4 DEF Here, Cat
<1>6. Len(text) \in 0 .. Len(text)
  BY <1>1, LenProperties
<1>7. SubSeq(text', 1, Len(text)) = text
  BY <1>1, <1>6, BeginningStays, SubSeqFull
<1>8. <<SubSeq(text', 1, Len(text)), listed'>> = Here
  BY <1>7 DEF Here
<1> QED BY <1>1, <1>2, <1>3, <1>5, <1>8, CatIs

\* One that does.
LEMMA MovedAndListed ==
    ASSUME TypeInv, Consume, NEW ev \in Events, List(ev)
    PROVE  /\ peek \in Alphabet /\ Tok(peek, ev) \in Pairs
           /\ Here' = Cat(Here, Tok(peek, ev)) /\ Here' \in Pairs
<1>1. peek \in Alphabet /\ text \in Seq(Alphabet) /\ text' = Append(text, peek) /\ listed \in Seq(Events)
  BY Consumed DEF TypeInv
<1>2. Tok(peek, ev) \in Pairs /\ Tok(peek, ev)[1] = <<peek>> /\ Tok(peek, ev)[2] = <<ev>>
  BY <1>1, ChrIs
<1>3. Here \in Pairs /\ Here[1] = text /\ Here[2] = listed
  BY HereIs
<1>4. text' = text \o <<peek>> /\ listed' = listed \o <<ev>>
  BY <1>1, AppendIsConcat DEF List
<1>5. Here' = Cat(Here, Tok(peek, ev))
  BY <1>2, <1>3, <1>4 DEF Here, Cat
<1> QED BY <1>1, <1>2, <1>3, <1>5, CatIs

\* A value behind a beginning.
LEMMA Completes ==
    ASSUME NEW K, NEW W, NEW t \in Before(K, W), NEW w \in W, Fits(Cat(t, w))
    PROVE  Cat(t, w) \in K
BY DEF Before

\* Inside of a string, that is a name when pc says so.
InsideString(K) ==
    /\ first \in 1 .. Len(text) /\ text[first] = "quote"
    /\ QuotesShielded(Read) /\ (odd <=> Shielded(Read, Len(Read) + 1))
    /\ pc = "name" => Upto(first - 1) \in Before(K, Labelled)
    /\ pc = "string" => Upto(first - 1) \in Before(K, Padded)

InsideNumber(K) ==
    /\ Upto(first) \in Before(K, Padded)
    /\ pc = "digits" => SignedDigits(Read, {"-"}) /\ (Read = <<>> => peek \in Digits \cup {"."})
    /\ pc = "fraction" => \E p : RealShape(Read, p, Len(Read) + 1)
    /\ pc = "exp_sign" => \E p : RealShape(Read, p, Len(Read))
    /\ pc = "exp" => \E p, m : RealShape(Read, p, m) /\ m < Len(Read)

InsideLiteral(K) ==
    \E pre, done \in Seq(Alphabet) :
        /\ text = pre \o done /\ <<pre, listed>> \in Before(K, Padded)
        /\ done # <<>> /\ done \o want \in Literals
        /\ pc = "null" <=> done[1] = "n"

\* In the midst of what is to be a K, inside of what is to be an O.
Stand(K, O) ==
    /\ pc = "after" => Here \in K
    /\ pc \in BeforeValue => Here \in Before(K, Padded)
    /\ pc = "element" => Here \in Before(O, Closed(Blank, ArrayEnd))
    /\ pc = "first_member" => Here \in Before(O, Closed(Blank, ObjectEnd))
    /\ pc \in {"first_member", "member"} => Here \in Before(K, Labelled)
    /\ pc = "colon" => Here \in Then(Before(K, Labelled), Named)
    /\ pc \in InString => InsideString(K)
    /\ pc \in InNumber => InsideNumber(K)
    /\ pc \in InLiteral => InsideLiteral(K)

\* What each level is to be.
Level(kind, K) == IF kind = "array" THEN ArrayGoal(K) ELSE ObjectGoal(K)
Tower(G, fs) == G[0] = Padded /\ \A i \in 1 .. Len(fs) : G[i] = Level(fs[i], G[i - 1])

Standing ==
    \E G, K, O : /\ Tower(G, frames) /\ K = G[Len(frames)] /\ O = G[Len(frames) - 1]
                 /\ Stand(K, O)

Kinds == {"array", "object"}

LEMMA TowerTop ==
    ASSUME NEW G, NEW fs \in Seq(Kinds), Tower(G, fs)
    PROVE  /\ G[Len(fs)] \subseteq Pairs /\ SpaceMayFollow(G[Len(fs)])
           /\ fs # <<>> => G[Len(fs)] = Level(Last(fs), G[Len(fs) - 1])
<1>1. Len(fs) \in Nat /\ (Len(fs) = 0 <=> fs = <<>>)
  BY LenProperties, EmptySeq
<1>2. CASE Len(fs) = 0
  <2>1. G[Len(fs)] = Padded
    BY <1>2 DEF Tower
  <2> QED BY <1>1, <1>2, <2>1, KindsArePairs, SpaceIsNothingNew
<1>3. CASE Len(fs) # 0
  <2>1. Len(fs) \in 1 .. Len(fs) /\ Last(fs) = fs[Len(fs)]
    BY <1>1, <1>3 DEF Last
  <2>2. G[Len(fs)] = Level(Last(fs), G[Len(fs) - 1])
    BY <2>1 DEF Tower
  <2> DEFINE K == G[Len(fs)]
             O == G[Len(fs) - 1]
  <2>3. K = ArrayGoal(O) \/ K = ObjectGoal(O)
    BY <2>2 DEF Level
  <2> HIDE DEF K, O
  <2>4. K \subseteq Pairs /\ SpaceMayFollow(K)
    BY <2>3, GoalsArePairs, SpaceIsNothingNew, Zenon
  <2> QED BY <2>2, <2>4 DEF K
<1> QED BY <1>2, <1>3

LEMMA TowerGrows ==
    ASSUME NEW G, NEW fs \in Seq(Kinds), Tower(G, fs), NEW kind \in Kinds
    PROVE  \E H : /\ Tower(H, Append(fs, kind))
                  /\ H[Len(fs) + 1] = Level(kind, G[Len(fs)]) /\ H[Len(fs)] = G[Len(fs)]
<1> DEFINE n == Len(fs)
           gs == Append(fs, kind)
           x == Level(kind, G[n])
           H == [i \in 0 .. n + 1 |-> IF i = n + 1 THEN x ELSE G[i]]
<1>1. n \in Nat /\ Len(gs) = n + 1 /\ gs[n + 1] = kind /\ \A i \in 1 .. n : gs[i] = fs[i]
  BY AppendProperties, LenProperties
<1> HIDE DEF n, gs, x
<1>2. H[n + 1] = x /\ \A i \in 0 .. n : H[i] = G[i]
  BY <1>1
<1> HIDE DEF H
<1>3. G[0] = Padded /\ \A i \in 1 .. n : G[i] = Level(fs[i], G[i - 1])
  BY DEF Tower, n
<1>4. H[0] = Padded /\ H[n] = G[n]
  BY <1>1, <1>2, <1>3
<1>5. ASSUME NEW i \in 1 .. n + 1 PROVE H[i] = Level(gs[i], H[i - 1])
  <2>1. CASE i = n + 1
    <3>1. H[i] = x /\ gs[i] = kind /\ i - 1 = n
      BY <1>1, <1>2, <2>1
    <3> QED BY <1>4, <3>1 DEF x
  <2>2. CASE i \in 1 .. n
    <3>1. H[i] = G[i] /\ H[i - 1] = G[i - 1] /\ gs[i] = fs[i] /\ G[i] = Level(fs[i], G[i - 1])
      BY <1>1, <1>2, <1>3, <2>2
    <3> QED BY <3>1
  <2> QED BY <1>1, <2>1, <2>2
<1>6. Tower(H, gs)
  BY <1>1, <1>4, <1>5 DEF Tower
<1> QED BY <1>2, <1>4, <1>6 DEF n, gs, x

LEMMA TowerShrinks ==
    ASSUME NEW G, NEW fs \in Seq(Kinds), Tower(G, fs), fs # <<>>
    PROVE  Tower(G, Front(fs)) /\ Len(Front(fs)) = Len(fs) - 1
<1> DEFINE es == Front(fs)
<1>1. Len(es) = Len(fs) - 1 /\ Len(fs) \in Nat /\ \A i \in 1 .. Len(fs) - 1 : es[i] = fs[i]
  BY PopTop, LenProperties
<1> HIDE DEF es
<1>2. ASSUME NEW i \in 1 .. Len(es) PROVE G[i] = Level(es[i], G[i - 1])
  <2>1. i \in 1 .. Len(fs) /\ es[i] = fs[i]
    BY <1>1
  <2> QED BY <2>1 DEF Tower
<1>3. Tower(G, es)
  BY <1>2 DEF Tower
<1> QED BY <1>1, <1>3 DEF es
-----------------------------------------------------------------------------
\* Every step keeps the place, on one level.

Fitting(K, O) ==
    /\ K \subseteq Pairs /\ SpaceMayFollow(K)
    /\ In("array") => K = ArrayGoal(O)
    /\ In("object") => K = ObjectGoal(O)

LEMMA PlacesAre ==
    ASSUME NEW K, NEW O
    PROVE  /\ pc' = "after" /\ Here' \in K => Stand(K, O)'
           /\ pc' = "value" /\ Here' \in Before(K, Padded) => Stand(K, O)'
           /\ pc' = "element" /\ Here' \in Before(K, Padded) /\ Here' \in Before(O, Closed(Blank, ArrayEnd))
              => Stand(K, O)'
           /\ pc' = "first_member" /\ Here' \in Before(K, Labelled) /\ Here' \in Before(O, Closed(Blank, ObjectEnd))
              => Stand(K, O)'
           /\ pc' = "member" /\ Here' \in Before(K, Labelled) => Stand(K, O)'
           /\ pc' = "colon" /\ Here' \in Then(Before(K, Labelled), Named) => Stand(K, O)'
           /\ pc' = "close" => Stand(K, O)'
           /\ pc' \in InString /\ InsideString(K)' => Stand(K, O)'
           /\ pc' \in InNumber /\ InsideNumber(K)' => Stand(K, O)'
           /\ pc' \in InLiteral /\ InsideLiteral(K)' => Stand(K, O)'
BY DEF Stand, BeforeValue, InString, InNumber, InLiteral

LEMMA SpaceKeepsPlace ==
    ASSUME TypeInv, NEW K, NEW O, Fitting(K, O), Stand(K, O), Fits(Here'), SkipWhitespace
    PROVE  Stand(K, O)'
<1>1. /\ pc \in Skipping /\ pc' = pc /\ Consume /\ listed' = listed /\ peek \in Whitespace
  BY DEF SkipWhitespace
<1>2. peek \in Spaces /\ Here' = Cat(Here, Chr(peek))
  BY <1>1, Moved DEF Spaces
<1>3. \A L : Here \in Before(L, Padded) => Here' \in Before(L, Padded)
  BY <1>2, BeforeSpace, SpaceIsNothingNew, KindsArePairs
<1>4. \A L : Here \in Before(L, Labelled) => Here' \in Before(L, Labelled)
  BY <1>2, BeforeSpace, SpaceIsNothingNew, GoalsArePairs
<1>5. \A L, e : Here \in Before(L, Closed(Blank, e)) => Here' \in Before(L, Closed(Blank, e))
  <2>1. \A e : Closed(Blank, e) \subseteq Pairs
    BY DEF Closed
  <2> QED BY <1>2, <2>1, BeforeSpace, SpaceIsNothingNew
<1>6. CASE pc = "after"
  <2>1. Here' \in K
    BY <1>2, <1>6 DEF Stand, Fitting, SpaceMayFollow
  <2> QED BY <1>1, <1>6, <2>1, PlacesAre
<1>7. CASE pc = "value"
  <2>1. Here' \in Before(K, Padded)
    BY <1>3, <1>7 DEF Stand, BeforeValue
  <2> QED BY <1>1, <1>7, <2>1, PlacesAre
<1>8. CASE pc = "element"
  <2>1. Here' \in Before(K, Padded) /\ Here' \in Before(O, Closed(Blank, ArrayEnd))
    BY <1>3, <1>5, <1>8 DEF Stand, BeforeValue
  <2> QED BY <1>1, <1>8, <2>1, PlacesAre
<1>9. CASE pc = "first_member"
  <2>1. Here' \in Before(K, Labelled) /\ Here' \in Before(O, Closed(Blank, ObjectEnd))
    BY <1>4, <1>5, <1>9 DEF Stand
  <2> QED BY <1>1, <1>9, <2>1, PlacesAre
<1>10. CASE pc = "member"
  <2>1. Here' \in Before(K, Labelled)
    BY <1>4, <1>10 DEF Stand
  <2> QED BY <1>1, <1>10, <2>1, PlacesAre
<1>11. CASE pc = "colon"
  <2> DEFINE B == Then(Before(K, Labelled), Named)
  <2>1. Before(K, Labelled) \subseteq Pairs
    BY DEF Before
  <2>2. SpaceMayFollow(B)
    BY <2>1, SpaceMayFollowThen, SpaceIsNothingNew, KindsArePairs
  <2>3. Here \in B
    BY <1>11 DEF Stand
  <2> HIDE DEF B
  <2>4. Here' \in B
    BY <1>2, <2>2, <2>3 DEF SpaceMayFollow
  <2> QED BY <1>1, <1>11, <2>4, PlacesAre DEF B
<1> QED BY <1>1, <1>6, <1>7, <1>8, <1>9, <1>10, <1>11 DEF Skipping, BeforeValue

LEMMA CommaKeepsPlace ==
    ASSUME TypeInv, NEW K, NEW O, Fitting(K, O), Stand(K, O), NextElement \/ NextMember
    PROVE  Stand(K, O)'
<1>1. ASSUME NEW label, Move(",", label), pc = "after"
      PROVE  /\ Here' = Cat(Here, Comma) /\ Comma \in Pairs /\ Here \in K /\ pc' = label
  <2>1. Consume /\ listed' = listed /\ Chr(peek) = Comma
    BY <1>1, Zenon DEF Move, Comma
  <2>2. pc' = label /\ Here \in K
    BY <1>1 DEF Move, Goto, Stand
  <2> QED BY <2>1, <2>2, Moved
<1>2. CASE NextElement
  <2> DEFINE label == IF peek' = "end" THEN "close" ELSE "element"
  <2>1. In("array") /\ pc = "after" /\ Move(",", label)
    BY <1>2, Zenon DEF NextElement
  <2>2. label \in {"close", "element"}
    OBVIOUS
  <2> HIDE DEF label
  <2>3. /\ Here' = Cat(Here, Comma) /\ Comma \in Pairs /\ Here \in ArrayGoal(O) /\ pc' \in {"close", "element"}
        /\ K = ArrayGoal(O)
    BY <1>1, <2>1, <2>2 DEF Fitting
  <2>4. Here' \in Before(K, Padded) /\ Here' \in Before(O, Closed(Blank, ArrayEnd))
    BY <2>3, ArrayGoesOn, ElementFollows
  <2> QED BY <2>3, <2>4, PlacesAre
<1>3. CASE NextMember
  <2>1. In("object") /\ pc = "after" /\ Move(",", "member")
    BY <1>3, Zenon DEF NextMember
  <2>3. /\ Here' = Cat(Here, Comma) /\ Comma \in Pairs /\ Here \in ObjectGoal(O) /\ pc' = "member"
        /\ K = ObjectGoal(O)
    BY <1>1, <2>1 DEF Fitting
  <2>4. Here' \in Before(K, Labelled)
    BY <2>3, ObjectGoesOn, MemberFollows
  <2> QED BY <2>3, <2>4, PlacesAre
<1> QED BY <1>2, <1>3

LEMMA ColonKeepsPlace ==
    ASSUME TypeInv, NEW K, NEW O, Stand(K, O), Separator
    PROVE  Stand(K, O)'
<1>1. pc = "colon" /\ peek = ":" /\ Consume /\ pc' = "value" /\ listed' = listed
  BY DEF Separator, Move, Goto
<1>2. Here' = Cat(Here, Colon) /\ Colon \in Pairs
  BY <1>1, Moved DEF Colon
<1>3. Here' \in Before(K, Padded)
  BY <1>1, <1>2, ValueFollows DEF Stand
<1> QED BY <1>1, <1>3, PlacesAre

\* What has been read of a token.
LEMMA ReadIs ==
    ASSUME TypeInv
    PROVE  /\ Read \in Seq(Alphabet) /\ Len(Read) \in Nat /\ Len(Read) = Len(text) - first /\ first \in 0 .. Len(text)
           /\ text = SubSeq(text, 1, first) \o Read /\ SubSeq(text, 1, first) \in Seq(Alphabet)
           /\ first = Len(text) => Read = <<>>
<1>1. text \in Seq(Alphabet) /\ first \in 0 .. Len(text) /\ Len(text) \in Nat
  BY LenProperties DEF TypeInv, TypeOK
<1> DEFINE a == first + 1
           b == Len(text)
<1>2. a \in 1 .. Len(text) + 1 /\ b \in a - 1 .. Len(text) /\ b - a + 1 = Len(text) - first
  BY <1>1
<1>3. Read = SubSeq(text, a, b)
  BY DEF Read
<1> HIDE DEF a, b
<1>4. /\ SubSeq(text, a, b) \in Seq(Alphabet) /\ Len(SubSeq(text, a, b)) = b - a + 1
      /\ (b - a + 1 = 0) <=> SubSeq(text, a, b) = <<>>
  BY <1>1, <1>2, PartIs
<1>5. text = SubSeq(text, 1, first) \o Read /\ SubSeq(text, 1, first) \in Seq(Alphabet)
  BY <1>1, SplitAt DEF Read
<1>6. first = Len(text) => Len(text) - first = 0
  BY <1>1
<1>7. Len(text) - first \in Nat
  BY <1>1
<1> HIDE DEF Read
<1> QED BY <1>1, <1>2, <1>3, <1>4, <1>5, <1>6, <1>7

LEMMA ReadGrows ==
    ASSUME TypeInv, Consume, first' = first
    PROVE  /\ Read' = Append(Read, peek) /\ Read' \in Seq(Alphabet) /\ Len(Read') = Len(Read) + 1
           /\ listed' = listed => \A k \in 0 .. Len(text) : Upto(k)' = Upto(k)
<1>1. peek \in Alphabet /\ text \in Seq(Alphabet) /\ text' = Append(text, peek) /\ Len(text') = Len(text) + 1
      /\ Len(text) \in Nat
  BY Consumed
<1>2. first \in 0 .. Len(text) /\ Read \in Seq(Alphabet)
  BY ReadIs
<1>3. first + 1 \in 1 .. Len(text) + 1
  BY <1>1, <1>2
<1>4. Read' = Append(Read, peek)
  <2>1. SubSeq(Append(text, peek), first + 1, Len(text) + 1) = Append(SubSeq(text, first + 1, Len(text)), peek)
    BY <1>1, <1>3, SubSeqAppend
  <2> QED BY <1>1, <2>1 DEF Read
<1>5. ASSUME listed' = listed, NEW k \in 0 .. Len(text) PROVE Upto(k)' = Upto(k)
  BY <1>1, <1>5, BeginningStays DEF Upto
<1> QED BY <1>1, <1>2, <1>4, <1>5, AppendProperties

LEMMA ReadNothing ==
    ASSUME TypeInv, TypeInv', first' = Len(text')
    PROVE  Read' = <<>>
<1>1. text' \in Seq(Alphabet) /\ Len(text') \in Nat
  BY LenProperties DEF TypeInv, TypeOK
<1>2. first' + 1 \in 1 .. Len(text') + 1 /\ Len(text') \in first' + 1 - 1 .. Len(text') /\ Len(text') - (first' + 1) + 1 = 0
  BY <1>1
<1>3. SubSeq(text', first' + 1, Len(text')) = <<>>
  BY <1>1, <1>2, PartIs
<1> QED BY <1>3 DEF Read

LEMMA StringBegins ==
    ASSUME TypeInv, TypeInv', NEW K, NEW O, Stand(K, O), EnterString
    PROVE  Stand(K, O)'
<1>1. /\ peek = "quote" /\ Consume /\ first' = Len(text) + 1 /\ odd' = FALSE /\ listed' = listed
      /\ \/ pc \in {"first_member", "member"} /\ pc' = "name"
         \/ pc \in BeforeValue /\ pc' = "string"
  BY DEF EnterString, Goto
<1>2. /\ text \in Seq(Alphabet) /\ text' = Append(text, peek) /\ Len(text') = Len(text) + 1 /\ Len(text) \in Nat
      /\ peek \in Alphabet
  BY <1>1, Consumed
<1>3. first' \in 1 .. Len(text') /\ text'[first'] = "quote"
  BY <1>1, <1>2, AppendProperties
<1>4. Read' = <<>>
  BY <1>1, <1>2, ReadNothing
<1>5. Len(<<>>) = 0 /\ ~Shielded(<<>>, 1) /\ QuotesShielded(<<>>)
  BY EmptySeq DEF Shielded, QuotesShielded
<1>6. QuotesShielded(Read') /\ (odd' <=> Shielded(Read', Len(Read') + 1))
  <2>1. ~Shielded(Read', Len(Read') + 1)
    BY <1>4, <1>5
  <2> QED BY <1>1, <1>4, <1>5, <2>1, Zenon
<1>7. Upto(first - 1)' = Here
  <2>1. first' - 1 = Len(text)
    BY <1>1, <1>2
  <2> QED BY <1>1, <2>1, Moved DEF Upto
<1>8. /\ pc' = "name" => Here \in Before(K, Labelled)
      /\ pc' = "string" => Here \in Before(K, Padded)
  BY <1>1 DEF Stand
<1>9. InsideString(K)'
  BY <1>3, <1>6, <1>7, <1>8 DEF InsideString
<1> QED BY <1>1, <1>9, PlacesAre DEF InString

LEMMA StringGoesOn ==
    ASSUME TypeInv, NEW K, NEW O, Stand(K, O), StringChar
    PROVE  Stand(K, O)'
<1>1. /\ pc \in InString /\ pc' = pc /\ (peek = "quote" => odd) /\ Consume /\ odd' = (peek = "slash" /\ ~odd)
      /\ first' = first /\ listed' = listed
  BY DEF StringChar, Shields
<1>2. /\ first \in 1 .. Len(text) /\ text[first] = "quote"
      /\ QuotesShielded(Read) /\ (odd <=> Shielded(Read, Len(Read) + 1))
      /\ pc = "name" => Upto(first - 1) \in Before(K, Labelled)
      /\ pc = "string" => Upto(first - 1) \in Before(K, Padded)
  BY <1>1 DEF Stand, InsideString
<1>3. /\ peek \in Alphabet /\ text \in Seq(Alphabet) /\ text' = Append(text, peek) /\ Len(text') = Len(text) + 1
      /\ Len(text) \in Nat
  BY <1>1, Consumed
<1>4. first \in 1 .. Len(text') /\ text'[first] = "quote" /\ first - 1 \in 0 .. Len(text)
  BY <1>2, <1>3, AppendProperties
<1>5. /\ Read' = Append(Read, peek) /\ Read \in Seq(Alphabet) /\ Len(Read') = Len(Read) + 1
      /\ Len(Read) \in Nat /\ Upto(first - 1)' = Upto(first - 1)
  BY <1>1, <1>4, ReadGrows, ReadIs DEF Upto
<1>6. QuotesShielded(Read')
  BY <1>1, <1>2, <1>3, <1>5, StringGrows
<1>7. odd' <=> Shielded(Read', Len(Read') + 1)
  <2>1. Shielded(Append(Read, peek), Len(Read) + 2) <=> peek = "slash" /\ ~Shielded(Read, Len(Read) + 1)
    BY <1>3, <1>5, ShieldedBehind
  <2>2. Len(Read') + 1 = Len(Read) + 2
    BY <1>5
  <2>3. Shielded(Read', Len(Read') + 1) <=> Shielded(Append(Read, peek), Len(Read) + 2)
    BY <1>5, <2>2
  <2> QED BY <1>1, <1>2, <2>1, <2>3, Zenon
<1>8. InsideString(K)'
  BY <1>1, <1>2, <1>4, <1>5, <1>6, <1>7 DEF InsideString
<1> QED BY <1>1, <1>8, PlacesAre

LEMMA StringEnds ==
    ASSUME TypeInv, ShortTokens, NEW K, NEW O, Fitting(K, O), Stand(K, O), Fits(Here'), EndString
    PROVE  Stand(K, O)'
<1>0. "on_string" \in Events
  BY DEF Events
<1>1. /\ pc \in InString /\ peek = "quote" /\ ~odd /\ (pc = "name" => Read # <<>>) /\ Consume /\ List("on_string")
      /\ pc' = (IF pc = "name" THEN "colon" ELSE "after")
  BY DEF EndString, Goto
<1>2. /\ first \in 1 .. Len(text) /\ text[first] = "quote"
      /\ QuotesShielded(Read) /\ ~Shielded(Read, Len(Read) + 1)
      /\ pc = "name" => Upto(first - 1) \in Before(K, Labelled)
      /\ pc = "string" => Upto(first - 1) \in Before(K, Padded)
  <2>1. InsideString(K)
    BY <1>1 DEF Stand
  <2>2. ~Shielded(Read, Len(Read) + 1)
    BY <1>1, <2>1, Zenon DEF InsideString
  <2> QED BY <2>1, <2>2 DEF InsideString
<1>3. peek \in Alphabet /\ text \in Seq(Alphabet) /\ Here' = Cat(Here, Tok(peek, "on_string")) /\ Here' \in Pairs
      /\ Len(text) \in Nat /\ text' = Append(text, peek)
  BY <1>0, <1>1, MovedAndListed, Consumed
<1> DEFINE q == <<"quote">>
           e == <<"on_string">>
           w == q \o Read \o q
           p == <<w, e>>
           t == Upto(first - 1)
<1>4. q \in Seq(Alphabet) /\ e \in Seq(Events) /\ Read \in Seq(Alphabet) /\ listed \in Seq(Events)
  BY <1>0, <1>1, <1>3, ReadIs DEF TypeInv
<1>5. w \in Seq(Alphabet) /\ p \in Pairs
  BY <1>4, ConcatProperties DEF Pairs
<1>6. first - 1 \in 0 .. Len(text) /\ first - 1 + 1 = first
  BY <1>2, <1>3
<1>7. t \in Pairs /\ t[1] = SubSeq(text, 1, first - 1) /\ t[2] = listed /\ t[1] \in Seq(Alphabet)
  BY <1>6, HereIs, PairIs
<1>8. text' = t[1] \o w
  <2>1. text = t[1] \o SubSeq(text, first, Len(text))
    BY <1>3, <1>6, <1>7, SplitAt
  <2>2. SubSeq(text, first, Len(text)) = q \o Read
    BY <1>2, <1>3, FirstOf DEF Read
  <2>3. text' = text \o q
    BY <1>1, <1>3, AppendIsConcat
  <2>4. q \o Read \in Seq(Alphabet)
    BY <1>4, ConcatProperties
  <2> HIDE DEF q, t
  <2>5. \A x, y, z \in Seq(Alphabet) : (x \o y) \o z = x \o (y \o z)
    BY Associates
  <2>6. (t[1] \o (q \o Read)) \o q = t[1] \o ((q \o Read) \o q)
    BY <1>4, <1>7, <2>4, <2>5, Zenon
  <2> QED BY <2>1, <2>2, <2>3, <2>6
<1>9. listed' = t[2] \o e
  BY <1>4, <1>1, <1>7, AppendIsConcat DEF List
<1> HIDE DEF q, e, w, t
<1>10. Here' = Cat(t, p)
  BY <1>8, <1>9 DEF Here, Cat
<1>11. Fits(p)
  BY <1>5, <1>7, <1>10, PartFits
<1>12. Len(Read) <= MaxString
  BY <1>1 DEF ShortTokens
<1>13. p \in Padded /\ (Read # <<>> => p \in Named)
  <2>1. p = <<<<"quote">> \o Read \o <<"quote">>, <<"on_string">>>>
    BY DEF w, e, q
  <2> HIDE DEF p
  <2> QED BY <1>1, <1>2, <1>3, <1>4, <1>5, <1>11, <1>12, <2>1, QuotedHas
<1> HIDE DEF p
<1>14. CASE pc = "name"
  <2>1. Here' \in Then(Before(K, Labelled), Named)
    BY <1>1, <1>2, <1>10, <1>13, <1>14 DEF Then, t
  <2> QED BY <1>1, <1>14, <2>1, PlacesAre
<1>15. CASE pc = "string"
  <2>1. Here' \in K
    BY <1>2, <1>10, <1>13, <1>15, Completes DEF t
  <2> QED BY <1>1, <1>15, <2>1, PlacesAre
<1> QED BY <1>1, <1>14, <1>15 DEF InString

LEMMA NumberBegins ==
    ASSUME TypeInv, TypeInv', NEW K, NEW O, Stand(K, O), EnterNumber
    PROVE  Stand(K, O)'
<1>1. /\ pc \in BeforeValue /\ peek \in Digits \cup {"-", "."} /\ first' = Len(text) /\ pc' = "digits"
      /\ listed' = listed /\ (IF peek = "-" THEN Consume ELSE UNCHANGED input)
  BY DEF EnterNumber, Goto
<1>2. Here \in Before(K, Padded)
  BY <1>1 DEF Stand
<1>3. text \in Seq(Alphabet) /\ Len(text) \in Nat
  BY LenProperties DEF TypeInv, TypeOK
<1>4. ASSUME SignedDigits(Read', {"-"}), Read' = <<>> => peek' \in Digits \cup {"."}, Upto(first)' = Here
      PROVE  Stand(K, O)'
  <2>1. InsideNumber(K)'
    BY <1>1, <1>2, <1>4 DEF InsideNumber
  <2> QED BY <1>1, <2>1, PlacesAre DEF InNumber
<1>5. CASE peek = "-"
  <2>1. Consume /\ text' = Append(text, peek) /\ peek \in Alphabet /\ Upto(first)' = Here
    BY <1>1, <1>5, Consumed, Moved DEF Upto
  <2>2. Len(text) + 1 \in 1 .. Len(text) + 1 /\ SubSeq(text, Len(text) + 1, Len(text)) = <<>>
    <3> DEFINE a == Len(text) + 1
    <3>1. a \in 1 .. Len(text) + 1 /\ Len(text) \in a - 1 .. Len(text) /\ Len(text) - a + 1 = 0
      BY <1>3
    <3> HIDE DEF a
    <3>2. SubSeq(text, a, Len(text)) = <<>>
      BY <1>3, <3>1, PartIs
    <3> QED BY <3>1, <3>2 DEF a
  <2>3. SubSeq(Append(text, peek), Len(text) + 1, Len(text) + 1) = Append(<<>>, peek)
    BY <1>3, <2>1, <2>2, SubSeqAppend
  <2>4. Read' = <<peek>>
    <3>1. first' + 1 = Len(text) + 1 /\ Len(text') = Len(text) + 1
      BY <1>1, <2>1, Consumed
    <3>2. Read' = Append(<<>>, peek)
      BY <2>1, <2>3, <3>1 DEF Read
    <3> QED BY <3>2
  <2>5. Read' # <<>> /\ SignedDigits(Read', {"-"})
    BY <1>5, <2>4 DEF SignedDigits
  <2> QED BY <1>4, <2>1, <2>5
<1>6. CASE peek # "-"
  <2>1. text' = text /\ peek' = peek
    BY <1>1, <1>6 DEF input
  <2>2. Read' = <<>>
    BY <1>1, <2>1, ReadNothing
  <2>3. SignedDigits(<<>>, {"-"})
    BY EmptySeq DEF SignedDigits
  <2>4. Upto(first)' = Here
    BY <1>1, <1>3, <2>1, SubSeqFull DEF Upto, Here
  <2> QED BY <1>1, <1>4, <1>6, <2>1, <2>2, <2>3, <2>4
<1> QED BY <1>5, <1>6

LEMMA NumberGoesOn ==
    ASSUME TypeInv, NEW K, NEW O, Stand(K, O), NumberChar
    PROVE  Stand(K, O)'
<1> USE DEF InNumber
<1>1. /\ Consume /\ first' = first /\ listed' = listed /\ pc \in InNumber
      /\ \/ pc = "digits" /\ peek \in Digits /\ pc' = "digits"
         \/ pc = "digits" /\ peek = "." /\ pc' = "fraction"
         \/ pc = "fraction" /\ peek \in Digits /\ pc' = "fraction"
         \/ pc = "fraction" /\ peek \in ExponentMarks /\ pc' = "exp_sign"
         \/ pc = "exp_sign" /\ peek \in {"-", "+"} /\ pc' = "exp"
         \/ pc \in {"exp_sign", "exp"} /\ peek \in Digits /\ pc' = "exp"
  BY DEF NumberChar, Goto, token
<1> HIDE DEF InNumber
<1>2. InsideNumber(K)
  BY <1>1 DEF Stand
<1>3. /\ Read' = Append(Read, peek) /\ Read \in Seq(Alphabet) /\ Len(Read') = Len(Read) + 1 /\ Len(Read) \in Nat
      /\ Read' # <<>> /\ peek \in Alphabet
  BY <1>1, ReadGrows, ReadIs, Consumed, AppendProperties
<1>4. Upto(first)' \in Before(K, Padded)
  <2>1. Upto(first)' = Upto(first)
    BY <1>1, ReadIs, ReadGrows DEF Upto
  <2> QED BY <1>2, <2>1 DEF InsideNumber
<1>5. ASSUME pc' = "digits" => SignedDigits(Read', {"-"}),
             pc' = "fraction" => \E p : RealShape(Read', p, Len(Read') + 1),
             pc' = "exp_sign" => \E p : RealShape(Read', p, Len(Read')),
             pc' = "exp" => \E p, m : RealShape(Read', p, m) /\ m < Len(Read'),
             pc' \in InNumber
      PROVE  Stand(K, O)'
  <2>1. InsideNumber(K)'
    BY <1>3, <1>4, <1>5 DEF InsideNumber
  <2> QED BY <1>5, <2>1, PlacesAre
<1>6. CASE pc = "digits" /\ peek \in Digits /\ pc' = "digits"
  <2>1. SignedDigits(Read', {"-"})
    BY <1>2, <1>3, <1>6, DigitBehind DEF InsideNumber
  <2> QED BY <1>5, <1>6, <2>1 DEF InNumber
<1>7. CASE pc = "digits" /\ peek = "." /\ pc' = "fraction"
  <2>1. RealShape(Read', Len(Read) + 1, Len(Read) + 2) /\ Len(Read') + 1 = Len(Read) + 2
    BY <1>2, <1>3, <1>7, PointBehind DEF InsideNumber
  <2> QED BY <1>5, <1>7, <2>1 DEF InNumber
<1>8. CASE pc = "fraction"
  <2>1. PICK p : RealShape(Read, p, Len(Read) + 1)
    BY <1>2, <1>8 DEF InsideNumber
  <2>2. /\ peek \in Digits => RealShape(Read', p, Len(Read) + 2)
        /\ peek \in ExponentMarks => RealShape(Read', p, Len(Read) + 1)
    BY <1>3, <2>1, FractionGoesOn
  <2>3. Len(Read') + 1 = Len(Read) + 2 /\ Len(Read') = Len(Read) + 1
    BY <1>3
  <2>4. CASE peek \in Digits /\ pc' = "fraction"
    <3>1. RealShape(Read', p, Len(Read') + 1)
      BY <2>2, <2>3, <2>4
    <3> QED BY <1>5, <2>4, <3>1 DEF InNumber
  <2>5. CASE peek \in ExponentMarks /\ pc' = "exp_sign"
    <3>1. RealShape(Read', p, Len(Read'))
      BY <2>2, <2>3, <2>5
    <3> QED BY <1>5, <2>5, <3>1 DEF InNumber
  <2> QED BY <1>1, <1>8, <2>4, <2>5
<1>9. CASE pc \in {"exp_sign", "exp"}
  <2>1. PICK p, m : RealShape(Read, p, m) /\ m <= Len(Read) /\ (pc = "exp_sign" => m = Len(Read))
    <3>1. CASE pc = "exp_sign"
      BY <1>2, <1>3, <3>1 DEF InsideNumber
    <3>2. CASE pc = "exp"
      <4>1. PICK p, m : RealShape(Read, p, m) /\ m < Len(Read)
        BY <1>2, <3>2 DEF InsideNumber
      <4>2. m \in Int /\ m <= Len(Read)
        BY <1>3, <4>1 DEF RealShape
      <4> QED BY <3>2, <4>1, <4>2
    <3> QED BY <1>9, <3>1, <3>2
  <2>2. (peek \in Digits \/ (m = Len(Read) /\ peek \in {"-", "+"})) /\ pc' = "exp"
    BY <1>1, <1>9, <2>1
  <2>3. RealShape(Read', p, m) /\ m < Len(Read')
    BY <1>3, <2>1, <2>2, ExponentGoesOn
  <2> QED BY <1>5, <2>2, <2>3 DEF InNumber
<1> QED BY <1>1, <1>6, <1>7, <1>8, <1>9

LEMMA NumberCloses ==
    ASSUME TypeInv, NEW K, NEW O, Stand(K, O), Fits(Here'), EndNumber
    PROVE  Stand(K, O)'
<1> DEFINE ev == IF pc = "digits" THEN "on_integer" ELSE "on_real"
<1>1. NumberEnds /\ Casts /\ List(ev) /\ pc' = "after" /\ text' = text
  BY DEF EndNumber, Goto, input
<1>2. ev \in Events /\ pc \in InNumber
  BY <1>1 DEF Events, NumberEnds, InNumber
<1>3. InsideNumber(K)
  BY <1>2 DEF Stand
<1>4. /\ Read \in Seq(Alphabet) /\ first \in 0 .. Len(text)
      /\ text = SubSeq(text, 1, first) \o Read
      /\ Upto(first) \in Pairs /\ Upto(first)[1] = SubSeq(text, 1, first) /\ Upto(first)[2] = listed
      /\ listed \in Seq(Events)
  BY ReadIs, HereIs DEF TypeInv
<1>5. (ev = "on_integer" /\ IsInteger(Read)) \/ (ev = "on_real" /\ IsReal(Read))
  <2>1. CASE pc = "digits"
    <3>1. SignedDigits(Read, {"-"}) /\ Read # <<>> /\ CastsToInteger(Read)
      BY <1>1, <1>3, <2>1 DEF InsideNumber, NumberEnds, Casts
    <3> QED BY <1>4, <2>1, <3>1, IntegerHas
  <2>2. CASE pc # "digits"
    <3>1. CastsToReal(Read) /\ \E p, m : RealShape(Read, p, m)
      BY <1>1, <1>2, <1>3, <2>2 DEF InsideNumber, InNumber, Casts
    <3> QED BY <1>4, <2>2, <3>1, RealHas
  <2> QED BY <2>1, <2>2
<1>6. Range(Read) \subseteq Digits \cup ExponentMarks \cup {"-", "+", "."}
  <2>1. SignedDigits(Read, {"-"}) \/ \E p, m : RealShape(Read, p, m)
    BY <1>2, <1>3 DEF InsideNumber, InNumber
  <2> QED BY <1>4, <2>1, NumeralsRange
<1> HIDE DEF ev
<1> DEFINE p == <<Read, <<ev>>>>
           t == Upto(first)
<1>7. p \in Pairs /\ <<ev>> \in Seq(Events)
  <2>1. <<ev>> \in Seq(Events)
    BY <1>2
  <2> HIDE DEF Read
  <2> QED BY <1>4, <2>1 DEF Pairs
<1>8. Here' = Cat(t, p)
  <2>1. listed' = listed \o <<ev>>
    BY <1>1, <1>2, <1>4, AppendIsConcat DEF List
  <2>2. text' = t[1] \o Read /\ listed' = t[2] \o <<ev>>
    BY <1>1, <1>4, <2>1
  <2> HIDE DEF t, Read
  <2> QED BY <2>2 DEF Here, Cat
<1>9. Fits(p)
  BY <1>4, <1>7, <1>8, PartFits
<1>10. p \in Padded
  <2>1. p = <<Read, <<ev>>>>
    OBVIOUS
  <2> HIDE DEF p
  <2> QED BY <1>2, <1>4, <1>5, <1>6, <1>7, <1>9, <2>1, NumeralHas
<1>11. Here' \in K
  <2> HIDE DEF p, t
  <2>1. t \in Before(K, Padded)
    BY <1>3 DEF InsideNumber, t
  <2> QED BY <1>8, <1>10, <2>1, Completes
<1> QED BY <1>1, <1>11, PlacesAre

LEMMA LiteralBegins ==
    ASSUME TypeInv, TypeInv', NEW K, NEW O, Stand(K, O), EnterLiteral
    PROVE  Stand(K, O)'
<1>1. /\ pc \in BeforeValue /\ peek \in {"t", "f", "n"} /\ Consume /\ want' = Rest(peek) /\ listed' = listed
      /\ pc' = (IF peek = "n" THEN "null" ELSE "boolean")
  BY DEF EnterLiteral, Goto
<1>2. Here \in Before(K, Padded)
  BY <1>1 DEF Stand
<1>3. peek \in Alphabet /\ text \in Seq(Alphabet) /\ text' = Append(text, peek)
  BY <1>1, Consumed
<1> DEFINE done == <<peek>>
<1>4. done \in Seq(Alphabet) /\ done # <<>> /\ done[1] = peek
  BY <1>3
<1>5. done \o want' \in Literals
  BY <1>1, LiteralStarts
<1>6. text' = text \o done
  BY <1>3, AppendIsConcat
<1>7. <<text, listed'>> \in Before(K, Padded)
  BY <1>1, <1>2 DEF Here
<1>8. pc' = "null" <=> done[1] = "n"
  BY <1>1, <1>4
<1> HIDE DEF done
<1>9. InsideLiteral(K)'
  BY <1>3, <1>4, <1>5, <1>6, <1>7, <1>8 DEF InsideLiteral
<1> QED BY <1>1, <1>9, PlacesAre DEF InLiteral

LEMMA LiteralGoesOn ==
    ASSUME TypeInv, NEW K, NEW O, Stand(K, O), Fits(Here'), LiteralChar
    PROVE  Stand(K, O)'
<1> DEFINE ev == IF pc = "null" THEN "on_null" ELSE "on_boolean"
<1>1. /\ pc \in InLiteral /\ peek = Head(want) /\ Consume /\ want' = Tail(want)
      /\ IF Len(want) > 1 THEN pc' = pc /\ listed' = listed ELSE List(ev) /\ pc' = "after"
  BY DEF LiteralChar, Goto
<1>2. /\ peek \in Alphabet /\ text \in Seq(Alphabet) /\ text' = Append(text, peek) /\ want \in Seq(Char) /\ want # <<>>
      /\ listed \in Seq(Events)
  BY <1>1, Consumed DEF TypeInv, TypeOK
<1>3. ev \in Events
  BY DEF Events
<1> HIDE DEF ev
<1>4. PICK pre, done \in Seq(Alphabet) :
        /\ text = pre \o done /\ <<pre, listed>> \in Before(K, Padded)
        /\ done # <<>> /\ done \o want \in Literals
        /\ pc = "null" <=> done[1] = "n"
  BY <1>1 DEF Stand, InsideLiteral
<1> DEFINE next == Append(done, peek)
<1>5. next \in Seq(Alphabet) /\ next = done \o <<peek>> /\ next # <<>> /\ next[1] = done[1]
  <2>1. /\ next \in Seq(Alphabet) /\ Len(next) = Len(done) + 1 /\ Len(done) \in Nat /\ Len(done) # 0
        /\ \A i \in 1 .. Len(done) : next[i] = done[i]
    BY <1>2, <1>4, AppendProperties, LenProperties, EmptySeq
  <2> QED BY <1>2, <1>4, <2>1, AppendIsConcat
<1>6. text' = pre \o next
  <2>1. \A x, y, z \in Seq(Alphabet) : (x \o y) \o z = x \o (y \o z)
    BY Associates
  <2>2. <<peek>> \in Seq(Alphabet)
    BY <1>2
  <2>3. text' = text \o <<peek>>
    BY <1>2, AppendIsConcat
  <2> QED BY <1>4, <1>5, <2>1, <2>2, <2>3
<1>7. want = <<peek>> \o want' /\ want' \in Seq(Char) /\ Len(want) \in Nat \ {0} /\ Len(want') = Len(want) - 1
  <2>1. Head(want) \in Char /\ Tail(want) \in Seq(Char) /\ Len(Tail(want)) = Len(want) - 1 /\ Len(want) \in Nat \ {0}
    BY <1>2, HeadTailProperties, LenProperties, EmptySeq
  <2>2. want = <<Head(want)>> \o Tail(want)
    BY <1>2, HeadAndTail
  <2> QED BY <1>1, <2>1, <2>2
<1>8. next \o want' = done \o want
  <2>1. \A x, y, z \in Seq(Char) : (x \o y) \o z = x \o (y \o z)
    BY Associates
  <2>2. <<peek>> \in Seq(Char) /\ done \in Seq(Char)
    <3>1. Alphabet \subseteq Char
      BY AlphabetAssumption
    <3>2. done \in Seq(Char)
      <4>1. \A i \in 1 .. Len(done) : done[i] \in Alphabet
        BY <1>4, ElementOfSeq
      <4> HIDE DEF Char
      <4>2. \A i \in 1 .. Len(done) : done[i] \in Char
        BY <3>1, <4>1
      <4>3. done \in [1 .. Len(done) -> Char] /\ Len(done) \in Nat
        BY <1>4, <4>2, LenProperties
      <4> QED BY <4>3, IsASeq
    <3> HIDE DEF Char
    <3> QED BY <1>2, <3>1, <3>2
  <2> HIDE DEF next
  <2> QED BY <1>5, <1>7, <2>1, <2>2
<1>9. next \o want' \in Literals
  BY <1>4, <1>8
<1>10. CASE Len(want) > 1
  <2>1. /\ pc' = pc /\ listed' = listed /\ <<pre, listed'>> \in Before(K, Padded)
        /\ (pc' = "null" <=> next[1] = "n")
    BY <1>1, <1>4, <1>5, <1>10
  <2> HIDE DEF next
  <2>2. InsideLiteral(K)'
    BY <1>4, <1>5, <1>6, <1>9, <2>1 DEF InsideLiteral
  <2> QED BY <1>1, <2>1, <2>2, PlacesAre
<1>11. CASE ~(Len(want) > 1)
  <2>1. List(ev) /\ pc' = "after" /\ Len(want') = 0
    BY <1>1, <1>7, <1>11
  <2>2. want' = <<>>
    BY <1>7, <2>1, EmptySeq
  <2> HIDE DEF next
  <2>3. next \in Literals
    BY <1>5, <1>9, <2>2, ConcatEmptySeq
  <2> DEFINE t == <<pre, listed>>
             p == <<next, <<ev>>>>
  <2>4. <<ev>> \in Seq(Events)
    BY <1>3
  <2>5. t \in Pairs /\ p \in Pairs
    BY <1>2, <1>4, <1>5, <2>4 DEF Pairs
  <2>6. listed' = listed \o <<ev>>
    BY <1>2, <1>3, <2>1, AppendIsConcat DEF List
  <2>7. Here' = Cat(t, p)
    BY <1>6, <2>6 DEF Here, Cat
  <2>8. Fits(p)
    BY <2>5, <2>7, PartFits
  <2>9. ev = (IF next[1] = "n" THEN "on_null" ELSE "on_boolean")
    BY <1>1, <1>4, <1>5 DEF ev
  <2>10. p = <<next, <<ev>>>> /\ t \in Before(K, Padded)
    BY <1>4
  <2> HIDE DEF p, t
  <2>11. p \in Padded
    BY <1>5, <2>3, <2>5, <2>8, <2>9, <2>10, LiteralHas
  <2>12. Here' \in K
    BY <2>7, <2>10, <2>11, Completes
  <2> QED BY <2>1, <2>12, PlacesAre
<1> QED BY <1>10, <1>11
-----------------------------------------------------------------------------
\* And every step from one level to another.

LEMMA ArrayOpens ==
    ASSUME TypeInv, NEW K, NEW O, Stand(K, O), BeginArray
    PROVE  Stand(ArrayGoal(K), K)'
<1>0. "on_array_begin" \in Events
  BY DEF Events
<1>1. pc \in BeforeValue /\ peek = "[" /\ Consume /\ List("on_array_begin") /\ pc' = "element"
  BY DEF BeginArray, BeginContainer, Goto
<1>2. Here' = Cat(Here, ArrayBegin) /\ ArrayBegin \in Pairs
  BY <1>0, <1>1, MovedAndListed DEF ArrayBegin
<1>3. Here \in Before(K, Padded)
  BY <1>1 DEF Stand
<1>4. Here' \in Before(ArrayGoal(K), Padded) /\ Here' \in Before(K, Closed(Blank, ArrayEnd))
  BY <1>2, <1>3, ArrayBegins, ElementFollows
<1> DEFINE L == ArrayGoal(K)
<1> HIDE DEF L
<1>5. Stand(L, K)'
  BY <1>1, <1>4, PlacesAre DEF L
<1> QED BY <1>5 DEF L

LEMMA ObjectOpens ==
    ASSUME TypeInv, NEW K, NEW O, Stand(K, O), BeginObject
    PROVE  Stand(ObjectGoal(K), K)'
<1>0. "on_object_begin" \in Events
  BY Zenon DEF Events
<1>1. /\ pc \in BeforeValue /\ Consume /\ List("on_object_begin") /\ pc' = "first_member"
      /\ Tok(peek, "on_object_begin") = ObjectBegin
  BY Zenon DEF BeginObject, BeginContainer, Goto, ObjectBegin
<1>2. Here' = Cat(Here, ObjectBegin) /\ ObjectBegin \in Pairs
  BY <1>0, <1>1, MovedAndListed
<1>3. Here \in Before(K, Padded)
  BY <1>1 DEF Stand
<1>4. Here' \in Before(ObjectGoal(K), Labelled) /\ Here' \in Before(K, Closed(Blank, ObjectEnd))
  BY <1>2, <1>3, ObjectBegins, MemberFollows
<1> DEFINE L == ObjectGoal(K)
<1> HIDE DEF L
<1>5. Stand(L, K)'
  BY <1>1, <1>4, PlacesAre DEF L
<1> QED BY <1>5 DEF L

LEMMA ArrayCloses ==
    ASSUME TypeInv, NEW K, NEW O, Fitting(K, O), Stand(K, O), Fits(Here'), EndArray, NEW N
    PROVE  Stand(O, N)'
<1>0. "on_array_end" \in Events
  BY DEF Events
<1>1. /\ pc = "element" \/ (pc = "after" /\ In("array"))
      /\ peek = "]" /\ Consume /\ List("on_array_end") /\ pc' = "after"
  BY DEF EndArray, EndContainer, Goto
<1>2. Here' = Cat(Here, ArrayEnd) /\ ArrayEnd \in Pairs
  BY <1>0, <1>1, MovedAndListed DEF ArrayEnd
<1>3. Here' \in O
  <2>1. CASE pc = "element"
    <3>1. Here \in Before(O, Closed(Blank, ArrayEnd))
      BY <2>1 DEF Stand
    <3> QED BY <1>2, <3>1, ArrayEndsEmpty
  <2>2. CASE pc = "after" /\ In("array")
    <3>1. Here \in ArrayGoal(O)
      BY <2>2 DEF Stand, Fitting
    <3> QED BY <1>2, <3>1, ArrayEnds
  <2> QED BY <1>1, <2>1, <2>2
<1> QED BY <1>1, <1>3, PlacesAre

LEMMA ObjectCloses ==
    ASSUME TypeInv, NEW K, NEW O, Fitting(K, O), Stand(K, O), Fits(Here'), EndObject, NEW N
    PROVE  Stand(O, N)'
<1>0. "on_object_end" \in Events
  BY Zenon DEF Events
<1>1. /\ pc = "first_member" \/ (pc = "after" /\ In("object"))
      /\ Consume /\ List("on_object_end") /\ pc' = "after" /\ Tok(peek, "on_object_end") = ObjectEnd
  BY Zenon DEF EndObject, EndContainer, Goto, ObjectEnd
<1>2. Here' = Cat(Here, ObjectEnd) /\ ObjectEnd \in Pairs
  BY <1>0, <1>1, MovedAndListed
<1>3. Here' \in O
  <2>1. CASE pc = "first_member"
    <3>1. Here \in Before(O, Closed(Blank, ObjectEnd))
      BY <2>1 DEF Stand
    <3> QED BY <1>2, <3>1, ArrayEndsEmpty
  <2>2. CASE pc = "after" /\ In("object")
    <3>1. Here \in ObjectGoal(O)
      BY <2>2 DEF Stand, Fitting
    <3> QED BY <1>2, <3>1, ObjectEnds
  <2> QED BY <1>1, <2>1, <2>2
<1> QED BY <1>1, <1>3, PlacesAre

LEMMA StopKeepsPlace ==
    ASSUME NEW K, NEW O, Stand(K, O), UNCHANGED <<input, pc, frames, token, listed>>
    PROVE  Stand(K, O)'
<1>1. /\ text' = text /\ peek' = peek /\ pc' = pc /\ first' = first /\ odd' = odd /\ want' = want /\ listed' = listed
  BY DEF input, token
<1>2. Here' = Here /\ Read' = Read /\ \A k : Upto(k)' = Upto(k)
  BY <1>1 DEF Here, Read, Upto
<1>3. InsideString(K) => InsideString(K)'
  <2>1. Upto(first - 1)' = Upto(first - 1)
    BY <1>1 DEF Upto
  <2> QED BY <1>1, <1>2, <2>1 DEF InsideString
<1>4. InsideNumber(K) => InsideNumber(K)'
  <2>1. Upto(first)' = Upto(first)
    BY <1>1 DEF Upto
  <2> QED BY <1>1, <1>2, <2>1 DEF InsideNumber
<1>5. InsideLiteral(K) => InsideLiteral(K)'
  BY <1>1 DEF InsideLiteral
<1> QED BY <1>1, <1>2, <1>3, <1>4, <1>5 DEF Stand

-----------------------------------------------------------------------------
\* The invariant, and what it says at the end.

Inv == TypeInv /\ Standing

LEMMA InvAtFirst == Init => Inv
<1> SUFFICES ASSUME Init PROVE Inv
  OBVIOUS
<1>1. TypeInv
  BY TypeInvAtFirst
<1>2. text = <<>> /\ listed = <<>> /\ frames = <<>> /\ pc = "value" /\ Len(frames) = 0
  BY EmptySeq DEF Init
<1> DEFINE G == [i \in 0 .. 0 |-> Padded]
<1>3. G[0] = Padded /\ Tower(G, frames)
  BY <1>2 DEF Tower
<1>4. Here = Empty
  BY <1>2 DEF Here, Empty
<1>5. Here \in Before(Padded, Padded)
  <2>1. ASSUME NEW w \in Padded PROVE Cat(Empty, w) = w
    BY <2>1, CatEmpty, KindsArePairs
  <2>2. Empty \in Pairs
    BY EmptyIsBlank, KindsArePairs
  <2> QED BY <1>4, <2>1, <2>2 DEF Before
<1> HIDE DEF G
<1>6. \A O : Stand(Padded, O)
  BY <1>2, <1>5 DEF Stand, BeforeValue, InString, InNumber, InLiteral
<1>7. Standing
  BY <1>2, <1>3, <1>6 DEF Standing
<1> QED BY <1>1, <1>7 DEF Inv

LEMMA NextKeepsPlace ==
    ASSUME Inv, TypeInv', ShortTokens, ShortTokens', Next
    PROVE  Standing'
<1>0. TypeInv /\ frames \in Seq(Kinds) /\ Len(frames) \in Nat
  BY LenProperties DEF Inv, TypeInv, TypeOK, Kinds
<1>1. PICK G, K, O : Tower(G, frames) /\ K = G[Len(frames)] /\ O = G[Len(frames) - 1] /\ Stand(K, O)
  BY DEF Inv, Standing
<1>2. Fitting(K, O)
  <2>1. K \subseteq Pairs /\ SpaceMayFollow(K) /\ (frames # <<>> => K = Level(Last(frames), O))
    BY <1>0, <1>1, TowerTop
  <2> QED BY <2>1 DEF Fitting, In, Level
<1>3. Fits(Here')
  <2>1. Here'[1] = text'
    BY DEF Here
  <2> QED BY <2>1 DEF Fits, TypeInv, Bounded, ShortTokens
<1>4. ASSUME frames' = frames, Stand(K, O)' PROVE Standing'
  BY <1>1, <1>4 DEF Standing
<1>5. ASSUME NEW kind \in Kinds, frames' = Append(frames, kind), Stand(Level(kind, K), K)' PROVE Standing'
  <2>1. PICK H : /\ Tower(H, Append(frames, kind))
                 /\ H[Len(frames) + 1] = Level(kind, G[Len(frames)]) /\ H[Len(frames)] = G[Len(frames)]
    BY <1>0, <1>1, TowerGrows
  <2>2. Len(frames') = Len(frames) + 1 /\ Len(frames') - 1 = Len(frames)
    BY <1>0, <1>5, AppendProperties
  <2> DEFINE L == Level(kind, K)
  <2>3. Tower(H, frames') /\ L = H[Len(frames')] /\ K = H[Len(frames') - 1]
    BY <1>1, <1>5, <2>1, <2>2
  <2> HIDE DEF L
  <2>4. Stand(L, K)'
    BY <1>5 DEF L
  <2> QED BY <2>3, <2>4 DEF Standing
<1>6. ASSUME frames # <<>>, frames' = Front(frames), \A N : Stand(O, N)' PROVE Standing'
  <2>1. Tower(G, frames') /\ Len(frames') = Len(frames) - 1
    BY <1>0, <1>1, <1>6, TowerShrinks
  <2>2. PICK N : O = G[Len(frames')] /\ N = G[Len(frames') - 1]
    BY <1>1, <2>1
  <2>3. Stand(O, N)'
    BY <1>6
  <2> QED BY <2>1, <2>2, <2>3 DEF Standing
<1>7. CASE SkipWhitespace
  <2>1. Stand(K, O)'
    BY <1>0, <1>1, <1>2, <1>3, <1>7, SpaceKeepsPlace
  <2> QED BY <1>4, <1>7, <2>1 DEF SkipWhitespace
<1>8. CASE BeginArray
  <2>1. Stand(ArrayGoal(K), K)'
    BY <1>0, <1>1, <1>8, ArrayOpens
  <2>2. Level("array", K) = ArrayGoal(K) /\ "array" \in Kinds
    BY DEF Level, Kinds
  <2>3. frames' = Append(frames, "array")
    BY <1>8 DEF BeginArray, BeginContainer
  <2> QED BY <1>5, <2>1, <2>2, <2>3
<1>9. CASE BeginObject
  <2>1. Stand(ObjectGoal(K), K)'
    BY <1>0, <1>1, <1>9, ObjectOpens
  <2>2. Level("object", K) = ObjectGoal(K) /\ "object" \in Kinds
    BY DEF Level, Kinds
  <2>3. frames' = Append(frames, "object")
    BY <1>9, Zenon DEF BeginObject, BeginContainer
  <2> QED BY <1>5, <2>1, <2>2, <2>3
<1>10. CASE EndArray
  <2>1. \A N : Stand(O, N)'
    BY <1>0, <1>1, <1>2, <1>3, <1>10, ArrayCloses
  <2>2. frames # <<>> /\ frames' = Front(frames)
    BY <1>0, <1>10, Zenon DEF EndArray, EndContainer, TypeInv, FramesFit, In
  <2> QED BY <1>6, <2>1, <2>2
<1>11. CASE EndObject
  <2>1. \A N : Stand(O, N)'
    BY <1>0, <1>1, <1>2, <1>3, <1>11, ObjectCloses
  <2>2. frames # <<>> /\ frames' = Front(frames)
    BY <1>0, <1>11, Zenon DEF EndObject, EndContainer, TypeInv, FramesFit, In
  <2> QED BY <1>6, <2>1, <2>2
<1>12. CASE NextElement \/ NextMember
  <2>1. Stand(K, O)'
    BY <1>0, <1>1, <1>2, <1>12, CommaKeepsPlace
  <2>2. frames' = frames
    BY <1>12, Zenon DEF NextElement, NextMember, Move
  <2> QED BY <1>4, <2>1, <2>2
<1>13. CASE Separator
  <2>1. Stand(K, O)'
    BY <1>0, <1>1, <1>13, ColonKeepsPlace
  <2> QED BY <1>4, <1>13, <2>1 DEF Separator, Move
<1>14. CASE EnterString
  <2>1. Stand(K, O)'
    BY <1>0, <1>1, <1>14, StringBegins
  <2> QED BY <1>4, <1>14, <2>1 DEF EnterString
<1>15. CASE StringChar
  <2>1. Stand(K, O)'
    BY <1>0, <1>1, <1>15, StringGoesOn
  <2> QED BY <1>4, <1>15, <2>1 DEF StringChar
<1>16. CASE EndString
  <2>1. Stand(K, O)'
    BY <1>0, <1>1, <1>2, <1>3, <1>16, StringEnds
  <2> QED BY <1>4, <1>16, <2>1 DEF EndString
<1>17. CASE EnterNumber
  <2>1. Stand(K, O)'
    BY <1>0, <1>1, <1>17, NumberBegins
  <2> QED BY <1>4, <1>17, <2>1 DEF EnterNumber
<1>18. CASE NumberChar
  <2>1. Stand(K, O)'
    BY <1>0, <1>1, <1>18, NumberGoesOn
  <2> QED BY <1>4, <1>18, <2>1 DEF NumberChar
<1>19. CASE EndNumber
  <2>1. Stand(K, O)'
    BY <1>0, <1>1, <1>3, <1>19, NumberCloses
  <2> QED BY <1>4, <1>19, <2>1 DEF EndNumber
<1>20. CASE EnterLiteral
  <2>1. Stand(K, O)'
    BY <1>0, <1>1, <1>20, LiteralBegins
  <2> QED BY <1>4, <1>20, <2>1 DEF EnterLiteral
<1>21. CASE LiteralChar
  <2>1. Stand(K, O)'
    BY <1>0, <1>1, <1>3, <1>21, LiteralGoesOn
  <2> QED BY <1>4, <1>21, <2>1 DEF LiteralChar
<1>22. CASE EmptyName \/ Return \/ Overrun \/ Malformed
  <2>1. UNCHANGED <<input, pc, frames, token, listed>>
    BY <1>22 DEF EmptyName, Return, Overrun, Malformed, Stop
  <2>2. Stand(K, O)'
    BY <1>1, <2>1, StopKeepsPlace
  <2> QED BY <1>4, <2>1, <2>2
<1> QED
  BY <1>7, <1>8, <1>9, <1>10, <1>11, <1>12, <1>13, <1>14, <1>15, <1>16, <1>17, <1>18, <1>19, <1>20, <1>21,
     <1>22 DEF Next

LEMMA InvIsKept == Inv /\ ShortTokens /\ ShortTokens' /\ [Next]_vars => Inv'
<1>1. ASSUME Inv, UNCHANGED vars PROVE Inv'
  <2>1. TypeInv'
    BY <1>1, TypeInvIsKept DEF Inv
  <2>2. UNCHANGED <<input, pc, frames, token, listed>> /\ frames' = frames
    BY <1>1 DEF vars
  <2>3. PICK G, K, O : Tower(G, frames) /\ K = G[Len(frames)] /\ O = G[Len(frames) - 1] /\ Stand(K, O)
    BY <1>1 DEF Inv, Standing
  <2>4. Stand(K, O)'
    BY <2>2, <2>3, StopKeepsPlace
  <2>5. Standing'
    BY <2>2, <2>3, <2>4 DEF Standing
  <2> QED BY <2>1, <2>5 DEF Inv
<1>2. ASSUME Inv, ShortTokens, ShortTokens', Next PROVE Inv'
  BY <1>2, NextKeepsTypes, NextKeepsPlace DEF Inv
<1> QED BY <1>1, <1>2

\* Behind a value and in no array or object, what was read is a sentence.
LEMMA InvSaysMeaning ==
    ASSUME Inv
    PROVE  ValueIsMeaning
<1> SUFFICES ASSUME outcome = "accepted" PROVE Here \in Sentences
  BY DEF ValueIsMeaning, Here
<1>1. TypeInv /\ pc = "after" /\ frames = <<>> /\ Len(frames) = 0
  BY EmptySeq DEF Inv, TypeInv
<1>2. Here \in Padded
  <2>1. PICK G, K, O : Tower(G, frames) /\ K = G[Len(frames)] /\ Stand(K, O)
    BY DEF Inv, Standing
  <2>2. K = Padded
    BY <1>1, <2>1 DEF Tower
  <2> QED BY <1>1, <2>1, <2>2 DEF Stand
<1>3. Here \in Pairs /\ Len(Here[1]) <= MaxChars /\ Here \in At(Len(Here[1])).padded
  BY <1>2 DEF Padded
<1>4. Len(Here[1]) \in 0 .. MaxChars
  BY <1>3, PairIs, BoundsAssumption
<1> QED BY <1>3, <1>4, AtInSentences

\* ValueIsMeaning: whatever text is given to parse_json, as deeply nested as it
\* may be and with whatever behind it, the value it returns is the one that the
\* grammar says for what it moved over.  The grammar is cut off as in the run:
\* where it has all strings and all texts, so is the theorem below.
THEOREM ValueHasMeaning == Spec /\ []ShortTokens => []ValueIsMeaning
<1>1. Inv => ValueIsMeaning
  BY InvSaysMeaning
<1> QED BY <1>1, InvAtFirst, InvIsKept, PTL DEF Spec

\* ValueIsMeaning, for a grammar that leaves out no string and no text of at
\* most MaxChars characters: no other value is ever returned.
THEOREM EveryValueHasMeaning ==
    ASSUME MaxChars <= ShortChars, MaxChars <= MaxString
    PROVE  Spec => []ValueIsMeaning
<1>1. TypeInv => ShortTokens
  <2> SUFFICES ASSUME TypeInv PROVE ShortTokens
    OBVIOUS
  <2>1. PICK n, k \in Nat : n = Len(text) /\ k = Len(Read) /\ k <= n
    BY ReadIs, LenProperties DEF TypeInv, TypeOK
  <2>2. n <= MaxChars
    BY <2>1 DEF TypeInv, Bounded
  <2>3. n <= ShortChars /\ k <= MaxString
    BY <2>1, <2>2, BoundsAssumption, DialectAssumption
  <2> QED BY <2>1, <2>3 DEF ShortTokens, Considered
<1>2. Spec => []ShortTokens
  BY <1>1, TypeInvHolds, PTL
<1> QED BY <1>2, ValueHasMeaning, PTL
=============================================================================
