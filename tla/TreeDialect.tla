----------------------------- MODULE TreeDialect -----------------------------
(***************************************************************************)
(* What a text means to the tree parser, as a grammar and without its      *)
(* states: every sentence of at most MaxChars characters with the events   *)
(* that list its value, by length.  It is JSON but for these: an array may *)
(* have a comma before its end; a name is not empty; a number may leave    *)
(* out the digits on one side of its point, has an exponent only behind    *)
(* one, and may start with zeros.  The value is that of a beginning of the *)
(* text: whatever follows is not looked at.                                *)
(* Long texts are made of LongAlphabet only, and long strings left out, so *)
(* that one run sees deep nesting and all kinds of tokens.                 *)
(***************************************************************************)
EXTENDS TreeParser

CONSTANTS
    MaxString,      \* bound on the characters between a string's quotes
    ShortChars,     \* a text of more characters than these
    LongAlphabet    \* is made of these only
ASSUME DialectAssumption ==
    MaxString \in Nat /\ ShortChars \in Nat /\ LongAlphabet \subseteq Alphabet

Considered(w) == Len(w) <= ShortChars \/ Range(w) \subseteq LongAlphabet

\* The state constraint that keeps TLC to the texts of the grammar.
ShortTokens == Considered(text) /\ (pc \in InString => Len(Read) <= MaxString)

Words(C, n) == [1 .. n -> C \cap (IF n <= ShortChars THEN Alphabet ELSE LongAlphabet)]

\* A quote at position i of a string's body does not close it: an odd number
\* of backslashes comes right before it.
Shielded(s, i) ==
    \E k \in 1 .. i - 1 :
        /\ (i - k) % 2 = 1
        /\ \A j \in k .. i - 1 : s[j] = "slash"
        /\ k > 1 => s[k - 1] # "slash"

Quoted(n) ==
    {<<"quote">> \o s \o <<"quote">> :
        s \in {s \in IF n - 2 \in 0 .. MaxString /\ "quote" \in Alphabet
                     THEN Words(Alphabet, n - 2) ELSE {} :
                  /\ \A i \in 1 .. n - 2 : s[i] = "quote" => Shielded(s, i)
                  /\ ~Shielded(s, n - 1)}}

AllDigits(w) == Range(w) \subseteq Digits
Unsigned(w, signs) == IF w # <<>> /\ w[1] \in signs THEN Tail(w) ELSE w
IsInteger(w) ==
    LET digits == Unsigned(w, {"-"})
    IN digits # <<>> /\ AllDigits(digits) /\
       \E k \in 0 .. MaxDigits : k <= Len(digits) /\ Range(SubSeq(digits, 1, Len(digits) - k)) \subseteq {"0"}
IsReal(w) ==
    \E i, j \in 1 .. Len(w) :
        LET whole    == Unsigned(SubSeq(w, 1, i - 1), {"-"})
            fraction == SubSeq(w, i + 1, j)
            exponent == SubSeq(w, j + 1, Len(w))
        IN /\ i <= j /\ w[i] = "."
           /\ AllDigits(whole \o fraction) /\ whole \o fraction # <<>>
           /\ exponent = <<>> \/
                  /\ exponent[1] \in ExponentMarks
                  /\ LET digits == Unsigned(Tail(exponent), {"-", "+"})
                     IN digits # <<>> /\ AllDigits(digits)

Numerals(n) == Words(Digits \cup ExponentMarks \cup {"-", "+", "."}, n)
Literals == {<<"t", "r", "u", "e">>, <<"f", "a", "l", "s", "e">>, <<"n", "u", "l", "l">>}

\* A sentence is a word and the events of its value.
Says(W, ev) == {<<w, <<ev>>>> : w \in W}
Scalar(n) ==
    Says(Quoted(n), "on_string")
    \cup Says({w \in Numerals(n) : IsInteger(w)}, "on_integer")
    \cup Says({w \in Numerals(n) : IsReal(w)}, "on_real")
    \cup {<<w, <<IF w[1] = "n" THEN "on_null" ELSE "on_boolean">>>> :
             w \in {w \in Literals : Len(w) = n /\ Range(w) \subseteq Alphabet /\ Considered(w)}}

Cat(u, v) == <<u[1] \o v[1], u[2] \o v[2]>>
Chr(c) == <<<<c>>, <<>>>>
Tok(c, ev) == <<<<c>>, <<ev>>>>

Keep(S) == {u \in S : Considered(u[1])}
Join(S, c, T) == IF c \in Alphabet THEN Keep({Cat(Cat(u, Chr(c)), v) : u \in S, v \in T}) ELSE {}
Enclose(open, S, close) ==
    IF Range(open[1] \o close[1]) \subseteq Alphabet
    THEN Keep({Cat(Cat(open, u), close) : u \in S}) ELSE {}
Arrays(S) == Enclose(Tok("[", "on_array_begin"), S, Tok("]", "on_array_end"))
Objects(S) == Enclose(Tok("{", "on_object_begin"), S, Tok("}", "on_object_end"))
Listed(S, T) == Join(S, ",", T)
Spaces == Whitespace \cap Alphabet
SpaceBefore(S) == Keep({Cat(Chr(c), u) : c \in Spaces, u \in S})
SpaceAfter(S) == Keep({Cat(u, Chr(c)) : c \in Spaces, u \in S})

None == [padded |-> {}, blank |-> {}, names |-> {}, elements |-> {}, member |-> {}, members |-> {}]

\* The sentences of length n of each kind, from the shorter ones.
Entry(short, n) ==
    LET OfLength(m) == IF m < 0 THEN None ELSE short[m + 1]
        blank == {<<s, <<>>>> : s \in Words(Whitespace, n)}
        padded == Scalar(n)
                  \cup Arrays(OfLength(n - 2).elements) \cup Objects(OfLength(n - 2).members)
                  \cup SpaceBefore(OfLength(n - 1).padded) \cup SpaceAfter(OfLength(n - 1).padded)
        names == Says(Quoted(n) \ {<<"quote", "quote">>}, "on_string")
                 \cup SpaceAfter(OfLength(n - 1).names)
        member == SpaceBefore(OfLength(n - 1).member) \cup
                  UNION {Join(short[k + 1].names, ":", short[n - k].padded) : k \in 0 .. n - 1}
    IN [ padded |-> padded, blank |-> blank, names |-> names, member |-> member,
         elements |-> blank \cup padded \cup
             UNION {Listed(short[k + 1].padded, short[n - k].elements) : k \in 0 .. n - 1},
         members |-> blank \cup member \cup
             UNION {Listed(short[k + 1].member, short[n - k].members \ short[n - k].blank) :
                       k \in 0 .. n - 1} ]

\* The entries for the lengths up to n.
Grammar[n \in 0 .. MaxChars] ==
    LET short == IF n = 0 THEN <<>> ELSE Grammar[n - 1]
    IN Append(short, Entry(short, n))

Sentences == UNION {entry.padded : entry \in Range(Grammar[MaxChars])}

Beginnings == UNION {{SubSeq(s[1], 1, k) : k \in 0 .. Len(s[1])} : s \in Sentences}
-----------------------------------------------------------------------------
\* The text that a call moved over before it returned a value is a sentence,
\* and the value is the one it says: every string, number and literal of its
\* kind, in its place, with a name before each value of an object.
ValueIsMeaning == outcome = "accepted" => <<text, listed>> \in Sentences

\* A call that returns the null value for an exception, or lets one through,
\* was given no sentence: what it moved over, with the character it stopped
\* at, starts none.
FailsOnlyOutsideDialect ==
    /\ outcome = "null" =>
           IF peek = "end" THEN \A s \in Sentences : s[1] # text
                           ELSE Append(text, peek) \notin Beginnings
    /\ outcome = "escaped" => Append(text, peek) \notin Beginnings
=============================================================================
