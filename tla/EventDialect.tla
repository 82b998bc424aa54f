---------------------------- MODULE EventDialect ----------------------------
(***************************************************************************)
(* The language the event parser accepts, written as a grammar and without *)
(* its states: every sentence over the Alphabet of at most MaxChars        *)
(* characters, by length.  It is JSON but for these: an array or an object *)
(* has at least one element or member; the first character of a name       *)
(* stands for the opening quote and is any but a space or '}'; a quote     *)
(* closes a string unless a backslash comes before it with only            *)
(* backslashes and quotes between them; integer parts may start with       *)
(* zeros; and a text is any number of containers, none included.  Strings  *)
(* longer than MaxString are left out, for runs that look at long texts.   *)
(***************************************************************************)
EXTENDS EventParser

CONSTANT MaxString    \* bound on the characters between a string's quotes
ASSUME MaxStringAssumption == MaxString \in Nat

\* The state constraint that keeps TLC to short strings.
ShortStrings == pc \in InString => Len(buffer) <= MaxString

\* A name or a scalar of n characters has room in a sentence.
Fits(n) == n + 2 <= MaxChars

Words(C, n) == [1 .. n -> C \cap Alphabet]

\* A quote at position i of a string's body does not close it.
Shielded(s, i) ==
    \E j \in 1 .. i - 1 : s[j] = "slash" /\ \A k \in j .. i - 1 : s[k] \in {"slash", "quote"}

\* What may follow the first character of a string: up to its closing quote.
StringBodies(n) ==
    {s \in IF n \in 0 .. MaxString /\ Fits(n + 1) THEN Words(Alphabet, n) ELSE {} :
        /\ \A i \in 1 .. n : s[i] = "quote" => Shielded(s, i)
        /\ ~Shielded(s, n + 1)}
StringRests(n) == IF "quote" \in Alphabet THEN {Append(s, "quote") : s \in StringBodies(n - 1)} ELSE {}

Names(n) ==
    {<<c>> \o r : c \in IF ":" \in Alphabet THEN Alphabet \ (Whitespace \cup {"}"}) ELSE {},
                 r \in StringRests(n - 1)}
Strings(n) == {<<"quote">> \o r : r \in StringRests(n - 1)}

IsInteger(w) == w # <<>> /\ Range(w) \subseteq Digits
IsSigned(w, signs) == IsInteger(IF w # <<>> /\ w[1] \in signs THEN Tail(w) ELSE w)
IsNumber(w) ==
    \E i, j \in 0 .. Len(w) :
        LET integer  == SubSeq(w, 1, i)
            fraction == SubSeq(w, i + 1, j)
            exponent == SubSeq(w, j + 1, Len(w))
        IN /\ i <= j /\ IsSigned(integer, {"-"})
           /\ fraction = <<>> \/ (fraction[1] = "." /\ IsInteger(Tail(fraction)))
           /\ exponent = <<>> \/ (exponent[1] \in ExponentMarks /\ IsSigned(Tail(exponent), {"-", "+"}))
Numbers(n) ==
    {w \in IF Fits(n) THEN Words(Digits \cup ExponentMarks \cup {"-", "+", "."}, n) ELSE {} :
        IsNumber(w)}

Literals(n) ==
    {w \in {<<"t", "r", "u", "e">>, <<"f", "a", "l", "s", "e">>, <<"n", "u", "l", "l">>} :
        Len(w) = n /\ Range(w) \subseteq Alphabet}

Join(A, c, B) == IF c \in Alphabet THEN {u \o <<c>> \o v : u \in A, v \in B} ELSE {}
Enclose(o, A, c) == IF {o, c} \subseteq Alphabet THEN {<<o>> \o u \o <<c>> : u \in A} ELSE {}
SpaceBefore(A) == {s \o u : s \in Words(Whitespace, 1), u \in A}
SpaceAfter(A) == {u \o s : s \in Words(Whitespace, 1), u \in A}

None == [containers |-> {}, padded |-> {}, names |-> {}, elements |-> {},
         member |-> {}, members |-> {}, documents |-> {}]

\* The words of length n of each kind, from those of length m < n in short[m + 1].
Entry(short, n) ==
    LET OfLength(m) == IF m < 0 THEN None ELSE short[m + 1]
        containers == Enclose("[", OfLength(n - 2).elements, "]") \cup
                      Enclose("{", OfLength(n - 2).members, "}")
        padded == Strings(n) \cup Numbers(n) \cup Literals(n) \cup containers
                  \cup SpaceBefore(OfLength(n - 1).padded) \cup SpaceAfter(OfLength(n - 1).padded)
        names == Names(n) \cup SpaceAfter(OfLength(n - 1).names)
        member == SpaceBefore(OfLength(n - 1).member) \cup
                  UNION {Join(short[k + 1].names, ":", short[n - k].padded) : k \in 0 .. n - 1}
    IN [ containers |-> containers, padded |-> padded, names |-> names, member |-> member,
         elements |-> padded \cup
             UNION {Join(short[k + 1].padded, ",", short[n - k].elements) : k \in 0 .. n - 1},
         members |-> member \cup
             UNION {Join(short[k + 1].member, ",", short[n - k].members) : k \in 0 .. n - 1},
         documents |-> (IF n = 0 THEN {<<>>} ELSE containers)
             \cup SpaceBefore(OfLength(n - 1).documents)
             \cup UNION {{u \o v : u \in short[k + 1].containers, v \in short[n - k + 1].documents} :
                             k \in 1 .. n - 1} ]

\* The entries for the lengths up to n.
Grammar[n \in 0 .. MaxChars] ==
    LET short == IF n = 0 THEN <<>> ELSE Grammar[n - 1]
    IN Append(short, Entry(short, n))

Documents == UNION {entry.documents : entry \in Range(Grammar[MaxChars])}

Beginnings == UNION {{SubSeq(d, 1, k) : k \in 0 .. Len(d)} : d \in Documents}
-----------------------------------------------------------------------------
\* A text that json_parser accepts is a sentence of the dialect.
AcceptsOnlyDialect == outcome = "accepted" => text \in Documents

\* A text that json_parser rejects is not one: what it consumed and the
\* character it stopped at start no sentence.
AcceptsWholeDialect ==
    outcome \in Rejections =>
        IF peek = "end" THEN text \notin Documents
                        ELSE Append(text, peek) \notin Beginnings
=============================================================================
