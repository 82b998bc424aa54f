------------------------------ MODULE JsonValue ------------------------------
(***************************************************************************)
(* json_value_t (src/daw_json_value_t.cpp): what its getters take, and its *)
(* text, by which compare tells two values apart.                          *)
(*                                                                         *)
(* A value is a pair of its type and its content.  The content of a string *)
(* is a sequence of characters; that of a real a pair of a number of units *)
(* and a scale; that of an array a sequence of values, of an object a      *)
(* sequence of pairs of a name and a value, in which names may repeat.     *)
(* The containers in this model hold scalars: the code recurs without      *)
(* looking at the level it is on.                                          *)
(*                                                                         *)
(* The scale of a real is 0, or 1 or -1 when the number is so large, or so *)
(* small, that a stream prints it with an exponent; the units are then     *)
(* those of the number before the exponent, and six digits behind the      *)
(* point do not show anything of a small one.                              *)
(***************************************************************************)
EXTENDS Integers, SequencesExt

CONSTANTS
    Half,           \* integer_t holds -Half .. Half - 1
    Unit,           \* reals are counted in units, Unit of them to 1
    Step            \* std::to_string of a real gives a multiple of Step

ASSUME NumberAssumption == {Half, Unit, Step} \subseteq Nat \ {0}

Null == <<"null", "null">>
Types == {"null", "integer", "real", "string", "boolean", "array", "object"}
Chars == {"x", "n", "newline", "quote", "slash"}

IsReal(x) ==
    /\ x[1] \in -(Half * Unit) .. Half * Unit - 1 /\ x[2] \in {-1, 0, 1}
    /\ x[2] # 0 => x[1] \in Unit .. 10 * Unit - 1 \/ -x[1] \in Unit .. 10 * Unit - 1
IsScalar(v) ==
    CASE v[1] = "null" -> v = Null
      [] v[1] = "integer" -> v[2] \in -Half .. Half - 1
      [] v[1] = "real" -> v[2] = <<v[2][1], v[2][2]>> /\ IsReal(v[2])
      [] v[1] = "string" -> v[2] \in Seq(Chars)
      [] v[1] = "boolean" -> v[2] \in BOOLEAN
      [] OTHER -> FALSE
IsValue(v) ==
    CASE v[1] = "array" -> \A i \in DOMAIN v[2] : IsScalar(v[2][i])
      [] v[1] = "object" -> \A i \in DOMAIN v[2] : IsScalar(v[2][i][2])
      [] OTHER -> IsScalar(v)

\* get_real takes integers, and get_string refuses the empty string.
GetterTakes(type, v) ==
    CASE type = "real" -> v[1] \in {"integer", "real"}
      [] type = "string" -> v[1] = "string" /\ v[2] # <<>>
      [] OTHER -> v[1] = type

FindLast(ms, n) ==      \* mutant: searches from the back
    LET is == {i \in DOMAIN ms : ms[i][1] = n}
    IN IF is = {} THEN Len(ms) + 1 ELSE Max(is)

\* find among the members of an object: the first of the name, or the end.
Find(ms, n) ==
    LET is == {i \in DOMAIN ms : ms[i][1] = n}
    IN IF is = {} THEN Len(ms) + 1 ELSE Min(is)
HasMember(ms, n) == Find(ms, n) # Len(ms) + 1

\* static_cast of an integer to real_t.
GetReal(v) == IF v[1] = "integer" THEN <<Unit * v[2], 0>> ELSE v[2]
-----------------------------------------------------------------------------
\* Texts are sequences of symbols: characters, and whole numbers and reals.

Quote == <<"char", "quote">>
Symbols(s) == [i \in DOMAIN s |-> <<"char", s[i]>>]

\* std::to_string of a real, with six digits behind the point: a negative one
\* of which they show nothing is "-0.000000".
RealText(x) ==
    LET shown == IF x[2] = -1 THEN 0 ELSE Step * ((x[1] + Step \div 2) \div Step)
    IN <<"real", IF x[2] = 1 THEN x ELSE <<shown, IF shown = 0 /\ x[1] < 0 THEN -1 ELSE 0>>>>

UnquotedText(v) ==      \* mutant: strings are printed as they are
    CASE v[1] = "string" -> Symbols(v[2])
      [] v[1] = "real" -> <<RealText(v[2])>>
      [] OTHER -> <<v>>

\* to_string_t: a string in quotes, not escaped.
ScalarText(v) ==
    CASE v[1] = "string" -> <<Quote>> \o Symbols(v[2]) \o <<Quote>>
      [] v[1] = "real" -> <<RealText(v[2])>>
      [] OTHER -> <<v>>

Joined(texts) ==
    FlattenSeq([i \in DOMAIN texts |-> IF i = 1 THEN texts[i] ELSE <<<<"char", ", ">>>> \o texts[i]])
ItemText(m) == <<Quote, <<"char", m[1]>>, Quote, <<"char", " : ">>>> \o ScalarText(m[2])

Text(v) ==
    CASE v[1] = "array" ->
            <<<<"char", "[ ">>>> \o Joined([i \in DOMAIN v[2] |-> ScalarText(v[2][i])])
                \o <<<<"char", " ]">>>>
      [] v[1] = "object" ->
            <<<<"char", "{ ">>>> \o Joined([i \in DOMAIN v[2] |-> ItemText(v[2][i])])
                \o <<<<"char", " }">>>>
      [] OTHER -> ScalarText(v)

\* compare is that of the texts: operator== is the equality of these.
SameText(v, w) == Text(v) = Text(w)

\* The values whose text says all there is to them: no string has a quote in
\* it, and no real more than six digits behind its point.
PlainScalar(v) ==
    CASE v[1] = "string" -> "quote" \notin Range(v[2])
      [] v[1] = "real" -> v[2][2] = 1 \/ (v[2][2] = 0 /\ v[2][1] % Step = 0)
      [] OTHER -> TRUE
Plain(v) ==
    CASE v[1] = "array" -> \A i \in DOMAIN v[2] : PlainScalar(v[2][i])
      [] v[1] = "object" -> \A i \in DOMAIN v[2] : PlainScalar(v[2][i][2])
      [] OTHER -> PlainScalar(v)
=============================================================================
