----------------------------- MODULE TreeParser -----------------------------
(***************************************************************************)
(* One call of parse_json (src/src/daw_json_parser.cpp): the recursive     *)
(* descent over a utf_range that shrinks from its front, and what the call *)
(* makes of the exceptions that leave it.  As in EventParser, peek is the  *)
(* character at the front of the range, chosen when the range gets there,  *)
(* and a step is one character, one test that throws or one value.  The    *)
(* value that is built is given by the events that list it in order, which *)
(* is how two values are told apart here.                                  *)
(***************************************************************************)
EXTENDS Naturals, SequencesExt, Characters

CONSTANTS
    MaxChars,     \* bound on the length of the text
    MaxDigits     \* an integer of more digits does not fit intmax_t

ASSUME BoundsAssumption == MaxChars \in Nat /\ MaxDigits \in Nat \ {0}

VARIABLES
    text,       \* the characters the range has moved over
    peek,       \* *range.begin( ), or "end" when the range is empty
    pc,         \* where the innermost active parse function is
    frames,     \* kinds of the parse_array and parse_object calls in progress
    first,      \* length of text where the string or number being read starts
    odd,        \* move_to_quote: slash_count % 2 = 1
    want,       \* the letters of a literal that are still to be compared
    listed,     \* the values made so far, as the events that list them
    outcome     \* "running", or how the call ended

input == <<text, peek>>
token == <<first, odd, want>>
vars == <<input, pc, frames, token, listed, outcome>>

InString == {"name", "string"}
InNumber == {"digits", "fraction", "exp_sign", "exp"}
InLiteral == {"boolean", "null"}

\* Where a value starts, and where skip_ws is called.
BeforeValue == {"value", "element"}
Skipping == BeforeValue \cup {"first_member", "member", "colon", "after"}
PCs == Skipping \cup {"close"} \cup InString \cup InNumber \cup InLiteral

\* "null" is the value returned for a JsonParserException, "escaped" another
\* exception that leaves parse_json, "overrun" a step beyond the text.
Outcomes == {"running", "accepted", "null", "escaped", "overrun"}

In(kind) == frames # <<>> /\ Last(frames) = kind

Ahead(n) == {"end"} \cup (IF n < MaxChars THEN Alphabet ELSE {})

Init ==
    /\ text = <<>> /\ peek \in Ahead(0)
    /\ pc = "value" /\ frames = <<>>
    /\ first = 0 /\ odd = FALSE /\ want = <<>>
    /\ listed = <<>> /\ outcome = "running"
-----------------------------------------------------------------------------
Goto(label) == pc' = label

ConsumePastEnd ==       \* mutant: the range moves when it is empty
    /\ text' = Append(text, peek)
    /\ peek' \in Ahead(Len(text) + 1)

Consume ==      \* ++range, where range.size( ) > 0
    /\ peek # "end"
    /\ text' = Append(text, peek)
    /\ peek' \in Ahead(Len(text) + 1)

List(ev) == listed' = Append(listed, ev)

Stop(how) == outcome' = how /\ UNCHANGED <<input, pc, frames, token, listed>>

\* What has been read of a string or a number.
Read == SubSeq(text, first + 1, Len(text))

SkipWhitespace ==
    /\ pc \in Skipping /\ peek \in Whitespace
    /\ Consume
    /\ UNCHANGED <<pc, frames, token, listed, outcome>>

BeginContainer(char, kind, ev, label) ==
    /\ pc \in BeforeValue /\ peek = char
    /\ Consume
    /\ frames' = Append(frames, kind)
    /\ List(ev)
    /\ Goto(label)
    /\ UNCHANGED <<token, outcome>>

BeginArray == BeginContainer("[", "array", "on_array_begin", "element")
BeginObject == BeginContainer("{", "object", "on_object_begin", "first_member")

EndContainer(char, ev) ==
    /\ peek = char
    /\ Consume
    /\ frames' = Front(frames)
    /\ List(ev)
    /\ Goto("after")
    /\ UNCHANGED <<token, outcome>>

EndArray ==
    /\ pc = "element" \/ (pc = "after" /\ In("array"))
    /\ EndContainer("]", "on_array_end")

EndObjectAnywhere ==        \* mutant: a member need not follow a comma
    /\ pc \in {"first_member", "member"} \/ (pc = "after" /\ In("object"))
    /\ EndContainer("}", "on_object_end")

EndObject ==
    /\ pc = "first_member" \/ (pc = "after" /\ In("object"))
    /\ EndContainer("}", "on_object_end")

Move(char, label) ==
    /\ peek = char
    /\ Consume
    /\ Goto(label)
    /\ UNCHANGED <<frames, token, listed, outcome>>

\* Only the loop of parse_array asks for the end right behind the comma.
NextElement == pc = "after" /\ In("array") /\ Move(",", IF peek' = "end" THEN "close" ELSE "element")
NextMember == pc = "after" /\ In("object") /\ Move(",", "member")
Separator == pc = "colon" /\ Move(":", "value")
-----------------------------------------------------------------------------
\* Strings: parse_string and move_to_quote.

EnterString ==
    /\ peek = "quote"
    /\ \/ pc \in {"first_member", "member"} /\ Goto("name")
       \/ pc \in BeforeValue /\ Goto("string")
    /\ Consume
    /\ first' = Len(text) + 1 /\ odd' = FALSE
    /\ UNCHANGED <<frames, want, listed, outcome>>

\* A quote behind this character would be shielded.
Shields == peek = "slash" /\ ~odd

StringChar ==
    /\ pc \in InString
    /\ peek = "quote" => odd
    /\ Consume
    /\ odd' = Shields
    /\ UNCHANGED <<pc, frames, first, want, listed, outcome>>

\* The label of a member goes through get_string_value, which throws when it
\* is empty.
EndString ==
    /\ pc \in InString /\ peek = "quote" /\ ~odd
    /\ pc = "name" => Read # <<>>
    /\ Consume
    /\ List("on_string")
    /\ Goto(IF pc = "name" THEN "colon" ELSE "after")
    /\ UNCHANGED <<frames, token, outcome>>

EmptyName ==
    /\ pc = "name" /\ peek = "quote" /\ ~odd /\ Read = <<>>
    /\ Stop("escaped")
-----------------------------------------------------------------------------
\* Numbers and literals.

EnterNumber ==
    /\ pc \in BeforeValue
    /\ peek \in Digits \cup {"-", "."}
    /\ first' = Len(text)
    /\ IF peek = "-" THEN Consume ELSE UNCHANGED input
    /\ Goto("digits")
    /\ UNCHANGED <<frames, odd, want, listed, outcome>>

NumberChar ==
    /\ \/ pc = "digits" /\ peek \in Digits /\ Goto("digits")
       \/ pc = "digits" /\ peek = "." /\ Goto("fraction")
       \/ pc = "fraction" /\ peek \in Digits /\ Goto("fraction")
       \/ pc = "fraction" /\ peek \in ExponentMarks /\ Goto("exp_sign")
       \/ pc = "exp_sign" /\ peek \in {"-", "+"} /\ Goto("exp")
       \/ pc \in {"exp_sign", "exp"} /\ peek \in Digits /\ Goto("exp")
    /\ Consume
    /\ UNCHANGED <<frames, token, listed, outcome>>

NumberEnds ==
    \/ pc = "digits" /\ peek \notin Digits \cup {"."}
    \/ pc = "fraction" /\ peek \notin Digits \cup ExponentMarks
    \/ pc = "exp_sign" /\ peek \notin Digits \cup {"-", "+"}
    \/ pc = "exp" /\ peek \notin Digits

\* boost::lexical_cast<intmax_t>: digits, and after the leading zeros not too many.
CastsToInteger(w) ==
    LET digits == IF w[1] = "-" THEN Tail(w) ELSE w
    IN /\ digits # <<>>
       /\ \E zeros \in 0 .. Len(digits) :
              /\ \A i \in 1 .. zeros : digits[i] = "0"
              /\ Len(digits) - zeros <= MaxDigits

\* boost::lexical_cast<double>: a digit before the exponent, and one in it.
CastsToReal(w) ==
    LET marks == {i \in 1 .. Len(w) : w[i] \in ExponentMarks}
        digits == {i \in 1 .. Len(w) : w[i] \in Digits}
    IN /\ \E i \in digits : \A m \in marks : i < m
       /\ \A m \in marks : \E i \in digits : i > m

CastsAsInteger == CastsToInteger(Read)     \* mutant: is_float is not asked

Casts == IF pc = "digits" THEN CastsToInteger(Read) ELSE CastsToReal(Read)

EndNumber ==
    /\ NumberEnds /\ Casts
    /\ List(IF pc = "digits" THEN "on_integer" ELSE "on_real")
    /\ Goto("after")
    /\ UNCHANGED <<input, frames, token, outcome>>

Rest(c) == CASE c = "t" -> <<"r", "u", "e">>
             [] c = "f" -> <<"a", "l", "s", "e">>
             [] c = "n" -> <<"u", "l", "l">>

EnterLiteral ==
    /\ pc \in BeforeValue
    /\ peek \in {"t", "f", "n"}
    /\ Consume
    /\ want' = Rest(peek)
    /\ Goto(IF peek = "n" THEN "null" ELSE "boolean")
    /\ UNCHANGED <<frames, first, odd, listed, outcome>>

LiteralChar ==
    /\ pc \in InLiteral /\ peek = Head(want)
    /\ Consume
    /\ want' = Tail(want)
    /\ IF Len(want) > 1
       THEN UNCHANGED <<pc, listed>>
       ELSE List(IF pc = "null" THEN "on_null" ELSE "on_boolean") /\ Goto("after")
    /\ UNCHANGED <<frames, first, odd, outcome>>
-----------------------------------------------------------------------------
\* The end of the call.

\* parse_json does not ask whether anything is left of the text.
Return == pc = "after" /\ frames = <<>> /\ peek \notin Whitespace /\ Stop("accepted")

\* Before it looks at a character the parser asks for the end of the text in
\* strings, behind digits and behind a comma in an array, and skip_ws does so
\* once it has moved.  Elsewhere it takes what lies after the text, and when
\* that happens to go on with it, moves out of the text.
Spaced == text # <<>> /\ Last(text) \in Whitespace
LooksPastEnd ==
    \/ pc \in (Skipping \ {"after"}) \cup {"close", "fraction", "exp_sign"} \cup InLiteral
    \/ pc = "after" /\ (frames # <<>> \/ ~Spaced)

Overrun == peek = "end" /\ LooksPastEnd /\ Stop("overrun")

NotAValue ==
    /\ pc \in BeforeValue
    /\ peek \notin Whitespace \cup Digits \cup {"[", "{", "quote", "t", "f", "n", "-", "."}
    /\ pc = "element" => peek # "]"

NotAMember ==
    /\ pc \in {"first_member", "member"}
    /\ peek \notin Whitespace \cup {"quote"}
    /\ pc = "first_member" => peek # "}"

NotASeparator == pc = "colon" /\ peek \notin Whitespace \cup {":"}

NotAnEnd ==
    \/ pc = "close"
    \/ pc = "after" /\ In("array") /\ peek \notin Whitespace \cup {",", "]"}
    \/ pc = "after" /\ In("object") /\ peek \notin Whitespace \cup {",", "}"}

NotANumber == NumberEnds /\ ~Casts

NotTheLiteral == pc \in InLiteral /\ peek # Head(want)

NameNotClosed == pc = "name" /\ peek = "end"    \* mutant: a value is read to no end

NotClosed == pc \in InString /\ peek = "end"

\* A JsonParserException, for which parse_json returns a null value.
Malformed ==
    /\ \/ NotAValue \/ NotAMember \/ NotASeparator \/ NotAnEnd
       \/ NotANumber \/ NotTheLiteral \/ NotClosed
    /\ Stop("null")

Next ==
    /\ outcome = "running"
    /\ \/ SkipWhitespace
       \/ BeginArray \/ BeginObject \/ EndArray \/ EndObject
       \/ NextElement \/ NextMember \/ Separator
       \/ EnterString \/ StringChar \/ EndString \/ EmptyName
       \/ EnterNumber \/ NumberChar \/ EndNumber \/ EnterLiteral \/ LiteralChar
       \/ Return \/ Overrun \/ Malformed

Spec == Init /\ [][Next]_vars /\ WF_vars(Next)
-----------------------------------------------------------------------------
\* Every variable stays in its set.
TypeOK ==
    /\ text \in Seq(Alphabet) /\ peek \in Alphabet \cup {"end"}
    /\ pc \in PCs /\ frames \in Seq({"array", "object"})
    /\ first \in 0 .. Len(text) /\ odd \in BOOLEAN /\ want \in Seq(Char)
    /\ outcome \in Outcomes

\* Every call of parse_json ends: no loop turns without moving the range.
Termination == <>(outcome # "running")

\* A text that cannot be parsed does not make parse_json return: the test of
\* the n_ files requires that a parse of them is not a success, and a success
\* is a call that returns.
FailureIsNoValue == outcome # "null"
=============================================================================
