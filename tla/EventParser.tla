---------------------------- MODULE EventParser ----------------------------
(***************************************************************************)
(* The event parser of src/include/daw/json/daw_json_parser_impl.h under   *)
(* its driver json_parser, sending its events to the state machine of      *)
(* StateStack.  The parser sees its input through *first and ++first: peek *)
(* is the character under the iterator, chosen when the iterator gets      *)
(* there.  A step is one turn of a loop, one test that throws, or one      *)
(* event.  Calls of json_parser follow one another in one process: what an *)
(* exception leaves on the state stack is there for the next one.          *)
(***************************************************************************)
EXTENDS StateStack, Characters

CONSTANTS
    MaxChars,     \* bound on the length of one input
    MaxParses     \* bound on the calls of json_parser in one process

ASSUME BoundsAssumption == MaxChars \in Nat /\ MaxParses \in Nat

VARIABLES
    text,      \* the characters consumed by this parse
    peek,      \* *first, or "end" when first = last
    pc,        \* where the innermost active parse function is
    frames,    \* kinds of the parse_array and parse_object calls in progress
    inSlash,   \* parse_string's in_slash
    want,      \* the letters parse_true, parse_false or parse_null still expect
    buffer,    \* state_control_t::buffer
    events,    \* the events delivered by this parse
    outcome,   \* "idle", "running", or how the last parse ended
    parses,    \* calls of json_parser so far
    base       \* stateStack as this parse found it

input == <<text, peek>>
local == <<inSlash, want>>
sent == <<events, stateStack>>
run == <<outcome, parses, base>>
vars == <<input, pc, frames, local, buffer, sent, run>>

InInteger == {"int_first", "int"}
InReal == {"frac_first", "frac", "exp_sign", "exp_first", "exp"}
InString == {"key", "string"}
InLiteral == {"boolean", "null"}
PCs == {"top", "element", "member", "colon", "value", "after"}
       \cup InInteger \cup InReal \cup InString \cup InLiteral

Rejections == {"malformed", "no_array_end", "unclosed_string"}
Outcomes == {"idle", "running", "accepted", "state_error", "overrun"} \cup Rejections

In(kind) == frames # <<>> /\ Last(frames) = kind

\* What can be under the iterator after n characters.
Ahead(n) == {"end"} \cup (IF n < MaxChars THEN Alphabet ELSE {})

Init ==
    /\ InitStack
    /\ text = <<>> /\ peek = "end"
    /\ pc = "top" /\ frames = <<>>
    /\ inSlash = FALSE /\ want = <<>> /\ buffer = <<>>
    /\ events = <<>> /\ outcome = "idle" /\ parses = 0 /\ base = stateStack
-----------------------------------------------------------------------------
\* The iterator and the buffer.

ConsumePastEnd ==      \* mutant: ++first with no test against last
    /\ text' = Append(text, peek)
    /\ peek' \in Ahead(Len(text) + 1)

Consume ==      \* ++first
    /\ peek # "end"
    /\ text' = Append(text, peek)
    /\ peek' \in Ahead(Len(text) + 1)

Keep ==         \* state.push( *first ); ++first
    /\ Consume
    /\ buffer' = Append(buffer, peek)

Goto(label) == pc' = label

Stop(how) ==    \* an exception leaves json_parser, or json_parser returns
    /\ outcome' = how
    /\ UNCHANGED <<input, pc, frames, local, buffer, sent, parses, base>>

ReturnToTop(c) == "top"     \* mutant: the caller is always json_parser

\* Where a parse function returns to, in the containers c around it.
ReturnTo(c) == IF c = <<>> THEN "top" ELSE "after"

\* json_parser is called with another input, and a state_control_t that is
\* new or has served before.  The state stack is what the last call left.
StartParse ==
    /\ outcome \notin {"running", "overrun"}
    /\ parses < MaxParses
    /\ parses' = parses + 1
    /\ outcome' = "running"
    /\ base' = stateStack
    /\ text' = <<>> /\ peek' \in Ahead(0)
    /\ frames' = <<>> /\ events' = <<>> /\ inSlash' = FALSE /\ want' = <<>>
    /\ buffer' \in {<<>>, buffer}
    /\ Goto("top")
    /\ UNCHANGED stateStack
-----------------------------------------------------------------------------
\* Events.  Due(ev): the parser is about to call state.ev().

Due(ev) ==
    \/ pc \in {"top", "element", "value"} /\ peek = "{" /\ ev = "on_object_begin"
    \/ pc \in {"top", "element", "value"} /\ peek = "[" /\ ev = "on_array_begin"
    \/ pc = "after" /\ In("object") /\ peek = "}" /\ ev = "on_object_end"
    \/ pc = "after" /\ In("array") /\ peek = "]" /\ ev = "on_array_end"
    \/ pc \in InString /\ peek = "quote" /\ ~inSlash /\ ev = "on_string"
    \/ pc = "int" /\ peek \notin Digits \cup ExponentMarks \cup {"."} /\ ev = "on_integer"
    \/ pc = "frac" /\ peek \notin Digits \cup ExponentMarks /\ ev = "on_real"
    \/ pc = "exp" /\ peek \notin Digits /\ ev = "on_real"
    \/ pc = "boolean" /\ want = <<>> /\ ev = "on_boolean"
    \/ pc = "null" /\ want = <<>> /\ ev = "on_null"

Send(ev) ==
    /\ Due(ev)
    /\ Deliver(ev)
    /\ events' = Append(events, ev)
    /\ UNCHANGED <<local, buffer, run>>

\* The handler throws: the event is lost and the exception leaves json_parser.
StateThrows == \E ev \in Events : Due(ev) /\ Refuses(ev) /\ Stop("state_error")

BeginContainer(ev, kind, label) ==
    /\ Send(ev) /\ Consume
    /\ frames' = Append(frames, kind)
    /\ Goto(label)

BeginArray == BeginContainer("on_array_begin", "array", "element")
BeginObject == BeginContainer("on_object_begin", "object", "member")

EndContainer(ev) ==
    /\ Send(ev) /\ Consume
    /\ frames' = Front(frames)
    /\ Goto(ReturnTo(Front(frames)))

EndArray == EndContainer("on_array_end")
EndObject == EndContainer("on_object_end")

EndString ==
    /\ Send("on_string") /\ Consume
    /\ Goto(IF pc = "key" THEN "colon" ELSE "after")
    /\ UNCHANGED frames

\* A number ends before the character that is not part of it, a literal
\* after its last letter.
EndScalar ==
    /\ \E ev \in Scalars \ {"on_string"} : Send(ev)
    /\ Goto("after")
    /\ UNCHANGED <<input, frames>>
-----------------------------------------------------------------------------
\* json_parser, parse_array, parse_object and parse_value between events.

SkipWhitespace ==
    /\ pc \in {"top", "element", "member", "colon", "value", "after"}
    /\ peek \in Whitespace
    /\ Consume
    /\ UNCHANGED <<pc, frames, local, buffer, sent, run>>

Return == pc = "top" /\ peek = "end" /\ Stop("accepted")

Move(from, char, label) ==
    /\ pc = from /\ peek = char
    /\ Consume
    /\ Goto(label)
    /\ UNCHANGED <<frames, local, buffer, sent, run>>

\* Mutant: after a comma the array may end.
NextElementOrEnd == In("array") /\ Move("after", ",", "after")

NextElement == In("array") /\ Move("after", ",", "element")
NextMember == In("object") /\ Move("after", ",", "member")
Separator == Move("colon", ":", "value")

\* Mutant: parse_string without clear_buffer.
EnterStringKeepsBuffer(from, label) ==
    /\ pc \in from
    /\ Consume
    /\ Goto(label)
    /\ inSlash' = FALSE
    /\ UNCHANGED <<frames, want, buffer, sent, run>>

\* parse_string steps over its first character without looking at it.
EnterString(from, label) ==
    /\ pc \in from
    /\ Consume
    /\ Goto(label)
    /\ buffer' = <<>> /\ inSlash' = FALSE
    /\ UNCHANGED <<frames, want, sent, run>>

EnterKey ==
    /\ peek \notin {"end", "}"} \cup Whitespace
    /\ EnterString({"member"}, "key")
EnterValueString ==
    /\ peek = "quote"
    /\ EnterString({"element", "value"}, "string")

StringChar ==
    /\ pc \in InString
    /\ Keep
    /\ peek = "quote" => inSlash
    /\ inSlash' = CASE peek = "slash" -> TRUE
                    [] peek = "quote" -> inSlash
                    [] OTHER -> FALSE
    /\ UNCHANGED <<pc, frames, want, sent, run>>

EnterNumber ==
    /\ pc \in {"element", "value"}
    /\ peek \in Digits \cup {"-"}
    /\ IF peek = "-" THEN Consume /\ buffer' = <<"-">>
                     ELSE buffer' = <<>> /\ UNCHANGED input
    /\ Goto("int_first")
    /\ UNCHANGED <<frames, local, sent, run>>

\* One character of a number: parse_integer's first digit and its loop, and
\* the marks that start a fraction or an exponent.
NumberChar ==
    /\ \/ pc \in {"int_first", "int"} /\ peek \in Digits /\ Goto("int")
       \/ pc = "int" /\ peek = "." /\ Goto("frac_first")
       \/ pc \in {"frac_first", "frac"} /\ peek \in Digits /\ Goto("frac")
       \/ pc \in {"int", "frac"} /\ peek \in ExponentMarks /\ Goto("exp_sign")
       \/ pc = "exp_sign" /\ peek \in {"-", "+"} /\ Goto("exp_first")
       \/ pc \in {"exp_sign", "exp_first", "exp"} /\ peek \in Digits /\ Goto("exp")
    /\ Keep
    /\ UNCHANGED <<frames, local, sent, run>>

\* The test for a sign after an exponent mark does not ask whether the input
\* has ended.  When the memory after it happens to hold a sign, the parser
\* steps over it and reads on outside its input.
Overrun == pc = "exp_sign" /\ peek = "end" /\ Stop("overrun")

\* Mutant: parse_null stops a letter early.
RestShort(c) == CASE c = "t" -> <<"r", "u", "e">>
                  [] c = "f" -> <<"a", "l", "s", "e">>
                  [] c = "n" -> <<"u", "l">>

Rest(c) == CASE c = "t" -> <<"r", "u", "e">>
             [] c = "f" -> <<"a", "l", "s", "e">>
             [] c = "n" -> <<"u", "l", "l">>

EnterLiteral ==
    /\ pc \in {"element", "value"}
    /\ peek \in {"t", "f", "n"}
    /\ Consume
    /\ want' = Rest(peek)
    /\ Goto(IF peek = "n" THEN "null" ELSE "boolean")
    /\ UNCHANGED <<frames, inSlash, buffer, sent, run>>

LiteralChar ==
    /\ pc \in InLiteral
    /\ want # <<>> /\ peek = Head(want)
    /\ Consume
    /\ want' = Tail(want)
    /\ UNCHANGED <<pc, frames, inSlash, buffer, sent, run>>
-----------------------------------------------------------------------------
\* The exceptions.

NotAContainer == pc = "top" /\ peek \notin Whitespace \cup {"end", "[", "{"}

NotAValue ==
    /\ pc \in {"element", "value"}
    /\ peek \notin Whitespace \cup Digits \cup {"t", "f", "n", "quote", "{", "[", "-"}
    /\ pc = "element" => peek \notin {"end", "]"}

NotAMember == pc = "member" /\ peek \in {"end", "}"}

NotASeparator == pc = "colon" /\ peek \notin Whitespace \cup {":"}

\* Mutant: spaces after a value are not skipped.
NotACommaNorSpace ==
    /\ pc = "after" /\ peek # ","
    /\ \/ In("array") /\ peek \notin {"end", "]"}
       \/ In("object") /\ peek # "}"

NotAComma ==
    /\ pc = "after" /\ peek \notin Whitespace \cup {","}
    /\ \/ In("array") /\ peek \notin {"end", "]"}
       \/ In("object") /\ peek # "}"

\* Mutant: only a minus is taken as the sign of an exponent.
NotADigitNorMinus ==
    /\ peek \notin Digits
    /\ \/ pc \in {"int_first", "frac_first", "exp_first"}
       \/ pc = "exp_sign" /\ peek # "-"

NotADigit ==
    /\ peek \notin Digits
    /\ \/ pc \in {"int_first", "frac_first", "exp_first"}
       \/ pc = "exp_sign" /\ peek \notin {"-", "+"}

NotTheLiteral == pc \in InLiteral /\ want # <<>> /\ peek # Head(want)

\* "Expected a closing ']' for array but found end"
NoArrayEnd ==
    \/ pc = "element" /\ peek \in {"end", "]"}
    \/ pc = "after" /\ In("array") /\ peek = "end"

UnclosedName == pc = "key" /\ peek = "end"     \* mutant: a value is read to no end

\* "Unclosed string when end of input reached"
UnclosedString == pc \in InString /\ peek = "end"

Reject ==
    \/ /\ \/ NotAContainer \/ NotAValue \/ NotAMember \/ NotASeparator
          \/ NotAComma \/ NotADigit \/ NotTheLiteral
       /\ Stop("malformed")
    \/ NoArrayEnd /\ Stop("no_array_end")
    \/ UnclosedString /\ Stop("unclosed_string")
-----------------------------------------------------------------------------
ParserStep ==
    /\ outcome = "running"
    /\ \/ BeginArray \/ BeginObject \/ EndArray \/ EndObject
       \/ EndString \/ EndScalar \/ StateThrows
       \/ SkipWhitespace \/ Return \/ NextElement \/ NextMember \/ Separator
       \/ EnterKey \/ EnterValueString \/ StringChar
       \/ EnterNumber \/ NumberChar \/ Overrun
       \/ EnterLiteral \/ LiteralChar \/ Reject

Next == StartParse \/ ParserStep

\* A call of json_parser runs to its end; whether another follows is up to
\* the program.
Spec == Init /\ [][Next]_vars /\ WF_vars(ParserStep)
-----------------------------------------------------------------------------
\* Every variable stays in its set.
TypeOK ==
    /\ text \in Seq(Alphabet) /\ peek \in Alphabet \cup {"end"}
    /\ pc \in PCs /\ frames \in Seq({"array", "object"})
    /\ inSlash \in BOOLEAN /\ want \in Seq(Char) /\ buffer \in Seq(Alphabet)
    /\ events \in Seq(Events) /\ outcome \in Outcomes /\ parses \in 0 .. MaxParses
    /\ base \in Seq(States) /\ stateStack \in Seq(States)

\* The innermost container is an object whose current name has been delivered
\* and whose value has not.
AwaitsValue ==
    /\ In("object")
    /\ pc \in {"colon", "value", "string"} \cup InInteger \cup InReal \cup InLiteral

\* The state that belongs to the i-th parse function in progress.
Level(i) ==
    IF frames[i] = "array" THEN "in_array"
    ELSE IF i = Len(frames) /\ AwaitsValue THEN "in_object_value" ELSE "in_object_name"

\* The process-wide stack follows the C++ call stack: above what the parse
\* found there is one state for each parse_array or parse_object call in
\* progress, and it is the one that expects what this call will send next.
\* After an exception the levels of the calls it left are still there.
StackMirrorsNesting ==
    /\ Len(stateStack) = Len(base) + Len(frames)
    /\ \A i \in 1 .. Len(frames) : stateStack[Len(base) + i] = Level(i)

\* What the parse found, as it is now: a member that waited for its value has
\* had it with the first event, a container that begins counting as the value.
BaseNow ==
    IF events # <<>> /\ Last(base) = "in_object_value"
    THEN [base EXCEPT ![Len(base)] = "in_object_name"]
    ELSE base

\* A parse leaves alone what earlier calls left below its own levels, but for
\* a member that waited for its value: that one expects a name from the first
\* event on, and only then.
StackBelowIsKept == \A i \in 1 .. Len(base) : stateStack[i] = BaseNow[i]

\* A call that returns normally leaves no level of its own behind, also when
\* it ran on top of the levels of calls that failed: the stack is what it was,
\* but for a member that waited for its value, if the text had one.
AcceptRestoresStack == outcome = "accepted" => stateStack = BaseNow

\* The state machine never refuses an event of the parser on account of the
\* text being parsed: it does so only when an earlier call failed inside an
\* object and left its state on the stack.
StateErrorOnlyFromResidue ==
    outcome = "state_error" =>
        parses > 1 /\ Last(base) \in {"in_object_name", "in_object_value"}

\* Once a call has failed where an object expects a name, no later call in the
\* process delivers a single event, whatever its text: the state on top takes
\* neither on_array_begin nor on_object_begin and nothing removes it.
PoisonedParseIsMute ==
    Last(base) = "in_object_name" => events = <<>> /\ stateStack = base

\* While a string or a number is read, the buffer holds all of it that has
\* been consumed and nothing else: no character of an earlier token, of a
\* skipped space or of the quote, so what on_string, on_integer and on_real
\* are given is the token's own text.
BufferIsToken ==
    pc \in {"string"} \cup InInteger \cup InReal =>
        LET before == Len(text) - Len(buffer) IN
        /\ before >= 1
        /\ buffer = SubSeq(text, before + 1, Len(text))
        /\ IF pc = "string" THEN text[before] = "quote"
                            ELSE text[before] \in Whitespace \cup {"[", ",", ":"}

\* How far the parse is, to one who only sees the events.
StreamStatus ==
    CASE outcome \in {"idle", "running"} -> outcome
      [] outcome = "accepted" -> "returned"
      [] outcome = "overrun" -> "undefined"
      [] OTHER -> "threw"

Stream == INSTANCE EventStream WITH
    open <- frames, named <- AwaitsValue, stream <- events, status <- StreamStatus

\* json_parser delivers to its State only what EventStream allows: names and
\* values alternate in an object, ends match begins, and it returns only when
\* all that was begun has ended.
DeliversEventStream == Stream!Spec

\* Every call of json_parser ends: no loop turns without consuming input.
Termination == outcome = "running" ~> outcome # "running"

\* "Assumes that *first == '"'" (comment of parse_string): the character
\* parse_string steps over when it is entered is a quote.
StringStartsWithQuote ==
    pc \in InString => text[Len(text) - Len(buffer)] = "quote"

\* "Expected a closing ']' for array but found end" is said only at the end.
NoArrayEndMeansEnd == outcome = "no_array_end" => peek = "end"

\* The character at position i is escaped: the run of backslashes right
\* before it has odd length.
Escaped(s, i) ==
    \E n \in 1 .. i - 1 :
        /\ n % 2 = 1
        /\ \A j \in i - n .. i - 1 : s[j] = "slash"
        /\ i - n > 1 => s[i - n - 1] # "slash"

\* "Unclosed string when end of input reached" is said only of a string in
\* which every quote is escaped.
UnclosedMeansNoClosingQuote ==
    outcome = "unclosed_string" =>
        \A i \in 1 .. Len(buffer) : buffer[i] = "quote" => Escaped(buffer, i)
=============================================================================
