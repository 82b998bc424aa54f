----------------------------- MODULE Converters -----------------------------
(***************************************************************************)
(* json_to_value, which gives a json_value_t to a variable of the program, *)
(* and value_to_json, whose text parse_json makes a value of again.        *)
(*                                                                         *)
(* The type of a variable is a sequence of parts: one, or the two of a     *)
(* std::pair.  A part is of some type, with the limits lo and hi of        *)
(* std::numeric_limits if it is a "narrow" integer, and it is in itself,   *)
(* "plain", or in an "optional" or a "pointer" (a shared_ptr).  What a     *)
(* part holds is a scalar or Nothing.                                      *)
(***************************************************************************)
EXTENDS JsonValue

Nothing == <<"nothing", "nothing">>

\* static_cast to integer_t
Wrap(n) == ((n + Half) % (2 * Half)) - Half

Ok(x) == [how |-> "ok", to |-> x]
Threw(x) == [how |-> "threw", to |-> x]
Undefined(x) == [how |-> "undefined", to |-> x]
-----------------------------------------------------------------------------
\* Reading: a set of outcomes, each with what the variable holds afterwards.

FitsBelow(part, n) == Wrap(part.hi) >= n        \* mutant: the least is not looked at
FitsStrictly(part, n) == Wrap(part.hi) > n /\ Wrap(part.lo) <= n    \* mutant
Fits(part, n) == Wrap(part.hi) >= n /\ Wrap(part.lo) <= n

Converts(part, v) ==
    IF part.of = "narrow" THEN v[1] = "integer" /\ Fits(part, v[2])
    ELSE GetterTakes(part.of, v)
Converted(part, v) == IF part.of = "real" THEN <<"real", GetReal(v)>> ELSE v

IntoEngaging(part, old, v) ==   \* mutant: an empty optional is engaged
    IF part.in = "pointer" /\ old = Nothing THEN {Threw(old)}
    ELSE IF part.in # "plain" /\ v = Null THEN {Ok(Nothing)}
    ELSE IF ~Converts(part, v) THEN {Threw(old)}
    ELSE {Ok(Converted(part, v))}

\* An empty optional is assigned to through *to.  What that does to a string
\* is not defined; of another type the build leaves the optional empty, or
\* stops the program.
Into(part, old, v) ==
    IF part.in = "pointer" /\ old = Nothing THEN {Threw(old)}
    ELSE IF part.in # "plain" /\ v = Null THEN {Ok(Nothing)}
    ELSE IF ~Converts(part, v) THEN {Threw(old)}
    ELSE IF part.in = "optional" /\ old = Nothing
    THEN {Undefined(old)} \cup (IF part.of = "string" THEN {} ELSE {Ok(old)})
    ELSE {Ok(Converted(part, v))}

ReadValueLate(kind, key, old, ms) ==    \* mutant: the first part is assigned at once
    IF ~HasMember(ms, "value") THEN {Threw(<<key, old[2]>>)}
    ELSE {IF o.how = "ok" THEN Ok(<<key, o.to>>) ELSE [o EXCEPT !.to = <<key, old[2]>>] :
             o \in Into(kind[2], Nothing, ms[Find(ms, "value")][2])}

\* The two parts of a pair are read into new variables, an optional or a
\* shared_ptr among them empty; the target is assigned when both are there.
ReadValue(kind, key, old, ms) ==
    IF ~HasMember(ms, "value") THEN {Threw(old)}
    ELSE {IF o.how = "ok" THEN Ok(<<key, o.to>>) ELSE [o EXCEPT !.to = old] :
             o \in Into(kind[2], Nothing, ms[Find(ms, "value")][2])}

ReadPair(kind, old, ms) ==
    IF Len(ms) # 2 \/ ~HasMember(ms, "key") THEN {Threw(old)}
    ELSE UNION {IF o.how = "ok" THEN ReadValue(kind, o.to, old, ms) ELSE {[o EXCEPT !.to = old]} :
                   o \in Into(kind[1], Nothing, ms[Find(ms, "key")][2])}

JsonToValue(kind, old, v) ==
    IF Len(kind) = 1 THEN {[o EXCEPT !.to = <<o.to>>] : o \in Into(kind[1], old[1], v)}
    ELSE IF v[1] = "object" THEN ReadPair(kind, old, v[2])
    ELSE {Threw(old)}
-----------------------------------------------------------------------------
\* Writing, and what parse_json makes of the text.

EscapeFew(s) ==         \* mutant: the backslash itself is not escaped
    FlattenSeq([i \in DOMAIN s |-> CASE s[i] = "newline" -> <<"slash", "n">>
                                     [] s[i] = "quote" -> <<"slash", "quote">>
                                     [] OTHER -> <<s[i]>>])
\* escape_string
Escape(s) ==
    FlattenSeq([i \in DOMAIN s |-> CASE s[i] = "newline" -> <<"slash", "n">>
                                     [] s[i] \in {"quote", "slash"} -> <<"slash", s[i]>>
                                     [] OTHER -> <<s[i]>>])

\* parse_string, behind the opening quote: up to a quote with an even number
\* of backslashes before it, which stay in the value.
ReadString(s) ==
    LET slashes(i) == {j \in 1 .. i - 1 : \A l \in j .. i - 1 : s[l] = "slash"}
        ends == {i \in DOMAIN s : s[i] = "quote" /\ Cardinality(slashes(i)) % 2 = 0}
    IN IF ends = {} THEN Null ELSE <<"string", SubSeq(s, 1, Min(ends) - 1)>>

RereadRounded(x) ==     \* mutant: a real is written with six digits
    CASE x = Nothing -> Null
      [] x[1] = "string" -> ReadString(Append(Escape(x[2]), "quote"))
      [] x[1] = "real" -> RealText(x[2])
      [] OTHER -> x

\* The stream writes a number that is whole without a point, and parse_json
\* takes it for an integer: also when an exponent is written behind it, which
\* is read only behind a point.
Whole(x) == x[1] = "real" /\ x[2][1] % Unit = 0
Reread(x) ==
    CASE x = Nothing -> Null
      [] x[1] = "string" -> ReadString(Append(Escape(x[2]), "quote"))
      [] Whole(x) -> <<"integer", x[2][1] \div Unit>>
      [] OTHER -> x

\* Where value_to_json of a container calls itself for an element, the one for
\* a number is not declared yet, and the one for a bool takes the element; that
\* of an optional calls it from behind the declaration.
IsNumber(part) == part.in = "plain" /\ part.of \in {"narrow", "integer", "real"}
AsElement(part, x) ==
    IF IsNumber(part) THEN <<"boolean", (IF part.of = "real" THEN x[2][1] ELSE x[2]) # 0>> ELSE x

\* An exponent that is left unread is ignored behind a value, and is no comma
\* or bracket behind an element: parse_json makes null of its own exception.
LeavesExponent(x) == Whole(x) /\ x[2][2] # 0
RereadList(xs) ==
    IF \E i \in DOMAIN xs : LeavesExponent(xs[i]) THEN Null
    ELSE <<"array", [i \in DOMAIN xs |-> Reread(xs[i])]>>
=============================================================================
