---------------------------- MODULE ValueProgram ----------------------------
(***************************************************************************)
(* A program with an object, references to its members and a variable: it  *)
(* changes the object by name, converts values of it to the variable, and  *)
(* saves the variable in it, through the text that value_to_json writes    *)
(* and parse_json reads.                                                   *)
(***************************************************************************)
EXTENDS ObjectValue, Converters

CONSTANTS
    Scenarios,          \* what one behaviour is about: see scenario
    MaxString, MaxList  \* bounds: characters of a saved string, elements

\* What the assumption asks of a value, and of the values in it.
Typed(v) ==
    /\ v[1] \in Types
    /\ v[1] = "object" => /\ v[2] \in Seq(Range(v[2]))
                         /\ \A i \in DOMAIN v[2] : v[2][i][2][1] \in Types
Paired(v) == v = <<v[1], v[2]>>
IsInput(v) ==
    /\ Typed(v) /\ IsValue(v) /\ Paired(v)
    /\ v[1] = "array" => v[2] \in Seq(Range(v[2])) /\ \A i \in DOMAIN v[2] : Paired(v[2][i])
    /\ v[1] = "object" => \A i \in DOMAIN v[2] : Paired(v[2][i]) /\ Paired(v[2][i][2])
\* The limits of an integer type that is no wider than integer_t.
HasLimits(part) == part.lo \in -Half .. 0 /\ part.hi \in 1 .. 2 * Half - 1
ASSUME ScenarioAssumption ==
    \A s \in Scenarios :
        /\ Len(s.kind) \in {1, 2} /\ DOMAIN s.kind = 1 .. Len(s.kind)
        /\ \A i \in DOMAIN s.kind :
              /\ s.kind[i].of \in {"narrow", "integer", "real", "string", "boolean"}
              /\ s.kind[i].in \in {"plain", "optional", "pointer"}
              /\ s.kind[i].of = "narrow" => HasLimits(s.kind[i])
        /\ \A v \in s.inputs : IsInput(v)
        /\ \A ms \in s.objects :
              /\ Typed(<<"object", ms>>)
              /\ \A i \in DOMAIN ms : ms[i][1] \in Names /\ IsInput(ms[i][2])
ASSUME NameAssumption == "" \notin Names
ASSUME RoomAssumption == MaxRoom \in Nat

VARIABLES
    scenario,           \* kind, the type of the variable; inputs and objects
                        \* that the program has; most, a bound on the members
    target              \* the variable: what its parts hold

vars == <<members, room, held, outcome, scenario, target>>

kind == scenario.kind

Zero(of) == CASE of = "real" -> <<"real", <<0, 0>>>>
              [] of = "string" -> <<"string", <<>>>>
              [] of = "boolean" -> <<"boolean", FALSE>>
              [] OTHER -> <<"integer", 0>>
Init ==
    /\ ObjectInit
    /\ scenario \in Scenarios
    /\ target \in [DOMAIN scenario.kind -> {Nothing} \cup {Zero(scenario.kind[i].of) : i \in DOMAIN scenario.kind}]
    /\ \A i \in DOMAIN target :
          target[i] = Zero(kind[i].of) \/ (kind[i].in # "plain" /\ target[i] = Nothing)

Convert(v) ==
    /\ \E o \in JsonToValue(kind, target, v) : target' = o.to /\ outcome' = o.how
    /\ UNCHANGED object

\* json_to_value( variable, x )
ConvertHeld(r) == IsLive(r) /\ Convert(ValueOf(r))

\* json_to_value( variable, std::as_const( object )[name] )
ConvertMember(n) ==
    \/ HasMember(members, n) /\ Convert(members[Find(members, n)][2])
    \/ ~HasMember(members, n) /\ outcome' = "threw" /\ UNCHANGED <<object, target>>

\* json_to_value( variable, json_value_t( object ) )
ConvertObject == Convert(<<"object", members>>)

Writable == Len(kind) = 1 /\ kind[1].in # "pointer"

\* x = parse_json( value_to_json( "", variable ) )
Save(r) ==
    /\ Writable /\ Assign(r, Reread(target[1]))
    /\ target[1][1] = "string" => Len(Escape(target[1][2])) <= MaxString
    /\ UNCHANGED target

\* x = parse_json( value_to_json( "", std::vector( n, variable ) ) )
SaveList(r, n) ==
    /\ Writable /\ Assign(r, RereadList([i \in 1 .. n |-> AsElement(kind[1], target[1])]))
    /\ target[1][1] = "string" => Len(Escape(target[1][2])) <= MaxString
    /\ UNCHANGED target

\* value_to_json( "", variable ) of a null shared_ptr
WriteNull ==
    /\ Len(kind) = 1 /\ kind[1].in = "pointer" /\ target[1] = Nothing
    /\ outcome' = "undefined" /\ UNCHANGED <<object, target>>

Change ==
    \/ \E r \in Refs, n \in Names : Subscript(r, n)
    \/ \E n \in Names, v \in scenario.inputs : PushBack(n, v)
    \/ ShrinkToFit
    \/ \E r \in Refs, v \in scenario.inputs : Assign(r, v)
    \/ \E r, q \in Refs : Copy(r, q)
    \/ \E r \in Refs : UseStale(r)
    \/ \E ms \in scenario.objects : Replace(ms)

Next ==
    /\ outcome # "undefined" /\ UNCHANGED scenario
    /\ \/ Change /\ UNCHANGED target
       \/ \E r \in Refs : ConvertHeld(r)
       \/ \E n \in Names : ConvertMember(n)
       \/ ConvertObject
       \/ \E r \in Refs : Save(r)
       \/ \E r \in Refs, n \in 0 .. MaxList : SaveList(r, n)
       \/ WriteNull
    /\ Len(members') <= scenario.most

Spec == Init /\ [][Next]_vars
-----------------------------------------------------------------------------
\* The object, its references and the variable hold what their types allow,
\* an integer of a narrow type no value beyond its limits.
TypeOK ==
    /\ ObjectTypeOK
    /\ scenario \in Scenarios
    /\ \A i \in DOMAIN kind :
          \/ target[i] = Nothing /\ kind[i].in # "plain"
          \/ /\ IsScalar(target[i]) /\ target[i][1] = Zero(kind[i].of)[1]
             /\ kind[i].of = "narrow" => target[i][2] \in kind[i].lo .. kind[i].hi

FirstNamed(ms, n) == CHOOSE i \in DOMAIN ms : /\ ms[i][1] = n
                                                 /\ \A j \in 1 .. i - 1 : ms[j][1] # n

\* However members were added meanwhile, under names already there or not,
\* and storage was moved: a reference that operator[] gave and that is still
\* valid is to the member that a search for its name finds now.
HeldIsFound ==
    \A r \in Refs : IsLive(r) =>
        members[held[r].at][1] = held[r].name /\ held[r].at = FirstNamed(members, held[r].name)

Absent == <<"absent", "absent">>
Lost == ""
ValueOfName == [n \in Names |-> IF \E i \in DOMAIN members : members[i][1] = n
                                THEN members[FirstNamed(members, n)][2] ELSE Absent]
NameOfRef == [r \in Refs |-> IF held[r].is = "live" THEN held[r].name ELSE Lost]
NM == INSTANCE NameMap WITH map <- ValueOfName, refs <- NameOfRef

\* json_object_value implements the map from names to values that it is
\* used as, with references that may be lost and never change their name.
IsNameMap == NM!Spec

\* Two values of the object that compare takes for equal are the same, of
\* the same type, unless a string with a quote in it is among them, or a
\* real that six digits do not hold.
EqualMeansSame ==
    \A r, q \in Refs : IsLive(r) /\ IsLive(q) =>
        (Plain(ValueOf(r)) /\ Plain(ValueOf(q)) /\ SameText(ValueOf(r), ValueOf(q))
            => ValueOf(r) = ValueOf(q))
-----------------------------------------------------------------------------
\* What x says of a part of the variable is what v says, by the true limits
\* of its type.
Says(part, x, v) ==
    CASE v[1] = "null" -> x = Nothing
      [] v[1] = "integer" /\ part.of = "real" -> x = <<"real", <<Unit * v[2], 0>>>>
      [] OTHER -> x = v /\ (part.of = "narrow" => v[2] \in part.lo .. part.hi)

\* A conversion that returns has made the variable say what the value says,
\* none of it cut off at a limit of the type, or the variable is an optional
\* that was empty and stays so.
ConversionIsExact ==
    [][\A r \in Refs : ConvertHeld(r) /\ outcome' = "ok" /\ Len(kind) = 1 =>
          \/ Says(kind[1], target'[1], ValueOf(r))
          \/ kind[1].in = "optional" /\ target[1] = Nothing /\ target'[1] = Nothing]_vars

\* Reasons to refuse v: the pointer is null; or v is of another type, and no
\* null for an optional or a pointer, it is beyond the limits of the type, of
\* a type with a limit that integer_t cannot hold, or the empty string.
MayRefuse(part, old, v) ==
    \/ part.in = "pointer" /\ old = Nothing
    \/ /\ part.in = "plain" \/ v # Null
       /\ CASE part.of = "narrow" ->
                  v[1] # "integer" \/ v[2] \notin part.lo .. part.hi \/ part.hi >= Half
            [] part.of = "real" -> v[1] \notin {"integer", "real"}
            [] OTHER -> v[1] # part.of \/ v = <<"string", <<>>>>

\* A conversion that throws had a reason to: it takes every value that the
\* type can hold.
RefusalHasReason ==
    [][\A r \in Refs : ConvertHeld(r) /\ outcome' = "threw" /\ Len(kind) = 1 =>
          MayRefuse(kind[1], target[1], ValueOf(r))]_vars

\* A conversion that throws leaves the variable as it was, whichever part of
\* it could be read.
FailureKeepsTarget == [][outcome' = "threw" => target' = target]_vars

\* Once a null has emptied an optional or a shared_ptr, no value of the
\* object, read alone or in a pair, is ever put into it again.
EmptyIsNeverFilled ==
    [][\A i \in DOMAIN kind : target[i] = Nothing => target'[i] = Nothing]_vars
-----------------------------------------------------------------------------
Portable(part, x) ==
    x # Nothing =>
        /\ part.of = "narrow" => part.hi < Half
        /\ x[1] = "string" => x[2] # <<>> /\ Range(x[2]) \subseteq {"x", "n"}
        /\ ~LeavesExponent(x)

\* What the program saves, alone or in a list, can be converted back to it,
\* unless it is a string that is empty or has a character that is escaped, a
\* real that is written with an exponent and without a point, or of an integer
\* type with a limit that integer_t cannot hold.  But numbers in a list, other
\* than in optionals, are written as booleans, which no number takes.
SavedComesBack ==
    [][\A r \in Refs : Portable(kind[1], target[1]) =>
          LET comesBack(v) == JsonToValue(kind, target, v) = {Ok(target)}
              isRefused(v) == JsonToValue(kind, target, v) = {Threw(target)}
          IN /\ Save(r) => comesBack(ValueOf(r)')
             /\ \A n \in 0 .. MaxList : SaveList(r, n) =>
                   LET list == ValueOf(r)'
                   IN list[1] = "array" /\ Len(list[2]) = n
                         /\ \A i \in 1 .. n : IF IsNumber(kind[1]) THEN isRefused(list[2][i])
                                                                   ELSE comesBack(list[2][i])]_vars

Unescaped(s) ==
    LET from[i \in 1 .. Len(s) + 1] ==
          IF i = Len(s) + 1 THEN <<>>
          ELSE IF s[i] = "slash" /\ i < Len(s)
               THEN <<IF s[i + 1] = "n" THEN "newline" ELSE s[i + 1]>> \o from[i + 2]
               ELSE <<s[i]>> \o from[i + 1]
    IN from[1]

\* parse_json keeps the escapes of value_to_json in a string, so that each
\* save makes it longer; but no character is lost in it: with the escapes of
\* one save undone it is the string that was saved.
EscapesAreKept ==
    [][\A r \in Refs : Save(r) /\ target[1][1] = "string" =>
          LET v == ValueOf(r)'
          IN v[1] = "string" /\ Unescaped(v[2]) = target[1][2]]_vars
=============================================================================
