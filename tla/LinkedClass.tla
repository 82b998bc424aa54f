----------------------------- MODULE LinkedClass -----------------------------
(***************************************************************************)
(* A program that reads and writes an object of a linked class, one that   *)
(* inherits from json_link (include/daw/json/daw_json_link.h): the static  *)
(* map of each class, filled by map_to_json on first use; the loops that   *)
(* hand each member to its converter, through members that are linked      *)
(* classes themselves; and what a call that throws leaves behind.          *)
(*                                                                         *)
(* A JSON value is a pair of its type and its content: the content of an   *)
(* array is a sequence of values, that of an object a sequence of pairs of *)
(* a name and a value, in which names may repeat.  An object of the        *)
(* program maps the path of each member that is not itself linked, through *)
(* the names of the members around it, to what it holds.                   *)
(***************************************************************************)
EXTENDS Integers, SequencesExt

CONSTANTS
    Classes,        \* the linked classes
    Root,           \* the class of the program's object
    Links,          \* Links[c]: what map_to_json of c links, in its order
    Half,           \* an integer member holds -Half .. Half - 1
    Unit, Step,     \* reals are counted in units, Unit of them to 1, and are
                    \* printed with six digits: to a multiple of Step
    Fresh,          \* what the default constructor gives each path
    Objects,        \* what the program's object may be at first
    Values,         \* JSON values, with the values that are in them
    Inputs          \* Inputs[n]: what call n may be given to read; the program
                    \* makes as many calls as there are entries

Scalars == {"integer", "real", "string", "boolean"}

ASSUME LinksAssumption ==
    /\ IsFiniteSet(Classes) /\ Root \in Classes /\ Classes \cap Scalars = {}
    /\ \A c \in Classes : Links[c] \in
           Seq([name : STRING, kind : Scalars \cup Classes, array : BOOLEAN])
    /\ \A c \in Classes : \A i, j \in DOMAIN Links[c] :
           Links[c][i].name = Links[c][j].name => i = j
ASSUME BoundAssumption ==
    Half \in Nat \ {0} /\ Unit \in Nat \ {0} /\ Step \in Nat \ {0} /\ Len(Inputs) \in Nat

\* A value of each type, whose parts are in S.
Shaped(v, S) ==
    \/ v = <<"null", "null">>
    \/ v[1] \in {"integer", "real"} /\ v[2] \in Int
    \/ v[1] = "boolean" /\ v[2] \in BOOLEAN
    \/ v[1] = "string" /\ v[2] \in STRING
    \/ v[1] = "array" /\ v[2] \in Seq(S)
    \/ v[1] = "object" /\ v[2] \in Seq(STRING \X S)
ASSUME ValuesAssumption ==
    /\ \A v \in Values : Shaped(v, Values)
    /\ \A n \in 1 .. Len(Inputs) : Inputs[n] \subseteq Values

VARIABLES
    registered,     \* how many members get_map( ) of each class holds
    op,             \* the function that was called last
    json,           \* the value it reads
    calls,          \* its active calls, the innermost one last
    result,         \* the object that from_json_value makes
    object,         \* the program's object
    list,           \* and its vector of objects
    before,         \* what it was when the call began
    text,           \* what to_json_string gave last, and of which object
    status,         \* "running", or how the last call ended
    made            \* the number of calls made

program == <<object, list, before, text>>
vars == <<registered, op, json, calls, result, program, status, made>>
-----------------------------------------------------------------------------
\* Links and paths.

LinkOf(c, name) == CHOOSE l \in Range(Links[c]) : l.name = name

\* The names in the map of c.
Known(c) == {Links[c][i].name : i \in 1 .. registered[c]}

RootLink == [name |-> "", kind |-> Root, array |-> FALSE]
MembersOf(m) == {<<Append(m[1], l.name), l>> : l \in Range(Links[m[2].kind])}
Inside[depth \in 0 .. Cardinality(Classes)] ==
    IF depth = 0 THEN {<<<<>>, RootLink>>}
    ELSE UNION {MembersOf(m) : m \in {m \in Inside[depth - 1] : m[2].kind \in Classes}}
Members == UNION {Inside[depth] : depth \in 0 .. Cardinality(Classes)}
Paths == {m[1] : m \in {m \in Members : m[2].kind \notin Classes}}
LinkAt(p) == (CHOOSE m \in Members : m[1] = p)[2]

\* No class has itself for a member, or for a member of one of its members.
ASSUME NestingAssumption == \A m \in Inside[Cardinality(Classes)] : m[2].kind \notin Classes

\* What the members of an object hold.
HeldBy(kind) ==
    CASE kind = "integer" -> -Half .. Half - 1
      [] kind = "real" -> Int
      [] kind = "boolean" -> BOOLEAN
      [] OTHER -> STRING
Holds(o) ==
    /\ DOMAIN o = Paths
    /\ \A p \in Paths :
           o[p] \in IF LinkAt(p).array THEN Seq(HeldBy(LinkAt(p).kind)) ELSE HeldBy(LinkAt(p).kind)
ASSUME ObjectsAssumption == Holds(Fresh) /\ \A o \in Objects : Holds(o)
-----------------------------------------------------------------------------
\* What one member makes of a value.

Fits(n) == -Half <= n /\ n < Half
Narrow(n) == ((n + Half) % (2 * Half)) - Half

\* The getters of json_value_t that do not throw: get_string refuses "".
TakesOne(kind, v) ==
    CASE kind = "real" -> v[1] \in {"integer", "real"}
      [] kind = "string" -> v[1] = "string" /\ v[2] # "empty"
      [] OTHER -> v[1] = kind
HeldOne(kind, v) ==
    CASE kind = "integer" -> Narrow(v[2])
      [] kind = "real" /\ v[1] = "integer" -> Unit * v[2]
      [] OTHER -> v[2]

\* copy_array clears the member and then copies up to an element that throws.
Copied(link, v) ==
    LET good == {n \in 0 .. Len(v[2]) : \A i \in 1 .. n : TakesOne(link.kind, v[2][i])}
    IN [i \in 1 .. Max(good) |-> HeldOne(link.kind, v[2][i])]

Takes(link, v) ==
    IF link.array THEN v[1] = "array" /\ \A i \in DOMAIN v[2] : TakesOne(link.kind, v[2][i])
    ELSE TakesOne(link.kind, v)
Held(link, v) == IF link.array THEN Copied(link, v) ELSE HeldOne(link.kind, v)

PrintedAsReal(kind, x) ==       \* mutant: an integer is printed as a real is
    <<IF kind = "integer" THEN "real" ELSE kind, x>>

\* What parse_json makes of the text printed for a member.  No character is
\* escaped: a "broken" string has a quote in it or ends in a backslash.
PrintedOne(kind, x) ==
    <<kind, IF kind = "real" THEN Step * ((x + Step \div 2) \div Step) ELSE x>>
Printed(link, x) ==
    IF link.array THEN <<"array", [i \in DOMAIN x |-> PrintedOne(link.kind, x[i])]>>
    ELSE PrintedOne(link.kind, x)
Breaks(link, x) == link.kind = "string" /\ "broken" \in (IF link.array THEN Range(x) ELSE {x})
-----------------------------------------------------------------------------
\* Calls.

Frame(at, c, path, rest) == [at |-> at, class |-> c, path |-> path, rest |-> rest, out |-> <<>>]

Init ==
    /\ registered = [c \in Classes |-> 0]
    /\ op = "none" /\ json = <<"null", "null">> /\ calls = <<>> /\ result = Fresh
    /\ object \in Objects /\ before = object /\ list = <<>>
    /\ text = [json |-> <<"none", "none">>, of |-> object]
    /\ status = "returned" /\ made = 0

Idle == status \in {"returned", "threw"} /\ made < Len(Inputs)

Call(name, v, frame) ==
    /\ op' = name /\ json' = v /\ calls' = <<frame>>
    /\ result' = Fresh /\ before' = object
    /\ status' = "running" /\ made' = made + 1
    /\ UNCHANGED <<registered, object, list, text>>

Reading(v) == Frame("from_json_value", Root, <<>>, <<v>>)

\* Also from_file, when the file is there.
FromJsonValue == \E v \in Inputs[made + 1] : Call("from_json_value", v, Reading(v))
FromJsonString == text.json[1] # "none" /\ Call("from_json_string", text.json, Reading(text.json))
ReadStream == \E v \in Inputs[made + 1] : Call("operator>>", v, Reading(v))
FromJsonObject ==
    \E v \in Inputs[made + 1] :
        v[1] = "object" /\ Call("from_json_object", v, Frame("items", Root, <<>>, v[2]))
ToJsonString == Call("to_json_string", <<"null", "null">>, Frame("to_json_string", Root, <<>>, <<>>))

\* Also array_from_file, when the file is there.
ArrayFromJsonValue ==
    \E v \in Inputs[made + 1] :
        Call("array_from_json_value", v,
             Frame("elements", Root, <<>>, IF v[1] = "array" THEN v[2] ELSE <<>>))

\* With use_default_on_error, or without, when the file is not there.
MissingFile(name) ==
    /\ op' = name /\ json' = <<"missing", "missing">> /\ calls' = <<>>
    /\ result' = Fresh /\ before' = object /\ made' = made + 1
    /\ status' \in {"returned", "threw"} /\ UNCHANGED <<registered, text>>
FromMissingFile ==
    /\ MissingFile("from_file") /\ UNCHANGED list
    /\ object' = IF status' = "returned" THEN Fresh ELSE object
ArrayFromMissingFile ==
    /\ MissingFile("array_from_file") /\ UNCHANGED object
    /\ list' = IF status' = "returned" THEN <<>> ELSE list

Top == Last(calls)
At(place) == status = "running" /\ Top.at = place
Replace(frame) == calls' = Append(Front(calls), frame)
Advanced(frame) == [frame EXCEPT !.rest = Tail(@)]

Stop(how) == status' = how /\ calls' = <<>> /\ UNCHANGED <<op, json, list, before, made>>
Go == UNCHANGED <<op, json, list, before, status, made>>

AssignInPlace(path, x) ==       \* mutant: the program's own object is read into
    object' = [object EXCEPT ![path] = x] /\ UNCHANGED result

\* A member is assigned in the object that from_json_object was given, or in
\* the one that from_json_value has on its stack.
Assign(path, x) ==
    IF op = "from_json_object"
    THEN object' = [object EXCEPT ![path] = x] /\ UNCHANGED result
    ELSE result' = [result EXCEPT ![path] = x] /\ UNCHANGED object
-----------------------------------------------------------------------------
\* check_json_maps, wherever get_json_maps or has_key is called.

AsksForMap ==
    /\ status = "running"
    /\ \/ Top.at = "from_json_value" /\ Top.rest[1][1] = "object"
       \/ Top.at = "to_json_string"
       \/ Top.at = "items" /\ Top.rest # <<>>

Unregistered == registered[Top.class] = 0 /\ Links[Top.class] # <<>>
HasMap == AsksForMap /\ ~Unregistered

RegisterOneMore ==      \* mutant: the map gets an entry that is not linked
    /\ AsksForMap /\ Unregistered
    /\ registered' = [registered EXCEPT ![Top.class] = Len(Links[Top.class]) + 1]
    /\ Go /\ UNCHANGED <<calls, result, object, text>>

Register ==
    /\ AsksForMap /\ Unregistered
    /\ registered' = [registered EXCEPT ![Top.class] = Len(Links[Top.class])]
    /\ Go /\ UNCHANGED <<calls, result, object, text>>

\* map_to_json is the class's own code and allocates: it may throw before any
\* of its members is linked, and what is linked stays.
RegisterThrows ==
    /\ AsksForMap /\ Unregistered
    /\ \E n \in 0 .. Len(Links[Top.class]) - 1 :
           registered' = [registered EXCEPT ![Top.class] = n]
    /\ Stop("threw") /\ UNCHANGED <<result, object, text>>
-----------------------------------------------------------------------------
\* Reading.

LastNamed(members, name) ==         \* mutant: the search starts from the back
    LET named == {i \in DOMAIN members : members[i][1] = name}
    IN IF named = {} THEN <<"missing", "missing">> ELSE members[Max(named)][2]

\* json_object_value::find gives the first of the name, or end( ).
Find(members, name) ==
    LET named == {i \in DOMAIN members : members[i][1] = name}
    IN IF named = {} THEN <<"missing", "missing">> ELSE members[Min(named)][2]

\* from_json_value goes through the map, whose order is not specified.
StartReading ==
    /\ At("from_json_value") /\ HasMap
    /\ \E order \in SetToSeqs(Known(Top.class)) :
           Replace(Frame("items", Top.class, Top.path,
                         [i \in DOMAIN order |-> <<order[i], Find(Top.rest[1][2], order[i])>>]))
    /\ Go /\ UNCHANGED <<registered, result, object, text>>

NotAnObject ==
    /\ At("from_json_value") /\ Top.rest[1][1] # "object"
    /\ Stop("threw") /\ UNCHANGED <<registered, result, object, text>>

Name == Head(Top.rest)[1]
Value == Head(Top.rest)[2]
Path == Append(Top.path, Name)
Link == LinkOf(Top.class, Name)
AtItem == At("items") /\ Top.rest # <<>> /\ HasMap
AtLinked == AtItem /\ Name \in Known(Top.class) /\ Value[1] # "missing"

SkipsNone ==        \* mutant: a member that is not linked is looked at again
    /\ AtItem /\ Name \notin Known(Top.class)
    /\ Go /\ UNCHANGED <<registered, calls, result, object, text>>

SkipRefuses ==      \* mutant: a member that is not linked is refused
    /\ AtItem /\ Name \notin Known(Top.class)
    /\ Stop("threw") /\ UNCHANGED <<registered, result, object, text>>

\* Only from_json_object meets names that are not linked.
SkipUnlinked ==
    /\ AtItem /\ Name \notin Known(Top.class)
    /\ Replace(Advanced(Top))
    /\ Go /\ UNCHANGED <<registered, result, object, text>>

\* from_json_value uses what find gave without a test against end( ).
UseMissing ==
    /\ AtItem /\ Value[1] = "missing"
    /\ Stop("undefined") /\ UNCHANGED <<registered, result, object, text>>

ReadMember ==
    /\ AtLinked /\ Link.kind \notin Classes /\ Takes(Link, Value)
    /\ Assign(Path, Held(Link, Value))
    /\ Replace(Advanced(Top))
    /\ Go /\ UNCHANGED <<registered, text>>

ReadNested ==
    /\ AtLinked /\ Link.kind \in Classes /\ Value[1] = "object"
    /\ calls' = Front(calls) \o <<Advanced(Top), Frame("items", Link.kind, Path, Value[2])>>
    /\ Go /\ UNCHANGED <<registered, result, object, text>>

\* assert( can_fit ) of an integer that is not in an array, unless the build
\* defines NDEBUG.
FailAssertion ==
    /\ AtLinked /\ Link.kind = "integer" /\ ~Link.array
    /\ Takes(Link, Value) /\ ~Fits(Value[2])
    /\ Stop("aborted") /\ UNCHANGED <<registered, result, object, text>>

RefuseMemberResets ==       \* mutant: a member that is refused is constructed anew
    /\ AtLinked /\ Link.kind \notin Classes /\ ~Takes(Link, Value)
    /\ Assign(Path, Fresh[Path])
    /\ Stop("threw") /\ UNCHANGED <<registered, text>>

RefuseMember ==
    /\ AtLinked /\ Link.kind \notin Classes /\ ~Takes(Link, Value)
    /\ IF Link.array /\ Value[1] = "array" THEN Assign(Path, Copied(Link, Value))
                                          ELSE UNCHANGED <<result, object>>
    /\ Stop("threw") /\ UNCHANGED <<registered, text>>

RefuseNested ==
    /\ AtLinked /\ Link.kind \in Classes /\ Value[1] # "object"
    /\ Stop("threw") /\ UNCHANGED <<registered, result, object, text>>

\* An object that is the value of a member, not one that is an element.
EndNested ==
    /\ At("items") /\ Top.rest = <<>>
    /\ Len(calls) > 1 /\ calls[Len(calls) - 1].at = "items"
    /\ calls' = Front(calls)
    /\ Go /\ UNCHANGED <<registered, result, object, text>>

\* operator>> assigns what was read to the json_link in the object, which has
\* no members: the object keeps its own.
EndReading ==
    /\ At("items") /\ Top.rest = <<>> /\ Len(calls) = 1
    /\ object' = IF op \in {"from_json_value", "from_json_string"} THEN result ELSE object
    /\ Stop("returned") /\ UNCHANGED <<registered, result, text>>
-----------------------------------------------------------------------------
\* Reading an array of objects, each into an object of its own.

NotAnArray ==
    /\ At("elements") /\ json[1] # "array"
    /\ Stop("threw") /\ UNCHANGED <<registered, result, object, text>>

ReadElementOver ==      \* mutant: all elements are read into one object
    /\ At("elements") /\ Top.rest # <<>>
    /\ calls' = <<Advanced(Top), Reading(Head(Top.rest))>>
    /\ Go /\ UNCHANGED <<registered, result, object, text>>

ReadElement ==
    /\ At("elements") /\ Top.rest # <<>>
    /\ calls' = <<Advanced(Top), Reading(Head(Top.rest))>> /\ result' = Fresh
    /\ Go /\ UNCHANGED <<registered, object, text>>

EndElement ==
    /\ At("items") /\ Top.rest = <<>>
    /\ Len(calls) = 2 /\ calls[1].at = "elements"
    /\ calls' = <<[calls[1] EXCEPT !.out = Append(@, result)]>>
    /\ Go /\ UNCHANGED <<registered, result, object, text>>

EndElements ==
    /\ At("elements") /\ json[1] = "array" /\ Top.rest = <<>>
    /\ list' = Top.out /\ status' = "returned" /\ calls' = <<>>
    /\ UNCHANGED <<registered, op, json, result, object, before, text, made>>
-----------------------------------------------------------------------------
\* Writing.

StartWriting ==
    /\ At("to_json_string") /\ HasMap
    /\ \E order \in SetToSeqs(Known(Top.class)) :
           Replace(Frame("names", Top.class, Top.path, [i \in DOMAIN order |-> <<order[i]>>]))
    /\ Go /\ UNCHANGED <<registered, result, object, text>>

Wrote(frame, v) == [Advanced(frame) EXCEPT !.out = Append(@, <<Head(frame.rest)[1], v>>)]

WriteMember ==
    /\ At("names") /\ Top.rest # <<>> /\ Link.kind \notin Classes
    /\ Replace(Wrote(Top, Printed(Link, object[Path])))
    /\ Go /\ UNCHANGED <<registered, result, object, text>>

WriteNested ==
    /\ At("names") /\ Top.rest # <<>> /\ Link.kind \in Classes
    /\ calls' = Append(calls, Frame("to_json_string", Link.kind, Path, <<>>))
    /\ Go /\ UNCHANGED <<registered, result, object, text>>

EndNestedText ==
    /\ At("names") /\ Top.rest = <<>> /\ Len(calls) > 1
    /\ calls' = Append(Front(Front(calls)), Wrote(Last(Front(calls)), <<"object", Top.out>>))
    /\ Go /\ UNCHANGED <<registered, result, object, text>>

\* The members on the path are all in the maps of their classes.
Linked(p) ==
    \A i \in DOMAIN p : p[i] \in Known(LinkAt(SubSeq(p, 1, i - 1)).kind)

\* A text with a broken string in it is not parsed, and is null to its reader.
EndWriting ==
    /\ At("names") /\ Top.rest = <<>> /\ Len(calls) = 1
    /\ text' = [json |-> IF \E p \in Paths : Linked(p) /\ Breaks(LinkAt(p), object[p])
                         THEN <<"null", "null">> ELSE <<"object", Top.out>>,
                of |-> object]
    /\ Stop("returned") /\ UNCHANGED <<registered, result, object>>
-----------------------------------------------------------------------------
\* The program's calls, and the steps of a call.
Start ==
    /\ Idle
    /\ \/ FromJsonValue \/ FromJsonString \/ ReadStream \/ FromJsonObject \/ ToJsonString
       \/ ArrayFromJsonValue \/ FromMissingFile \/ ArrayFromMissingFile
Proceed ==
    \/ Register \/ RegisterThrows
    \/ StartReading \/ NotAnObject
    \/ SkipUnlinked \/ UseMissing \/ ReadMember \/ ReadNested
    \/ FailAssertion \/ RefuseMember \/ RefuseNested
    \/ EndNested \/ EndReading
    \/ NotAnArray \/ ReadElement \/ EndElement \/ EndElements
    \/ StartWriting \/ WriteMember \/ WriteNested \/ EndNestedText \/ EndWriting
Next == Start \/ Proceed

Spec == Init /\ [][Next]_vars /\ WF_vars(Proceed)
-----------------------------------------------------------------------------
\* What the members make of a value, without the loops: the values that the
\* members of an object, and of the objects in it, give for a path.

Named(v, name) ==
    IF v[1] # "object" THEN <<>>
    ELSE FlattenSeq([i \in DOMAIN v[2] |-> IF v[2][i][1] = name THEN <<v[2][i][2]>> ELSE <<>>])
Mentions(v, p) ==
    LET upto[n \in 0 .. Len(p)] ==
            IF n = 0 THEN <<v>>
            ELSE LET vs == upto[n - 1] IN FlattenSeq([i \in DOMAIN vs |-> Named(vs[i], p[n])])
    IN upto[Len(p)]

\* The object v with no member but the first of that name.
FirstOf(v, name) ==
    LET named == {i \in DOMAIN v[2] : v[2][i][1] = name}
    IN <<v[1], IF named = {} THEN <<>> ELSE <<v[2][Min(named)]>>>>
Meaning(v, p, old) ==
    IF Linked(p) /\ Mentions(v, p) # <<>> THEN Held(LinkAt(p), Last(Mentions(v, p))) ELSE old[p]

Places == {"from_json_value", "items", "elements", "to_json_string", "names"}
Operations == {"none", "from_json_value", "from_json_string", "operator>>",
               "from_json_object", "array_from_json_value", "from_file",
               "array_from_file", "to_json_string"}

\* Every variable stays in its set: an integer member in its width, and a map
\* within what its class links.
TypeOK ==
    /\ \A c \in Classes : registered[c] \in 0 .. Len(Links[c])
    /\ op \in Operations /\ status \in {"running", "returned", "threw", "aborted", "undefined"}
    /\ \A i \in DOMAIN calls : calls[i].at \in Places /\ calls[i].class \in Classes
    /\ status = "running" <=> calls # <<>>
    /\ Holds(object) /\ Holds(result) /\ \A i \in DOMAIN list : Holds(list[i])
    /\ made \in 0 .. Len(Inputs)

\* A read that returns leaves in each linked member what its text says:
\* from_json_value the value of the first member of each name, from_json_object
\* that of the last mention, also within objects in it that repeat; a member
\* that is not mentioned keeps the constructor's or its own, and a file that is
\* not there leaves the constructor's.  Writing, reading through operator>> and
\* reading a vector change nothing.
ReadsWhatIsSaid ==
    status = "returned" =>
        \A p \in Paths : object[p] =
            CASE op \in {"from_json_value", "from_json_string"} -> Meaning(FirstOf(json, p[1]), p, Fresh)
              [] op = "from_json_object" -> Meaning(json, p, before)
              [] op = "from_file" -> Fresh[p]
              [] OTHER -> before[p]

\* array_from_json_value returns one object for each element, in their order,
\* with what that element says: no member is left from an element before it,
\* also where an object within an element says less than the one before did.
ElementsAreTheirOwn ==
    status = "returned" /\ op = "array_from_json_value" =>
        /\ Len(list) = Len(json[2])
        /\ \A i \in DOMAIN list : \A p \in Paths :
               list[i][p] = Meaning(FirstOf(json[2][i], p[1]), p, Fresh)

Failed == status \in {"threw", "aborted", "undefined"}

\* A call that does not return leaves the program's object as it was, however
\* far it got, unless the object was handed to from_json_object itself.
FailureKeepsObject == Failed /\ op # "from_json_object" => object = before

\* When from_json_object fails, each member has what it had, or a value that
\* the text gives it, an array up to the element that was refused.
FailureLeavesMembers ==
    Failed /\ op = "from_json_object" =>
        \A p \in Paths :
            \/ object[p] = before[p]
            \/ \E i \in DOMAIN Mentions(json, p) :
                   object[p] = Held(LinkAt(p), Mentions(json, p)[i])

\* The values that a call reads an object from.
Sources == IF op = "array_from_json_value" /\ json[1] = "array" THEN Range(json[2]) ELSE {json}

\* map_to_json of the class whose map is asked for, none of whose members was
\* linked, does not get to its last one.
MapThrows ==
    AsksForMap /\ registered[Top.class] = 0 /\ registered'[Top.class] < Len(Links[Top.class])

\* An object cannot be made of v: it is no object, or it gives to a member that
\* is linked, through members that are, a value that is no object where one is
\* needed or that the getter of the member refuses.
Unreadable(v) ==
    \E m \in Members : Linked(m[1]) /\ \E x \in Range(Mentions(v, m[1])) :
        IF m[2].kind \in Classes THEN x[1] # "object" ELSE ~Takes(m[2], x)

\* A step that throws has its reason at that moment: a map_to_json that throws,
\* a file that is not there, a value that is no array where one is asked for, or
\* one that no object can be made of.  to_json_string throws only for the first.
\* A call runs into end( ) only for a linked name that the object does not have.
HasReason ==
    /\ status' = "threw" =>
          \/ MapThrows
          \/ op' \in {"from_file", "array_from_file"}
          \/ op' = "array_from_json_value" /\ json'[1] # "array"
          \/ op' # "to_json_string" /\ \E v \in Sources' : Unreadable(v)
    /\ status' = "undefined" =>
          \E v \in Sources, name \in Known(Root) : Mentions(v, <<name>>) = <<>>
FailureHasReason == [][HasReason]_vars

\* A real with more than six digits behind its point is not printed in full,
\* and an empty string, or one that needs escapes, is not read back.
PortableOne(kind, x) ==
    CASE kind = "real" -> x % Step = 0
      [] kind = "string" -> x \notin {"empty", "broken"}
      [] OTHER -> TRUE
Portable(o) ==
    \A p \in Paths :
        IF LinkAt(p).array THEN \A i \in DOMAIN o[p] : PortableOne(LinkAt(p).kind, o[p][i])
                           ELSE PortableOne(LinkAt(p).kind, o[p])

\* What was written comes back: from_json_string of the text of an object of
\* portable values returns that object.
ComesBack(o) ==
    status # "running" /\ op = "from_json_string" =>
        /\ status = "returned"
        /\ \A p \in Paths : object[p] = IF Linked(p) THEN o[p] ELSE Fresh[p]
PortableComesBack == Portable(text.of) => ComesBack(text.of)

\* What was written comes back, whatever the members hold: the library is for
\* "serialization/deserialization", with JSON as the transport medium.
AllComesBack == ComesBack(text.of)

\* Every call ends: a loop moves on to its next member at each turn.
Termination == status = "running" ~> status # "running"
=============================================================================
