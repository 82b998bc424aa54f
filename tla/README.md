# Verification of parse_json

TLA+ modules for the C++ library in `src/`: models of its parts, TLC runs that
check them on small instances, and proofs that TLAPS checks for every value of
their constants. `PROJECT.json` lists the components, the runs, the mutated
definitions that each property must refuse, the source lines of every
definition, the hazards and the theorems.

    tlc -workers 2 -config EventParserStructure.cfg MCEventParser    # a run
    tlapm EventParserProofs.tla                                      # a proof

## The system

| part | source | state | operations |
|---|---|---|---|
| state machine | `src/src/daw_json_parser_v2_state.cpp`, `daw_json_parser_v2_state.h` | one static `std::vector<state_t *>` for the whole process, never reset; a buffer per `state_control_t` | nine `on_*` events, `push`, `clear_buffer` |
| event parser | `src/include/daw/json/daw_json_parser_impl.h`, `daw_json_parser_v2.h` | iterator, recursion, `in_slash`; drives any `State` | `json_parser` and its `parse_*` functions |
| tree parser | `src/src/daw_json_parser.cpp` | a `utf_range` that shrinks from the front | `parse_json` |
| values | `src/src/daw_json_value_t.cpp`, `daw_json_value_t.h` | a variant; an object is a vector of members in the order they came, names may repeat | getters that throw on another type, `find`, `operator[]`, `compare` |
| linked classes | `src/include/daw/json/daw_json_link.h` | one static map from names to converters per class, filled on first use | `json_link_*_fn`, `to_json_string`, `from_json_value`, `from_json_object`, `array_from_*` |
| converters | `daw_json_details.h`, `daw_value_to_json.h`, `src/src/daw_value_to_json.cpp` | none | `json_to_value`, `value_to_json` |

The event parser calls the state machine through the `State` it is given: each
value, name, begin and end is one `on_*` call, and what a handler throws leaves
`json_parser` at once. The tree parser builds values; the linked classes take
values from the tree parser and hand each member to its converter, and print
themselves through the converters. A program keeps references into an object and
lets `json_to_value` and `value_to_json` carry values to and from its variables.
The two parsers share no code.
`daw_json_link_definitions.h` is included by no file of the repository.

Nothing here runs concurrently and nothing is stored, so there are no crashes
to recover from and no messages to lose. What is hard is this.

* The state stack belongs to the process and not to the parse. A call that
  throws leaves its states there, and the next call starts on top of them.
* The nesting is kept twice, in the C++ recursion and in the stack, and the two
  must agree at every event.
* One buffer serves all tokens and is passed on as a view.
* Where a token ends is decided by tests scattered over the parse functions, at
  the end of the input and at characters that may be missing.
* The tree parser reads characters before it knows that they are there, and
  turns some exceptions, and not others, into a null value.
* A class registers its members lazily and all at once, or partly if that throws.
* Integers, optionals and pointers are converted at their limits.
* `operator[]` gives references into a vector that its next insertion may move.
* What is written has lost its type: a whole real is an integer to the reader,
  and the escapes of a string are characters of it.

What makes each part correct:

* **state machine**: no order of calls empties the stack or ends a container
  with the other kind's event; the stack is exactly the open containers;
* **event parser**: it accepts the language it means to accept, delivers a
  well-formed stream, keeps the stack in step, gives each event the text of its
  own token, ends, and leaves nothing behind when it returns;
* **tree parser**: the language it accepts, against the one that the test files
  of `src/tests` call invalid; where it reads outside the text, and that otherwise
  the value it returns is the one the text means;
* **values**: an object is a map from names to values for those who use it by
  name; a valid reference is to the member that a search finds; equal means same;
* **linked classes**: a class is registered wholly before it is used; a
  deserialised object has what its text says, or the call throws and changes
  nothing;
* **converters**: a converted value is the value or an exception that has a
  reason, after which the variable is as it was; what is written can be read back.

## Modules

| module | what it is |
|---|---|
| `StateStack` | the stack, the four states and their handlers |
| `StateClient` | a caller that raises any event at any time |
| `EventParser` | `json_parser` and every function under it, with `StateStack` as its State, called again and again in one process |
| `EventStream` | what `json_parser` promises to a State: the abstract specification |
| `EventDialect` | the language the event parser accepts, as a grammar |
| `Characters` | the characters that texts are made of, shared by the two parsers |
| `TreeParser` | one call of `parse_json` and every function under it |
| `TreeDialect` | the language the tree parser accepts, with the value of each sentence |
| `LinkedClass` | a program that reads and writes objects of a linked class, with `find` and the getters of the values |
| `JsonValue` | `json_value_t`: what the getters take, `find`, and the text that `compare` compares |
| `ObjectValue` | `json_object_value` in the hands of a program that keeps references to its members |
| `NameMap` | the map from names to values that it is used as: the abstract specification |
| `Converters` | `json_to_value`, and `value_to_json` with what `parse_json` makes of its text |
| `ValueProgram` | a program with an object, references and a variable: the composition of the two modules before |
| `MCEventParser`, `MCTreeParser`, `MCLinkedClass`, `MCValueProgram` | values of the constants for TLC |
| `SequenceLemmas` | induction over numbers, stacks kept as sequences, concatenation: lemmas that know nothing of the library |
| `StackLemmas`, `StateClientProofs`, `EventParserProofs`, `EventDialectProofs`, `TreeParserProofs`, `LinkedClassProofs`, `ValueProgramProofs` | lemmas about the models, theorems and proofs |

### StateStack and StateClient

`stateStack` is the vector, its last element `back()`. `Overrides` is the table
of handlers the classes override; an event that the state on top does not
override is `Refuses`d, which is the inherited handler that throws and changes
nothing. `InNone`, `InObjectName`, `InObjectValue` and `InArray` are the
handlers, and `Deliver(ev)` is `state_control_t`'s call of the one on top.
The arguments of the handlers are not used by any state and are left out.

`StateClient` is a caller with no discipline: it raises any of the nine events
in any order and goes on after an exception. `opened` is its own view of what
it has begun and not ended.

### EventParser

The C++ recursion is one state with a program counter. `frames` holds the kinds
of the `parse_array` and `parse_object` calls in progress; `pc` is the place in
the innermost function: `top` in `json_parser`, `element` before a value in
`parse_array` (its loop test and `parse_value`), `member` at the loop test of
`parse_object`, `colon` and `value` behind a name, `after` behind a value, `key`
and `string` in `parse_string`, and one label for each place in `parse_number`
and the literals. A step is one turn of a loop, one test that throws, or one
event with the `++first` that belongs to it. `text` is what has been consumed
and `peek` what is under the iterator, chosen when the iterator gets there, so a
run goes through every text of its bounds. Each `on_*` call is `Due` at one
place; `Send` delivers it to the stack in the same step, and `StateThrows` is
the handler that throws there. `want` holds the letters a literal still expects.

A parse ends in `accepted`, in one of the exceptions (`malformed`,
`no_array_end`, `unclosed_string`, told apart where a property needs it), in
`state_error` when a handler throws, or in `overrun`. `StartParse` is the next
call, on the stack as it is, with a new `state_control_t` or one that still has
its buffer.

Characters are classes: the four spaces are `ws`, two digits stand for ten, `x`
for every other character. The arguments of the events are the buffer, which
`BufferIsToken` is about; `on_boolean`'s argument is left out. `parse_number`
tests the character after an exponent mark without asking for the end of the
input (`daw_json_parser_impl.h:98`). What is there is not part of the input: the
model lets the test fail, and the call throws, or succeed, and the parse is in
`overrun` and nothing more is said of it or after it.

### EventStream and EventDialect

`EventStream` knows no text and no states: `open`, `named`, `stream` and
`status`. `EventParser` implements it with `open <- frames`,
`named <- AwaitsValue`, `stream <- events` and `status <- StreamStatus`; all
exceptions are one `threw`, after any prefix of a stream.

`EventDialect` writes down the accepted language with no reference to the
parser's states: words by length, from shorter ones. It differs from JSON:
arrays and objects have at least one element; the first character of a name is
not looked at; a quote behind a backslash is shielded when only backslashes and
quotes lie between them; integers may have leading zeros; a text is any number
of containers, also none.

### TreeParser and TreeDialect

The layout is that of `EventParser`: `text` and `peek` are what the `utf_range`
has moved over and its front, `frames` the `parse_array` and `parse_object`
calls in progress, and `pc` the place in the innermost function, with
`first_member` and `member` for the two ways to the next name of
`parse_object`, `element` and `close` for the loop of `parse_array`. `first` is
where `it_first` points (or `first` in `parse_number`), `odd` is
`slash_count % 2` of `move_to_quote`. A value is given by the events that list
it in order (`listed`), which is how the model tells two values apart; the text
of strings and numbers is in `text`.

A call ends `accepted`; with the `null` value that `parse_json` returns for a
JsonParserException; `escaped`, with the exception that `get_string_value`
throws for an empty name, which nothing catches; or in `overrun`. The parser
looks at a character without asking for the end of the text in many places
(`LooksPastEnd`). What lies behind the text is not part of it: the test fails,
and the call goes on as with any other wrong character, or it succeeds, and the
call is in `overrun` and no more is said of it. `skip_ws` asks for the end once
it has moved, which is why spaces make a difference there (`Spaced`).
`utf_range` and `boost::lexical_cast` are not in the repository and are modelled
from their use: an integer of more than `MaxDigits` digits behind its zeros does
not fit `intmax_t`. The overflow of a `double` is left out.

`TreeDialect` is the language as a grammar of pairs of a word and the events of
its value. It is JSON but for a comma before the end of an array, non-empty
names, a point with digits on one side only, exponents only behind a point,
zeros in front, and that nothing behind the first value is looked at.

### LinkedClass

A JSON value is a pair of its type and content; the members of an object are a
sequence, in which names may repeat. The program's object is a function from
paths, such as `<<"o", "s">>` for the member `s` of the linked member `o`, to
what they hold. `Links[c]` is what `map_to_json` of class `c` links, in order:
names, kinds and whether the member is a vector. `registered[c]` is how many
entries the static map of `c` has: none, all, or, after a `map_to_json` that
threw, some.

`calls` holds the active `from_json_value`, `from_json_object` and
`to_json_string` calls; a frame's `rest` is what its loop has still to go
through, in an order that `std::unordered_map` does not specify for the first
and the last. A step is one member. `Register` is `check_json_maps`, wherever
`get_json_maps` or `has_key` is called: also in the middle of an outer class's
loop. Assignments go to the object on `from_json_value`'s stack (`result`), and
for `from_json_object` to the program's own. `operator>>` assigns to a
`json_link<Derived> &`, which has no members: the model leaves the object alone.
A name that is linked and missing is an iterator at `end( )` that is used: the
call is `undefined` and the model says no more. An integer out of the member's
range is `aborted` by the assertion or cut to the member's width, as `NDEBUG`
decides.

The conversions are modelled by what they do: `get_string` refuses the empty
string, `get_real` takes integers, a real is printed with six digits behind the
point (`Step`), a string is printed without escapes, so that one with a quote in
it breaks the text (`broken`), and a text that does not parse is null to
`from_json_string`.

`array_from_json_value` has a frame of its own (`elements`) around the
`from_json_value` of each element, whose object is a new one; what it returns is
the program's `list`. `from_file` and `array_from_file` of a file that is there
are `from_json_value` and `array_from_json_value` of what its text says; of one
that is not, they throw or give what the constructor gives. Not modelled:
`to_file`, which has no body, `array_from_string`, which does not compile when it
is used (it calls `array_from_json_value` with one argument of two), and
infinities.

`Values` are the JSON values that the calls may be given (`Inputs`), with those
within them. Three assumptions on the constants say what C++ sees to:
`NestingAssumption` that no class has itself for a member, however far down
(it would be an incomplete type); `ObjectsAssumption` and `ValuesAssumption` that
members and values are of their types.

### JsonValue, ObjectValue and NameMap

`members` is the vector of `json_object_value`, `room` what is left of its
capacity: an insertion without room, `shrink_to_fit` and an assignment to the
object leave every reference of the program `Stale`. `held[r]` has the name the
program asked for and the member that `operator[]` gave. `PushBack` adds a member
under any name, as `parse_object` does, also one that is there. Using a stale
reference is undefined and ends the model. `Text` is what `to_string` prints, as
a sequence of symbols, which is all that `compare` sees. A real is a number of
units and a scale, 1 or -1 when it is so large or so small that a stream prints it
with an exponent; `RealText` is what `std::to_string` shows of it, six digits behind
the point, and nothing but the sign of a small one. A container holds scalars, one
level deep.

`NameMap` knows no vector: a name is entered once, its value is written through
references to that name and no other way, references are lost or kept. The
refinement is `map <- ValueOfName`, the first value of each name, and
`refs <- NameOfRef`.

### Converters and ValueProgram

The type of the program's variable (`kind`) is one part, or the two of a
`std::pair`; a part is of a type with limits, plain, in an `optional` or in a
`shared_ptr`. `JsonToValue` gives the outcomes of `json_to_value`, each with what
the variable holds afterwards: `Wrap` is the cast of a limit to `integer_t`; an
empty optional is assigned to through `*to`, which is undefined for a string and
otherwise leaves it empty or stops the program; the parts of a pair are read into
new variables first. `Reread` is the way through the text: a string with its
escapes, which `parse_string` keeps; a real, which the stream writes without a
point when it is whole and with an exponent when it is large or small. `parse_json`
reads an exponent only behind a point, so that 1e-10 is read as the integer 1.
In a vector, `value_to_json` is called for an element above the overload for numbers
(`daw_value_to_json.h:105` and 149), which argument-dependent lookup does not find
for an `int` or a `double`: the element is converted to `bool` and written as `true`
or `false` (`AsElement`). A number in an `optional` is written as such, because that
overload stands below. The text is a
`std::string`, and the character that `parse_json` reads behind it is its
terminator.

`ConvertHeld`, `ConvertMember` and `ConvertObject` read a value by reference, by
the const `operator[]` and the object itself; `Save` and `SaveList` assign to a
member what the text of the variable, alone or in a vector, is read as.
`WriteNull` is `value_to_json` of a null `shared_ptr`, which dereferences it; of
one that is not null it returns nothing that could be read.

## Runs

| run | checks | bounds | distinct states |
|---|---|---|---|
| `state_client` | the five properties of `StateClient` | 5 open containers | 188 |
| `parser_structure` | `AcceptsOnlyDialect`, `AcceptsWholeDialect`, `StackMirrorsNesting`, `DeliversEventStream` | texts of up to 9 of 9 structural characters, empty strings | 576 016 |
| `parser_lexical` | `AcceptsOnlyDialect`, `AcceptsWholeDialect`, `BufferIsToken` | texts of up to 7 of 18 characters, strings of up to 3 | 523 256 |
| `parser_residue` | `TypeOK`, `StackBelowIsKept`, `AcceptRestoresStack`, `StateErrorOnlyFromResidue`, `PoisonedParseIsMute`, `Termination` | three calls, texts of up to 4 of 8 characters | 137 875 |
| `tree_parser` | `TypeOK`, `ValueIsMeaning`, `FailsOnlyOutsideDialect`, `Termination` | texts of up to 5 of 20 characters and up to 8 of 9 structural ones, strings of up to 2 | 945 482 |
| `linked_class` | `TypeOK`, `ReadsWhatIsSaid`, `ElementsAreTheirOwn`, `FailureKeepsObject`, `FailureLeavesMembers`, `FailureHasReason`, `PortableComesBack`, `Termination` | two classes, three calls, 344 values read by the first, 5 by the second, 1 by the third | 211 736 |
| `value_program` | `TypeOK`, `HeldIsFound`, `EqualMeansSame`, `IsNameMap`, `ConversionIsExact`, `RefusalHasReason`, `FailureKeepsTarget`, `EmptyIsNeverFilled`, `SavedComesBack`, `EscapesAreKept` | eleven types of the variable with 1 to 6 values each, 2 names, 2 references, 1 to 3 members, any number of steps | 76 963 |
| `finding_swallowed` | `FailureIsNoValue` | one call, 3 characters | violated |
| `finding_comes_back` | `AllComesBack` | one object, two calls | violated |
| `finding_quote` | `StringStartsWithQuote` | one call, 4 characters | violated |
| `finding_array_end` | `NoArrayEndMeansEnd` | one call, 4 characters | violated |
| `finding_unclosed` | `UnclosedMeansNoClosingQuote` | one call, 6 characters | violated |

Why the bounds are enough. The handlers look at the top of the stack only, and
five levels hold every parent and child twice. Nine characters reach an object
in an array in an object with its separators, two members, and a second
container behind the first. Seven characters hold a number with sign, integer,
fraction or exponent and digit between brackets, and `false`; three characters
in a string hold two backslashes and a quote. Of three calls the first leaves
something behind, the second runs on top of it and the third on top of both;
four characters are enough to fail in a name, in a value and in an array. The
tree parser's values nest and list to three levels in eight characters, and
five hold every kind of number, `true`, `null` and strings with their
backslashes. In `linked_class` an outer and an inner class show both loops and
registration within a loop; a value of three members repeats a name with another
between, inner objects repeat names, lack them, have others and hold values of
the wrong type; of three calls the first may fail half registered, the second
write and the third read back. Two elements show whether the second sees the
first. In `value_program` an `integer_t` of eight values (`Half = 4`) has narrow
types within it, at its limits and beyond them; `Unit = 4` and `Step = 2` make
reals that are whole, that six digits hold, and that they do not, and scales of 1
and -1 reals that are written with an exponent, whole and not; two
references and two names show one reference stale, one valid and both to the same
member; three members repeat a name; `MaxRoom = 1` has insertions that move the
vector and ones that do not; `MaxString = 4` lets a string be escaped twice, and
`MaxList = 2` has lists of none, one and two. Each scenario bounds its members
(`most`) as low as its hazard allows. The references are symmetric (`RefSymmetry`);
the run has no liveness property. What
the bounds might miss for the stack, the buffer and the stream is proved below
without them.

`CHECK_DEADLOCK FALSE`, because a program may stop calling `json_parser` or
stop after something undefined. The
state constraint `ShortStrings` cuts behaviours whose strings are longer than
`MaxString`, and the grammar leaves the same strings out; `parser_residue`,
which checks the liveness property, has no constraint. `tree_parser` checks
`Termination` under its constraint `ShortTokens`: a behaviour that left it would
have gone on to a longer text, and a loop that consumes nothing stays within.

Fairness is `WF_vars(ParserStep)`: `json_parser` is a synchronous call and runs
until it returns or throws. Nothing obliges the program to call it again, so
`StartParse` is not fair. `Termination` then says that no loop turns without
consuming input. `TreeParser` is one call, under `WF_vars(Next)`. In
`LinkedClass` the steps of a call (`Proceed`) are fair and new calls are not.

### What the runs found

* `finding_quote`: `parse_string` steps over its first character with the comment
  "Assumes that `*first == '"'`", and `parse_object` calls it for any character:
  `{x":1}` is an object with an empty name.
* `finding_array_end`: `[]` and `[1,]` are refused with "Expected a closing ']' for
  array but found end", with the closing bracket there. `{}` is refused too.
* `finding_unclosed`: `["\\"]` and `["\""]` are refused as unclosed strings:
  `in_slash` stays set after a second backslash and after the quote it shields.

* `finding_swallowed`: `parse_json` returns a null value for a text that does not
  parse, so the `n_` files of the test are "successfully" parsed.
* `finding_comes_back`: an object with an empty string is written and its text
  refused, because `get_string` throws on an empty string.

`value_program` shows what no line of the repository denies: an optional or a
`shared_ptr` that a null has emptied is never filled again (`EmptyIsNeverFilled`);
a 64-bit unsigned target refuses every value (`MayRefuse`); a string grows with
every save (`EscapesAreKept`); a vector of numbers is written as one of booleans,
and none of them is read back into a number (`SavedComesBack`); a real written with
an exponent and no point, such as 1e-10, is read as an integer without it, and a vector of
optionals with such a real in it as null; and two strings with quotes in them, or reals that six digits do not hold,
may be equal without being the same: `Portable` and `Plain` name these
exceptions, and the properties say that there are no others.

`linked_class` also shows, against no line of the repository, that `operator>>`
changes nothing, and that after one `map_to_json` that threw half way the class
is read and written without the rest of its members for good.

`parser_residue` shows no disagreement with anything the repository says, and
is the behaviour to know of: after one call that failed where a name was
expected, every later call in the process fails with the state machine's
exception before it delivers an event.

## Proofs

`StateClientProofs` (for every depth) and `EventParserProofs` (for every
alphabet of characters, every length and every number of calls) prove what the
runs check. The assumptions are those on the constants: `Alphabet` is a set of
the named characters, the bounds are natural numbers.

* `StackSafe`: `TypeOK`, `NeverEmpty`, `StackMatchesOpened`, `OnlyTopAwaitsValue`.
  The conjunction is inductive: `StackMatchesOpened` says what an end event
  uncovers and `OnlyTopAwaitsValue` that it is not a state in wait of a value.
* `EndsMatch`: `EndMatchesBegin`, from the same invariant.
* `TypeCorrect`, `StackFollowsCalls`, `AcceptRestores`, `OnlyResidueRefuses`,
  `PoisonedIsMute`: from one inductive invariant `IInv`. Alone, none of these
  is inductive. `StackMirrorsNesting` gives the state on top from the innermost
  frame and the place in it (`TopLevel`), so that what is `Due` is what that
  state takes (`RefusedOutside`); this needs `FramesFitPc`, which ties `pc` to
  the kind of the innermost frame, and outside every container
  `StackBelowIsKept`, which says what an earlier call may have left;
  `FirstParse` says that the first call finds the state `none` alone. What an
  earlier call left is not always kept to the letter: a member on top of it that
  waits for its value has had it with the first event of this call, and expects a
  name from then on (`BaseNow`). `StackBelowIsKept` and `AcceptRestoresStack` say
  this, and `NoEventNoLevel`, that no container is begun without an event, is what
  makes it inductive.
* `ParserDeliversStream`: every step of the parser is a step of `EventStream` or
  a stutter, under `IInv`.
* `BufferHoldsToken`: `BufferIsToken`, with `ValueFollows` (before a value the
  last character consumed is a space or a separator), which is needed because a
  number has no opening quote and starts with an empty buffer or a sign.
* `StackIsTyped`, `NoneStays`, `OnlyTopWaits`, `ResidueIsKept` are corollaries that
  state the parts of the conjunctions above.

`EventDialectProofs` is for every alphabet, every length of a text and any nesting.

* `AcceptedIsSentence`: `AcceptsOnlyDialect`, on behaviours whose strings keep to
  the bound with which the grammar cuts them off (`ShortStrings`, the constraint of
  the runs); `EveryAcceptedIsSentence` says it with no condition on the behaviour
  for a grammar whose bound on strings is not below that on the texts. The
  grammar is a recursive function that makes the sentences of each length from the
  shorter ones; `TableShape` and `Rules` turn it into rules that can be used
  without the table, and from there on only sets of texts are spoken of. The
  invariant `PlaceInv` is about what a text may still become, for
  `AcceptsOnlyDialect` says nothing before the end. `Before(K, W)` holds the texts
  that any `W` behind them makes a `K` of. `Tower` gives each array and object in
  progress what it is to be, from `Ground` (any number of containers may follow) at
  the bottom: `ArrayGoal` and `ObjectGoal` are what is within them. `Stand` says
  where in the innermost one the parser is, at each of its places: inside a string
  that the next quote closes just when no backslash shields it, inside a number
  whose parts are so far what the grammar wants (`NumberSoFar`), inside a literal
  whose remaining letters spell it. All this holds only while there is room for the
  ends of what is in progress (`Roomy`), because the grammar has no longer texts;
  room that is gone does not come back, and when the parser returns nothing is in
  progress.

`TreeParserProofs` is for every alphabet, every length of a text and every bound
of the grammar.

* `TypesHold`: `TypeOK`. The invariant `TypeInv` also has which functions are in
  progress at which place (an `object` frame below the places in a name, an
  `array` frame at `element`), and that `first` lies within `text`.
* `ValueHasMeaning`: `ValueIsMeaning`, on behaviours that keep to the bounds with
  which the grammar cuts off strings, numbers and spaces (`ShortTokens`, the
  constraint of the run); `EveryValueHasMeaning` says it with no condition on the
  behaviour for a grammar whose bounds are not below that on the texts. Nothing
  limits the nesting. The invariant `Inv` is about what a text may still become.
  A context is a set of pairs of a word and events; `Before`, `Then` and `Closed`
  make the context of a part from that of the whole. `Tower` gives each frame in
  progress its context, from the whole text's at the bottom: an array's element
  within the array, a member's value within the object. `Stand` then says where in
  the innermost one the parser is: what is read so far, with what the grammar
  allows behind it, is in the context. `ValueIsMeaning` is the case of an empty
  tower. It is inductive because each place of the parser determines which
  sentences can still be completed, which `ValueIsMeaning` itself says nothing of
  before the end.

`LinkedClassProofs` is for all classes, links, objects and JSON values, every
order in which a map may be gone through, and any number of calls.

* `FailureKeeps` and `StreamKeeps`:
  only `from_json_object` changes the program's object before it returns, and
  reading with `operator>>` and writing never do. The invariant is `KeepsObject`.
* `MapsStayInRange`: a static map never holds more than its class links.
* `TypesHold`: `TypeOK`. `Inv` is `Plainly` and `Standing`: there are a set of JSON
  values, closed under taking parts, and a set of well-typed objects that
  everything in the state is made of; each active call has a frame in `Frames`,
  which says that it is at a member of the object (`AtMember`), that a name still
  to be written is in the map of its class, and that an item still to be read is
  mentioned by the value that is read (`ItemOf`), or missing in it; and a call
  that writes is within one that still has to end a member (`Under`). That the
  items are what `Mentions` says, for the path and not only for the name, is what
  the next two need, and what keeps `Link` and `Path` in range.
* `FailureLeaves`: `FailureLeavesMembers`, from `Inv` and `Touched`, which says the
  same of a call that has not failed yet.
* `FailuresHaveReasons`: `FailureHasReason`, an action property: the reason is in the
  step that throws, a `map_to_json` that throws in that very step (`MapThrows`), a
  missing file, a value that is no array where one is asked for, or a value that an
  object cannot be made of (`Unreadable`); a `to_json_string` throws only for the
  first. One lemma is for what throws (`ThrowsForReason`) and one for what runs into
  `end( )` (`UndefinedForReason`). They need the invariants of the next two,
  `SaidSoFar` for what the loops of the active calls have left to read, and `Written`,
  because only a call of `to_json_string` writes (`WritesWhenWriting`).
* `ReadsSay` and `ElementsSay`: `ReadsWhatIsSaid` and `ElementsAreTheirOwn`. What they
  need of a loop that is under way is `SaidSoFar`: what a member holds now, together
  with everything that mentions it in what the loops of the active calls have left,
  makes what the whole text makes of what it held at first. A step of a loop moves
  one item from what is left into the object, a nested object moves its items into a
  loop of its own, and neither changes the outcome; at the end nothing is left.
* `TextComesBack`: `PortableComesBack`, of a call that writes and one that reads what
  it wrote, with any calls between them. `Written` is its invariant, on top of that
  of `ReadsSay`. While `to_json_string` runs (`BeingWritten`), each frame has written
  some of the names of its class and has the others left, and what it wrote is in a
  set of pieces, each of which is what belongs at its path (`Pieces`): the printed
  member, or an object that has each name of its class once. The text that it gives
  keeps its pieces (`TextKept`), because a map that was asked for once stays
  (`AskedStays`). A read of such a text finds one value for each linked member
  (`TextSays`), which its getter takes (`PrintedReturns`), so that it does not fail
  (`NoFailure`, in `FromText`) and leaves what was held. A frame that writes is never
  above one that reads (`OnlyReads`), which is needed to know that a read keeps the
  text.

`ValueProgramProofs` is for every set of names and references, every type of the
variable, every limit and all values; its assumptions are that a scenario's types
are of one or two parts and its values of the seven types, and that the empty
name, which stands for a lost reference, is not used.

* `HeldStaysFound`, `ImplementsNameMap`: the invariant `Inv` says that a valid
  reference is to the first member of its name (`RefsOK`). Members are only
  added at the end, so a first member stays the first (`AfterInserted`), which is
  what the mutant of `Inserted` breaks. The refinement is one lemma per action,
  on the value of a name (`InsertedInMap`, `AssignedInMap`).
* `FailureKeeps`, `EmptyStays`: `Inv` keeps the variable within what its type may
  hold; `IntoPart` is what one part does, `ReadOne` and `ReadTwo` lift it to the
  variable and the pair.
* `TypesHold`: `TypeOK`, with what a text is read back as (`Reread`) in its type.
* `ConversionsAreExact` and `RefusalsHaveReasons`: `ConversionIsExact` and
  `RefusalHasReason` (`MayRefuse`: a null is no reason for an optional), from what `Wrap` makes of the limits of a type of any width:
  a limit that `integer_t` holds is compared as it is, and one that it does not
  hold turns the test around, which refuses and never cuts.
* `EqualValuesAreSame` and `EscapesStay`: `EqualMeansSame` and `EscapesAreKept`. The
  first is for `Plain` values: no string in them has a quote, no real needs more than
  six digits behind its point. Containers are of any length and one level deep.
  The text of a value can be read from the front in one way only, value by value and
  character by character, so that it is the text of no other value, and an escaped
  string is that of no other string.
* `SavedIsSame`: `SavedComesBack`, for values and lists of any size, from what
  `Reread` makes of each portable value and the types' limits. Plain numbers in a list
  are the exception that it states: each is refused (`BooleanIsRefused`).

Inductions over numbers are done with `LeastOf` and `NumberInduction`, which speak
of sets, and a recursive function is used through an equation that unfolds it
(`InsideUnfolds`, `MentionsUnfolds`, `FlattenIsFlat`).

Only model-checked: of the event parser `AcceptsWholeDialect` and of the tree parser
`FailsOnlyOutsideDialect`, which say that a grammar has *no* sentence that begins
with a rejected text and so need every way to read one; and `Termination`, because
liveness is out of the prover's reach.

## What is not modelled, and the plan

Not modelled at all: exhaustion of memory and of the C++ stack by nesting, two
threads in the static data at once (a data race), the text of exceptions, and
`daw_json_link_definitions.h`, which does not compile and is included nowhere.

Of the converters: `json_to_value` to vectors and to maps is declared twice, with
different defaults of the template's last parameter, so that a call of it is
ambiguous and no program has one; `float` is `double` but for rounding; which
overloads `value_to_json` of a pair, of a `json_value_t` and of a
`json_object_value` end in depends on conversions of `utf_string` and
`string_view` that are not in the repository; `value_to_json` of a `weak_ptr`
returns nothing, and so does that of a `shared_ptr`. Of the values: changes within a member's value
through the non-const getters, containers in containers, and the members of
`daw::mixins::VectorLikeProxy` that the repository does not use.

To come, in this order:

1. A comparison of the two parsers: the texts that both accept, and what they
   report for them.
2. Theorems: that the parsers reject no sentence of their dialects
   (`AcceptsWholeDialect`, `FailsOnlyOutsideDialect`).
