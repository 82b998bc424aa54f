------------------------- MODULE EventParserProofs -------------------------
(***************************************************************************)
(* What is proved of the event parser for every alphabet, every length of  *)
(* input and any number of parses in one process: its types, its stack,    *)
(* its calls, and what its buffer holds of the token that is being read.   *)
(***************************************************************************)
EXTENDS EventParser, StackLemmas

-----------------------------------------------------------------------------
\* Type correctness.

LEMMA ConsumeType ==
    ASSUME TypeOK, Consume
    PROVE  /\ peek \in Alphabet
           /\ text' \in Seq(Alphabet) /\ peek' \in Alphabet \cup {"end"}
<1>1. peek \in Alphabet
  BY DEF TypeOK, Consume
<1>2. text' \in Seq(Alphabet)
  BY <1>1, AppendProperties DEF TypeOK, Consume
<1>3. peek' \in Alphabet \cup {"end"}
  BY DEF Consume, Ahead
<1>4. QED
  BY <1>1, <1>2, <1>3

LEMMA KeepType ==
    ASSUME TypeOK, Keep
    PROVE  /\ text' \in Seq(Alphabet) /\ peek' \in Alphabet \cup {"end"}
           /\ buffer' \in Seq(Alphabet)
BY ConsumeType, AppendProperties DEF TypeOK, Keep

LEMMA SendType ==
    ASSUME TypeOK, stateStack # <<>>, NEW ev \in Events, Send(ev)
    PROVE  events' \in Seq(Events) /\ stateStack' \in Seq(States)
<1>1. StackOK
  BY DEF TypeOK, StackOK
<1>2. events' \in Seq(Events)
  BY AppendProperties DEF TypeOK, Send
<1>3. ASSUME ev \in Ends PROVE stateStack' \in Seq(States)
  BY <1>1, <1>3, DeliverEnd, PopTop DEF Send, StackOK
<1>4. ASSUME ev \in Begins PROVE stateStack' \in Seq(States)
  BY <1>1, <1>4, DeliverBegin DEF Send
<1>5. ASSUME ev \in Scalars PROVE stateStack' \in Seq(States)
  BY <1>1, <1>5, DeliverScalar DEF Send, StackOK
<1>6. QED
  BY <1>2, <1>3, <1>4, <1>5 DEF Events

LEMMA StopType ==
    ASSUME TypeOK, NEW how \in Outcomes, Stop(how)
    PROVE  TypeOK'
BY DEF TypeOK, Stop, input, local, sent

\* The letters a literal still expects are a sequence of characters.
LEMMA RestType ==
    ASSUME NEW c \in {"t", "f", "n"}
    PROVE  Rest(c) \in Seq(Char)
<1>1. \A d \in {"r", "u", "e", "a", "l", "s"} : d \in Char
  BY DEF Char, ExponentMarks
<1>2. CASE c = "t"
  BY <1>1, <1>2 DEF Rest
<1>3. CASE c = "f"
  BY <1>1, <1>3 DEF Rest
<1>4. CASE c = "n"
  BY <1>1, <1>4 DEF Rest
<1>5. QED
  BY <1>2, <1>3, <1>4

LEMMA ContainerType ==
    ASSUME TypeOK, stateStack # <<>>, BeginArray \/ BeginObject \/ EndArray \/ EndObject
    PROVE  TypeOK'
<1>1. ASSUME NEW ev \in Events, NEW kind \in {"array", "object"}, NEW label \in PCs,
             BeginContainer(ev, kind, label)
      PROVE  TypeOK'
  BY <1>1, ConsumeType, SendType, AppendProperties
     DEF BeginContainer, Send, Goto, TypeOK, local, run
<1>2. ASSUME NEW ev \in Events, frames # <<>>, EndContainer(ev)
      PROVE  TypeOK'
  <2>1. Front(frames) \in Seq({"array", "object"})
    BY <1>2, PopTop DEF TypeOK
  <2>2. QED
    BY <1>2, <2>1, ConsumeType, SendType
       DEF EndContainer, Send, Goto, ReturnTo, PCs, TypeOK, local, run
<1>3. EndArray \/ EndObject => frames # <<>>
  BY DEF EndArray, EndObject, EndContainer, Send, Due, In
<1>4. {"on_array_begin", "on_object_begin", "on_array_end", "on_object_end"} \subseteq Events
  BY DEF Events, Begins, Ends
<1>5. "element" \in PCs /\ "member" \in PCs
  BY DEF PCs
<1>6. QED
  BY <1>1, <1>2, <1>3, <1>4, <1>5 DEF BeginArray, BeginObject, EndArray, EndObject

LEMMA ScalarType ==
    ASSUME TypeOK, stateStack # <<>>, EndString \/ EndScalar
    PROVE  TypeOK'
<1>1. CASE EndString
  BY <1>1, ConsumeType, SendType
     DEF EndString, Send, Goto, PCs, TypeOK, local, run, Events, Scalars
<1>2. CASE EndScalar
  <2>1. PICK ev \in Events : Send(ev)
    BY <1>2 DEF EndScalar, Events
  <2>2. events' \in Seq(Events) /\ stateStack' \in Seq(States)
    BY <2>1, SendType
  <2>3. UNCHANGED <<local, buffer, run, input, frames>> /\ pc' = "after"
    BY <1>2, <2>1 DEF EndScalar, Send, Goto
  <2>4. QED
    BY <2>2, <2>3 DEF TypeOK, PCs, local, run, input
<1>3. QED
  BY <1>1, <1>2

LEMMA MoveType ==
    ASSUME TypeOK, SkipWhitespace \/ NextElement \/ NextMember \/ Separator
    PROVE  TypeOK'
<1>1. CASE SkipWhitespace
  BY <1>1, ConsumeType DEF SkipWhitespace, TypeOK, local, sent, run
<1>2. ASSUME NEW from, NEW char, NEW label \in PCs, Move(from, char, label)
      PROVE  TypeOK'
  BY <1>2, ConsumeType DEF Move, Goto, TypeOK, local, sent, run
<1>3. {"element", "member", "value"} \subseteq PCs
  BY DEF PCs
<1>4. QED
  BY <1>1, <1>2, <1>3 DEF NextElement, NextMember, Separator

LEMMA TokenType ==
    ASSUME TypeOK,
           \/ EnterKey \/ EnterValueString \/ StringChar
           \/ EnterNumber \/ NumberChar \/ EnterLiteral \/ LiteralChar
    PROVE  TypeOK'
<1>1. ASSUME NEW from, NEW label \in PCs, EnterString(from, label)
      PROVE  TypeOK'
  <2>1. buffer' = <<>> /\ inSlash' \in BOOLEAN
    BY <1>1 DEF EnterString
  <2>2. buffer' \in Seq(Alphabet)
    BY <2>1, EmptySeq
  <2>3. QED
    BY <1>1, <2>1, <2>2, ConsumeType DEF EnterString, Goto, TypeOK, sent, run
<1>2. CASE EnterKey \/ EnterValueString
  BY <1>1, <1>2 DEF EnterKey, EnterValueString, PCs, InString
<1>3. CASE StringChar
  <2>1. inSlash' \in BOOLEAN
    BY <1>3 DEF StringChar, TypeOK
  <2>2. QED
    BY <1>3, <2>1, KeepType DEF StringChar, TypeOK, sent, run
<1>4. CASE EnterNumber
  <2>1. /\ text' \in Seq(Alphabet) /\ peek' \in Alphabet \cup {"end"}
        /\ buffer' \in Seq(Alphabet)
    <3>1. CASE peek = "-"
      <4>1. Consume /\ buffer' = <<peek>>
        BY <1>4, <3>1 DEF EnterNumber
      <4>2. <<peek>> \in Seq(Alphabet)
        BY <4>1, ConsumeType
      <4>3. QED
        BY <4>1, <4>2, ConsumeType
    <3>2. CASE peek # "-"
      BY <1>4, <3>2 DEF EnterNumber, TypeOK, input
    <3>3. QED
      BY <3>1, <3>2
  <2>2. QED
    BY <1>4, <2>1 DEF EnterNumber, Goto, PCs, InInteger, TypeOK, local, sent, run
<1>5. CASE NumberChar
  <2>1. pc' \in PCs
    BY <1>5 DEF NumberChar, Goto, PCs, InInteger, InReal
  <2>2. QED
    BY <1>5, <2>1, KeepType DEF NumberChar, TypeOK, local, sent, run
<1>6. CASE EnterLiteral
  BY <1>6, ConsumeType, RestType DEF EnterLiteral, Goto, PCs, InLiteral, TypeOK, sent, run
<1>7. CASE LiteralChar
  <2>1. want' \in Seq(Char)
    BY <1>7, HeadTailProperties DEF LiteralChar, TypeOK
  <2>2. QED
    BY <1>7, <2>1, ConsumeType DEF LiteralChar, TypeOK, sent, run
<1>8. QED
  BY <1>2, <1>3, <1>4, <1>5, <1>6, <1>7

LEMMA StopsType ==
    ASSUME TypeOK, Return \/ Overrun \/ StateThrows \/ Reject
    PROVE  TypeOK'
<1>1. PICK how \in Outcomes : Stop(how)
  BY DEF Return, Overrun, StateThrows, Reject, Outcomes, Rejections
<1>2. QED
  BY <1>1, StopType

LEMMA StartType ==
    ASSUME TypeOK, StartParse
    PROVE  TypeOK'
<1>1. parses' \in 0 .. MaxParses
  BY BoundsAssumption DEF StartParse, TypeOK
<1>2. peek' \in Alphabet \cup {"end"}
  BY DEF StartParse, Ahead
<1>3. /\ text' \in Seq(Alphabet) /\ frames' \in Seq({"array", "object"}) /\ want' \in Seq(Char)
      /\ events' \in Seq(Events) /\ buffer' \in Seq(Alphabet)
  <2>1. text' = <<>> /\ frames' = <<>> /\ want' = <<>> /\ events' = <<>>
    BY DEF StartParse
  <2>2. buffer' = <<>> \/ buffer' = buffer
    BY DEF StartParse
  <2>3. QED
    BY <2>1, <2>2, EmptySeq DEF TypeOK
<1>4. inSlash' \in BOOLEAN /\ pc' \in PCs /\ outcome' \in Outcomes
  BY DEF StartParse, Goto, PCs, Outcomes
<1>5. base' \in Seq(States) /\ stateStack' \in Seq(States)
  BY DEF StartParse, TypeOK
<1>6. QED
  BY <1>1, <1>2, <1>3, <1>4, <1>5 DEF TypeOK

LEMMA NextType ==
    ASSUME TypeOK, stateStack # <<>>, [Next]_vars
    PROVE  TypeOK'
<1>1. CASE UNCHANGED vars
  BY <1>1 DEF vars, input, local, sent, run, TypeOK
<1>2. QED
  BY <1>1, ContainerType, ScalarType, MoveType, TokenType, StopsType, StartType
     DEF Next, ParserStep
-----------------------------------------------------------------------------
\* The state stack and the C++ call stack.

\* Which parse function is innermost, from where it is.
FramesFitPc ==
    /\ pc = "top" <=> frames = <<>>
    /\ pc = "element" => In("array")
    /\ pc \in {"member", "key", "colon", "value"} => In("object")

\* The first parse finds the stack the process starts with.
FirstParse ==
    /\ parses = 0 => outcome = "idle" /\ stateStack = <<"none">>
    /\ parses <= 1 => base = <<"none">>

\* A container is entered with an event.
NoEventNoLevel == events = <<>> => frames = <<>>

IInv ==
    /\ TypeOK
    /\ base # <<>>
    /\ FramesFitPc
    /\ FirstParse
    /\ outcome = "accepted" => pc = "top"
    /\ NoEventNoLevel
    /\ StackMirrorsNesting
    /\ StackBelowIsKept
    /\ PoisonedParseIsMute
    /\ StateErrorOnlyFromResidue

\* The lengths as numbers; the stack is not empty.
LEMMA Heights ==
    ASSUME IInv
    PROVE  /\ StackOK
           /\ Len(base) \in Nat \ {0} /\ Len(frames) \in Nat
           /\ Len(stateStack) = Len(base) + Len(frames)
           /\ CurrentState = stateStack[Len(base) + Len(frames)] /\ CurrentState \in States
           /\ Last(base) = base[Len(base)]
           /\ frames # <<>> <=> Len(frames) > 0
<1>1. Len(base) \in Nat \ {0} /\ Last(base) = base[Len(base)]
  BY LastInSeq DEF IInv, TypeOK
<1>2. Len(frames) \in Nat /\ (frames # <<>> <=> Len(frames) > 0)
  BY LenProperties, EmptySeq DEF IInv, TypeOK
<1>3. Len(stateStack) = Len(base) + Len(frames)
  BY DEF IInv, StackMirrorsNesting
<1>4. StackOK
  BY <1>1, <1>2, <1>3, EmptySeq DEF IInv, TypeOK, StackOK
<1>5. QED
  BY <1>1, <1>2, <1>3, <1>4, StackHeight

\* Inside a container the state on top is the one of that container.
LEMMA TopLevel ==
    ASSUME IInv, frames # <<>>
    PROVE  /\ In("array") \/ In("object")
           /\ In("array") => CurrentState = "in_array"
           /\ In("object") => CurrentState =
                  IF AwaitsValue THEN "in_object_value" ELSE "in_object_name"
<1>1. Len(frames) > 0 /\ Len(frames) \in 1 .. Len(frames) /\ Last(frames) = frames[Len(frames)]
      /\ Last(frames) \in {"array", "object"}
  BY Heights, LastInSeq DEF IInv, TypeOK
<1>2. CurrentState = Level(Len(frames))
  BY <1>1, Heights DEF IInv, StackMirrorsNesting
<1>3. In("array") \/ In("object")
  BY <1>1 DEF In
<1>4. In("array") => CurrentState = "in_array"
  BY <1>1, <1>2 DEF In, Level
<1>5. ASSUME In("object"), AwaitsValue PROVE CurrentState = "in_object_value"
  BY <1>1, <1>2, <1>5 DEF In, Level
<1>6. ASSUME In("object"), ~AwaitsValue PROVE CurrentState = "in_object_name"
  BY <1>1, <1>2, <1>6 DEF In, Level
<1>7. QED
  BY <1>3, <1>4, <1>5, <1>6

\* What the parse found has the same height as what has become of it.
LEMMA BaseNowIs ==
    ASSUME base \in Seq(States), base # <<>>
    PROVE  /\ BaseNow \in Seq(States) /\ Len(BaseNow) = Len(base)
           /\ Len(base) \in 1 .. Len(base) /\ Last(base) = base[Len(base)]
           /\ \A i \in 1 .. Len(base) : BaseNow[i] =
                  IF i = Len(base) /\ events # <<>> /\ base[i] = "in_object_value"
                  THEN "in_object_name" ELSE base[i]
<1>1. Len(base) \in 1 .. Len(base) /\ Last(base) = base[Len(base)]
  BY LastInSeq
<1>2. CASE events # <<>> /\ Last(base) = "in_object_value"
  <2>1. BaseNow = [base EXCEPT ![Len(base)] = "in_object_name"]
    BY <1>2 DEF BaseNow
  <2>2. BaseNow \in Seq(States)
    BY <1>1, <2>1 DEF States
  <2>3. Len(BaseNow) = Len(base)
    BY <1>1, <2>1
  <2>4. \A i \in 1 .. Len(base) :
            BaseNow[i] = IF i = Len(base) THEN "in_object_name" ELSE base[i]
    BY <1>1, <2>1
  <2> QED BY <1>1, <1>2, <2>2, <2>3, <2>4
<1>3. CASE ~(events # <<>> /\ Last(base) = "in_object_value")
  BY <1>1, <1>3 DEF BaseNow
<1> QED BY <1>1, <1>2, <1>3

\* Outside every container it is what the parse found, but for a member that
\* waited for its value and has had it.
LEMMA TopOutside ==
    ASSUME IInv, frames = <<>>
    PROVE  \/ CurrentState = Last(base)
           \/ /\ Last(base) = "in_object_value" /\ CurrentState = "in_object_name"
              /\ events # <<>>
<1>1. Len(base) \in 1 .. Len(base) /\ CurrentState = stateStack[Len(base)]
  BY Heights
<1>2. QED
  BY <1>1, Heights, BaseNowIs DEF IInv, StackBelowIsKept, TypeOK

\* A parse on top of an object that waits for a name is in no container.
LEMMA PoisonedIsOutside ==
    ASSUME IInv, Last(base) = "in_object_name"
    PROVE  pc = "top" /\ frames = <<>>
BY Heights DEF IInv, PoisonedParseIsMute, FramesFitPc

\* A step that sends nothing and enters or leaves no container.
LEMMA QuietPreserves ==
    ASSUME IInv, UNCHANGED <<frames, events, stateStack, base, parses>>,
           AwaitsValue' = AwaitsValue
    PROVE  /\ StackMirrorsNesting' /\ StackBelowIsKept' /\ PoisonedParseIsMute'
           /\ NoEventNoLevel'
<1>1. \A i \in 1 .. Len(frames) : Level(i)' = Level(i)
  BY DEF Level
<1>2. StackMirrorsNesting'
  BY <1>1 DEF IInv, StackMirrorsNesting
<1>3. StackBelowIsKept' /\ PoisonedParseIsMute' /\ NoEventNoLevel'
  BY DEF IInv, StackBelowIsKept, BaseNow, PoisonedParseIsMute, NoEventNoLevel
<1>4. QED
  BY <1>2, <1>3

\* The steps that send nothing, and go on.
QuietStep ==
    \/ SkipWhitespace \/ NextElement \/ NextMember \/ Separator
    \/ EnterKey \/ EnterValueString \/ StringChar
    \/ EnterNumber \/ NumberChar \/ EnterLiteral \/ LiteralChar

LEMMA QuietNesting ==
    ASSUME IInv, outcome = "running",
           QuietStep
    PROVE  UNCHANGED <<frames, sent, run>> /\ AwaitsValue' = AwaitsValue /\ FramesFitPc'
<1> USE DEF QuietStep, Goto, sent, run, InString, InInteger, InReal, InLiteral, Whitespace, Digits,
            ExponentMarks
<1>1. UNCHANGED <<frames, sent, run>>
  BY DEF SkipWhitespace, NextElement, NextMember, Separator, Move, EnterKey, EnterValueString,
         EnterString, StringChar, EnterNumber, NumberChar, EnterLiteral, LiteralChar
<1>2. /\ AwaitsValue' = AwaitsValue
      /\ FramesFitPc'
  <2>1. CASE SkipWhitespace \/ StringChar \/ LiteralChar
    <3>1. UNCHANGED <<pc, frames>>
      BY <1>1, <2>1 DEF SkipWhitespace, StringChar, LiteralChar
    <3>2. QED
      BY <3>1 DEF AwaitsValue, In, FramesFitPc, IInv
  <2>2. CASE NextElement \/ NextMember
    BY <1>1, <2>2 DEF NextElement, NextMember, Move, AwaitsValue, In, FramesFitPc, IInv
  <2>3. CASE Separator \/ EnterKey
    BY <1>1, <2>3 DEF Separator, Move, EnterKey, EnterString, AwaitsValue, In, FramesFitPc, IInv
  <2>4. CASE EnterValueString \/ EnterNumber \/ EnterLiteral
    <3>1. pc \in {"element", "value"} /\ pc' \in {"string", "int_first", "boolean", "null"}
      BY <2>4 DEF EnterValueString, EnterString, EnterNumber, EnterLiteral
    <3>2. QED
      BY <1>1, <3>1 DEF AwaitsValue, In, FramesFitPc, IInv
  <2>5. CASE NumberChar
    <3>1. pc \in InInteger \cup InReal /\ pc' \in InInteger \cup InReal
      BY <2>5 DEF NumberChar
    <3>2. QED
      BY <1>1, <3>1 DEF AwaitsValue, In, FramesFitPc, IInv
  <2>6. QED
    BY <2>1, <2>2, <2>3, <2>4, <2>5
<1>3. QED
  BY <1>1, <1>2

LEMMA QuietActions ==
    ASSUME IInv, outcome = "running", QuietStep
    PROVE  IInv'
<1>1. UNCHANGED <<frames, events, stateStack, base, parses, outcome>>
      /\ AwaitsValue' = AwaitsValue /\ FramesFitPc'
  BY QuietNesting DEF sent, run
<1>2. TypeOK'
  BY MoveType, TokenType DEF IInv, QuietStep
<1>3. /\ StackMirrorsNesting' /\ StackBelowIsKept' /\ PoisonedParseIsMute'
      /\ NoEventNoLevel'
  BY <1>1, QuietPreserves
<1>4. base' # <<>> /\ FirstParse' /\ (outcome' = "accepted" => pc' = "top")
      /\ StateErrorOnlyFromResidue'
  BY <1>1 DEF IInv, FirstParse, StateErrorOnlyFromResidue
<1>5. QED
  BY <1>1, <1>2, <1>3, <1>4 DEF IInv

\* What the parser is about to send is refused only outside every container,
\* and only on top of what an earlier call left inside an object.
LEMMA RefusedOutside ==
    ASSUME IInv, outcome = "running", NEW ev \in Events, Due(ev), Refuses(ev)
    PROVE  parses > 1 /\ Last(base) \in {"in_object_name", "in_object_value"}
<1> USE DEF InString, InInteger, InReal, InLiteral, Scalars, Begins, Overrides, Refuses
<1>1. frames = <<>>
  <2> SUFFICES ASSUME frames # <<>> PROVE FALSE
    OBVIOUS
  <2>1. CASE In("array")
    <3>1. CurrentState = "in_array" /\ ~In("object")
      BY <2>1, TopLevel DEF In
    <3>2. ev \in Scalars \cup Begins \cup {"on_array_end"}
      BY <3>1 DEF Due
    <3>3. QED
      BY <3>1, <3>2
  <2>2. CASE In("object") /\ AwaitsValue
    <3>1. CurrentState = "in_object_value" /\ ~In("array")
      BY <2>2, TopLevel DEF In
    <3>2. pc # "after"
      BY <2>2 DEF AwaitsValue
    <3>3. ev \in Scalars \cup Begins
      BY <3>2 DEF Due
    <3>4. QED
      BY <3>1, <3>3
  <2>3. CASE In("object") /\ ~AwaitsValue
    <3>1. CurrentState = "in_object_name" /\ ~In("array")
      BY <2>3, TopLevel DEF In
    <3>2. pc \notin {"value", "string", "int", "frac", "exp", "boolean", "null", "element", "top"}
      BY <2>3, <3>1 DEF AwaitsValue, FramesFitPc, IInv
    <3>3. ev \in {"on_string", "on_object_end"}
      BY <3>1, <3>2 DEF Due
    <3>4. QED
      BY <3>1, <3>3
  <2>4. QED
    BY <2>1, <2>2, <2>3, TopLevel
<1>2. pc = "top" /\ ev \in Begins
  BY <1>1 DEF Due, FramesFitPc, IInv
<1>3. CurrentState = "in_object_name"
  BY <1>2, Heights DEF States
<1>4. Last(base) \in {"in_object_name", "in_object_value"}
  BY <1>1, <1>3, TopOutside
<1>5. base # <<"none">>
  BY <1>4 DEF Last
<1>6. parses > 1
  BY <1>5 DEF FirstParse, IInv, TypeOK
<1>7. QED
  BY <1>4, <1>6

\* The steps that end a parse.
LEMMA StopActions ==
    ASSUME IInv, outcome = "running", Return \/ Overrun \/ StateThrows \/ Reject
    PROVE  IInv'
<1>1. PICK how \in Outcomes :
          /\ Stop(how) /\ how # "idle"
          /\ how = "accepted" => pc = "top"
          /\ how = "state_error" =>
                 parses > 1 /\ Last(base) \in {"in_object_name", "in_object_value"}
  <2>1. CASE Return
    BY <2>1 DEF Return, Outcomes
  <2>2. CASE Overrun
    BY <2>2 DEF Overrun, Outcomes
  <2>3. CASE StateThrows
    BY <2>3, RefusedOutside DEF StateThrows, Outcomes
  <2>4. CASE Reject
    BY <2>4 DEF Reject, Outcomes, Rejections
  <2>5. QED
    BY <2>1, <2>2, <2>3, <2>4
<1>2. UNCHANGED <<pc, frames, events, stateStack, base, parses>> /\ outcome' = how
  BY <1>1 DEF Stop, sent
<1>3. AwaitsValue' = AwaitsValue /\ FramesFitPc'
  BY <1>2 DEF AwaitsValue, In, FramesFitPc, IInv
<1>4. TypeOK'
  BY StopsType DEF IInv
<1>5. /\ StackMirrorsNesting' /\ StackBelowIsKept' /\ PoisonedParseIsMute'
      /\ NoEventNoLevel'
  BY <1>2, <1>3, QuietPreserves
<1>6. base' # <<>> /\ FirstParse' /\ (outcome' = "accepted" => pc' = "top")
      /\ StateErrorOnlyFromResidue'
  BY <1>1, <1>2 DEF IInv, FirstParse, StateErrorOnlyFromResidue
<1>7. QED
  BY <1>3, <1>4, <1>5, <1>6 DEF IInv

\* What every step that sends an event leaves to show.
LEMMA SendPreserves ==
    ASSUME IInv, outcome = "running", NEW ev \in Events, Send(ev),
           TypeOK', FramesFitPc', StackMirrorsNesting',
           \A i \in 1 .. Len(base) : \/ stateStack'[i] = stateStack[i]
                                     \/ /\ i = Len(base) /\ stateStack[i] = "in_object_value"
                                        /\ stateStack'[i] = "in_object_name",
           events = <<>> /\ stateStack[Len(base)] = "in_object_value"
               => stateStack'[Len(base)] = "in_object_name",
           Last(base) # "in_object_name"
    PROVE  IInv'
<1>1. UNCHANGED <<outcome, parses, base>> /\ events' # <<>>
  <2>1. events \in Seq(Events)
    BY DEF IInv, TypeOK
  <2>2. UNCHANGED run /\ events' = Append(events, ev)
    BY DEF Send
  <2>3. QED
    BY <2>1, <2>2, AppendProperties DEF run
<1>2. StackBelowIsKept'
  <2>1. base \in Seq(States) /\ base # <<>>
    BY DEF IInv, TypeOK
  <2>2. base' = base /\ events' # <<>>
    BY <1>1
  <2>3. /\ Len(base) \in 1 .. Len(base)
        /\ \A i \in 1 .. Len(base) : BaseNow[i] =
               IF i = Len(base) /\ events # <<>> /\ base[i] = "in_object_value"
               THEN "in_object_name" ELSE base[i]
    BY <2>1, BaseNowIs
  <2>4. \A i \in 1 .. Len(base) : BaseNow'[i] =
            IF i = Len(base) /\ base[i] = "in_object_value" THEN "in_object_name" ELSE base[i]
    <3>1. BaseNow' = IF base[Len(base)] = "in_object_value"
                     THEN [base EXCEPT ![Len(base)] = "in_object_name"] ELSE base
      BY <2>1, <2>2, BaseNowIs DEF BaseNow
    <3> QED BY <2>1, <2>3, <3>1
  <2>5. \A i \in 1 .. Len(base) : stateStack[i] = BaseNow[i]
    BY DEF IInv, StackBelowIsKept
  <2>6. ASSUME NEW i \in 1 .. Len(base) PROVE stateStack'[i] = BaseNow'[i]
    BY <2>3, <2>4, <2>5
  <2> QED BY <2>2, <2>6 DEF StackBelowIsKept
<1>3. base' # <<>> /\ FirstParse' /\ (outcome' = "accepted" => pc' = "top")
      /\ StateErrorOnlyFromResidue' /\ PoisonedParseIsMute' /\ NoEventNoLevel'
  BY <1>1 DEF IInv, FirstParse, StateErrorOnlyFromResidue, PoisonedParseIsMute, NoEventNoLevel
<1>4. QED
  BY <1>2, <1>3 DEF IInv

LEMMA BeginActions ==
    ASSUME IInv, outcome = "running", BeginArray \/ BeginObject
    PROVE  IInv'
<1> DEFINE n == Len(base)
           f == Len(frames)
<1>1. PICK ev \in Begins, kind \in {"array", "object"}, label \in {"element", "member"} :
          /\ BeginContainer(ev, kind, label)
          /\ kind = "array" => label = "element" /\ StateOf(ev) = "in_array"
          /\ kind = "object" => label = "member" /\ StateOf(ev) = "in_object_name"
  BY DEF BeginArray, BeginObject, Begins, StateOf
<1>2. ev \in Events /\ Send(ev) /\ Deliver(ev) /\ frames' = Append(frames, kind) /\ pc' = label
      /\ base' = base
  BY <1>1 DEF BeginContainer, Send, Goto, Events, run
<1>3. /\ Len(stateStack') = n + f + 1
      /\ stateStack'[n + f + 1] = StateOf(ev)
      /\ \A i \in 1 .. n + f - 1 : stateStack'[i] = stateStack[i]
      /\ stateStack'[n + f] =
             IF CurrentState = "in_object_value" THEN "in_object_name" ELSE CurrentState
      /\ CurrentState # "in_object_name"
  BY <1>1, <1>2, DeliverBegin, Heights
<1>4. /\ frames' \in Seq({"array", "object"}) /\ Len(frames') = f + 1 /\ frames' # <<>>
      /\ frames'[f + 1] = kind /\ Last(frames') = kind
      /\ \A i \in 1 .. f : frames'[i] = frames[i]
  <2>1. frames \in Seq({"array", "object"})
    BY DEF IInv, TypeOK
  <2>2. /\ frames' \in Seq({"array", "object"}) /\ Len(frames') = f + 1 /\ frames' # <<>>
        /\ frames'[f + 1] = kind
        /\ \A i \in 1 .. f : frames'[i] = frames[i]
    BY <1>2, <2>1, PushTop
  <2>3. QED
    BY <2>2 DEF Last
<1>5. FramesFitPc' /\ ~AwaitsValue'
  BY <1>1, <1>2, <1>4 DEF FramesFitPc, In, AwaitsValue, InInteger, InReal, InLiteral
<1>6. pc \in {"top", "element", "value"}
  BY <1>2, <1>1 DEF Send, Due, Begins
<1>7. ASSUME NEW i \in 1 .. f + 1 PROVE stateStack'[n + i] = Level(i)'
  <2>1. CASE i = f + 1
    BY <2>1, <1>1, <1>3, <1>4, <1>5, Heights DEF Level
  <2>2. CASE i = f
    <3>1. frames # <<>> /\ i \in 1 .. f /\ Last(frames) = frames[f]
      BY <2>2, Heights DEF Last
    <3>2. stateStack'[n + f] = IF In("array") THEN "in_array" ELSE "in_object_name"
      BY <3>1, <1>3, TopLevel DEF In
    <3>3. frames'[f] = "array" <=> In("array")
      BY <3>1, <2>2, <1>4, Heights DEF In
    <3>4. QED
      BY <3>1, <3>2, <3>3, <2>2, <1>4, <1>5, Heights DEF Level
  <2>3. CASE i \in 1 .. f - 1
    <3>1. stateStack[n + i] = Level(i) /\ i # f
      BY <2>3, Heights DEF IInv, StackMirrorsNesting
    <3>2. stateStack'[n + i] = stateStack[n + i] /\ frames'[i] = frames[i] /\ i # Len(frames')
      BY <2>3, <1>3, <1>4, Heights
    <3>3. QED
      BY <3>1, <3>2 DEF Level
  <2>4. QED
    BY <2>1, <2>2, <2>3, Heights
<1>8. StackMirrorsNesting'
  BY <1>2, <1>3, <1>4, <1>7, Heights DEF StackMirrorsNesting
<1>9. \A i \in 1 .. n : \/ stateStack'[i] = stateStack[i]
                        \/ /\ i = n /\ stateStack[i] = "in_object_value"
                           /\ stateStack'[i] = "in_object_name"
  BY <1>3, Heights
<1>13. events = <<>> /\ stateStack[n] = "in_object_value" => stateStack'[n] = "in_object_name"
  <2>1. events = <<>> => f = 0
    BY Heights DEF IInv, NoEventNoLevel
  <2> QED BY <1>3, <2>1, Heights
<1>10. Last(base) # "in_object_name"
  <2>1. SUFFICES ASSUME Last(base) = "in_object_name" PROVE FALSE
    OBVIOUS
  <2>2. frames = <<>> /\ CurrentState = "in_object_name"
    BY <2>1, PoisonedIsOutside, TopOutside
  <2>3. QED
    BY <2>2, <1>3
<1>11. TypeOK'
  BY ContainerType, Heights DEF IInv, StackOK
<1>12. QED
  BY <1>2, <1>5, <1>8, <1>9, <1>10, <1>11, <1>13, SendPreserves

LEMMA EndActions ==
    ASSUME IInv, outcome = "running", EndArray \/ EndObject
    PROVE  IInv'
<1> DEFINE n == Len(base)
           f == Len(frames)
<1>1. PICK ev \in Ends : EndContainer(ev)
  BY DEF EndArray, EndObject, Ends
<1>2. /\ ev \in Events /\ Send(ev) /\ Deliver(ev) /\ frames' = Front(frames)
      /\ pc' = ReturnTo(frames') /\ base' = base
  BY <1>1 DEF EndContainer, Send, Goto, Events, run
<1>3. frames # <<>> /\ f > 0
  <2>1. frames # <<>>
    BY <1>1, <1>2 DEF Send, Due, Ends, In
  <2>2. QED
    BY <2>1, Heights
<1>4. Last(base) # "in_object_name"
  BY <1>3, PoisonedIsOutside
<1>5. /\ Len(stateStack') = n + f - 1
      /\ \A i \in 1 .. n + f - 1 : stateStack'[i] = stateStack[i]
  BY <1>1, <1>2, DeliverEnd, PopTop, Heights DEF StackOK
<1>6. /\ frames' \in Seq({"array", "object"}) /\ Len(frames') = f - 1
      /\ \A i \in 1 .. f - 1 : frames'[i] = frames[i]
  <2>1. frames \in Seq({"array", "object"})
    BY DEF IInv, TypeOK
  <2>2. QED
    BY <1>2, <1>3, <2>1, PopTop
<1>7. FramesFitPc' /\ ~AwaitsValue'
  BY <1>2 DEF ReturnTo, FramesFitPc, In, AwaitsValue, InInteger, InReal, InLiteral
<1>8. ASSUME NEW i \in 1 .. f - 1 PROVE stateStack'[n + i] = Level(i)'
  <2>1. stateStack[n + i] = Level(i) /\ i # f
    BY Heights DEF IInv, StackMirrorsNesting
  <2>2. stateStack'[n + i] = stateStack[n + i] /\ frames'[i] = frames[i]
    BY <1>5, <1>6, Heights
  <2>3. QED
    BY <2>1, <2>2, <1>7 DEF Level
<1>9. StackMirrorsNesting'
  BY <1>2, <1>5, <1>6, <1>8, Heights DEF StackMirrorsNesting
<1>10. \A i \in 1 .. n : stateStack'[i] = stateStack[i]
  BY <1>3, <1>5, Heights
<1>11. TypeOK'
  BY ContainerType, Heights DEF IInv, StackOK
<1>13. events # <<>>
  BY <1>3 DEF IInv, NoEventNoLevel
<1>12. QED
  BY <1>2, <1>4, <1>7, <1>9, <1>10, <1>11, <1>13, SendPreserves

LEMMA ScalarActions ==
    ASSUME IInv, outcome = "running", EndString \/ EndScalar
    PROVE  IInv'
<1> DEFINE n == Len(base)
           f == Len(frames)
<1> USE DEF InString, InInteger, InReal, InLiteral
<1>1. PICK ev \in Scalars :
          /\ Send(ev)
          /\ pc = "key" => pc' = "colon" /\ ev = "on_string"
          /\ pc # "key" => pc' = "after"
          /\ pc \in InString \cup InInteger \cup InReal \cup InLiteral
  <2>1. CASE EndString
    BY <2>1 DEF EndString, Send, Due, Goto, Scalars
  <2>2. CASE EndScalar
    BY <2>2 DEF EndScalar, Send, Due, Goto, Scalars
  <2>3. QED
    BY <2>1, <2>2
<1>2. ev \in Events /\ Deliver(ev) /\ frames' = frames /\ base' = base
  BY <1>1 DEF EndString, EndScalar, Send, Events, run
<1>3. frames # <<>> /\ f > 0 /\ (In("array") \/ In("object"))
  <2>1. frames # <<>>
    BY <1>1 DEF FramesFitPc, IInv
  <2>2. QED
    BY <2>1, Heights, TopLevel
<1>4. Last(base) # "in_object_name"
  BY <1>3, PoisonedIsOutside
<1>5. AwaitsValue <=> In("object") /\ pc # "key"
  BY <1>1 DEF AwaitsValue
<1>6. AwaitsValue' <=> In("object") /\ pc = "key"
  BY <1>1, <1>2 DEF AwaitsValue, In
<1>7. /\ Len(stateStack') = n + f
      /\ \A i \in 1 .. n + f - 1 : stateStack'[i] = stateStack[i]
      /\ stateStack'[n + f] =
             IF In("array") THEN "in_array"
             ELSE IF pc = "key" THEN "in_object_value" ELSE "in_object_name"
  <2>1. CASE In("array")
    <3>1. CurrentState = "in_array"
      BY <1>3, <2>1, TopLevel
    <3>2. stateStack' = stateStack
      BY <1>1, <1>2, <3>1, DeliverScalar, Heights
    <3>3. QED
      BY <2>1, <3>1, <3>2, Heights
  <2>2. CASE In("object")
    <3>1. CurrentState = (IF pc = "key" THEN "in_object_name" ELSE "in_object_value")
          /\ ~In("array")
      BY <1>3, <1>5, <2>2, TopLevel DEF In
    <3>2. PICK s \in {"in_object_name", "in_object_value"} :
              /\ CurrentState \in {"in_object_name", "in_object_value"} \ {s}
              /\ Len(stateStack') = Len(stateStack)
              /\ stateStack'[Len(stateStack)] = s
              /\ \A i \in 1 .. Len(stateStack) - 1 : stateStack'[i] = stateStack[i]
      BY <1>1, <1>2, <3>1, DeliverScalar, Heights
    <3>3. QED
      BY <3>1, <3>2, Heights
  <2>3. QED
    BY <1>3, <2>1, <2>2
<1>8. FramesFitPc'
  BY <1>1, <1>2, <1>3 DEF FramesFitPc, In, IInv
<1>9. ASSUME NEW i \in 1 .. f PROVE stateStack'[n + i] = Level(i)'
  <2>1. CASE i = f
    <3>1. frames[i] = "array" <=> In("array")
      BY <1>3, <2>1 DEF In, Last
    <3>2. CASE In("array")
      BY <1>2, <1>7, <2>1, <3>1, <3>2 DEF Level
    <3>3. CASE ~In("array") /\ pc = "key"
      BY <1>2, <1>3, <1>6, <1>7, <2>1, <3>1, <3>3 DEF Level
    <3>4. CASE ~In("array") /\ pc # "key"
      BY <1>2, <1>6, <1>7, <2>1, <3>1, <3>4 DEF Level
    <3>5. QED
      BY <3>2, <3>3, <3>4
  <2>2. CASE i \in 1 .. f - 1
    <3>1. stateStack[n + i] = Level(i) /\ i # f
      BY <2>2, Heights DEF IInv, StackMirrorsNesting
    <3>2. stateStack'[n + i] = stateStack[n + i]
      BY <2>2, <1>7, Heights
    <3>3. QED
      BY <3>1, <3>2, <1>2 DEF Level
  <2>3. QED
    BY <2>1, <2>2, Heights
<1>10. StackMirrorsNesting'
  BY <1>2, <1>7, <1>9, Heights DEF StackMirrorsNesting
<1>11. \A i \in 1 .. n : stateStack'[i] = stateStack[i]
  BY <1>3, <1>7, Heights
<1>12. TypeOK'
  BY ScalarType, Heights DEF IInv, StackOK
<1>13. events # <<>>
  BY <1>3 DEF IInv, NoEventNoLevel
<1>14. QED
  BY <1>1, <1>2, <1>4, <1>8, <1>10, <1>11, <1>12, <1>13, SendPreserves

LEMMA StartAction ==
    ASSUME IInv, StartParse
    PROVE  IInv'
<1>1. /\ base' = stateStack /\ stateStack' = stateStack /\ frames' = <<>> /\ events' = <<>>
      /\ pc' = "top" /\ outcome' = "running" /\ parses' = parses + 1
  BY DEF StartParse, Goto
<1>2. TypeOK'
  BY StartType DEF IInv
<1>3. base' # <<>>
  BY <1>1, Heights DEF StackOK
<1>4. FramesFitPc'
  BY <1>1 DEF FramesFitPc
<1>5. FirstParse'
  BY <1>1 DEF FirstParse, IInv, TypeOK
<1>6. Len(frames') = 0
  BY <1>1
<1>7. StackMirrorsNesting'
  BY <1>1, <1>6, Heights DEF StackMirrorsNesting
<1>8. StackBelowIsKept' /\ PoisonedParseIsMute' /\ StateErrorOnlyFromResidue'
      /\ (outcome' = "accepted" => pc' = "top") /\ NoEventNoLevel'
  BY <1>1 DEF StackBelowIsKept, BaseNow, PoisonedParseIsMute, StateErrorOnlyFromResidue,
              NoEventNoLevel
<1>9. QED
  BY <1>2, <1>3, <1>4, <1>5, <1>7, <1>8 DEF IInv

LEMMA InitIInv == Init => IInv
<1> SUFFICES ASSUME Init PROVE IInv
  OBVIOUS
<1>1. /\ stateStack = <<"none">> /\ base = <<"none">>
      /\ text = <<>> /\ frames = <<>> /\ want = <<>> /\ buffer = <<>> /\ events = <<>>
      /\ peek = "end" /\ pc = "top" /\ outcome = "idle" /\ parses = 0
  BY DEF Init, InitStack
<1>2. inSlash \in BOOLEAN
  BY DEF Init
<1>3. base # <<>> /\ base \in Seq(States) /\ stateStack \in Seq(States)
  BY <1>1 DEF States
<1>4. /\ text \in Seq(Alphabet) /\ frames \in Seq({"array", "object"}) /\ want \in Seq(Char)
      /\ buffer \in Seq(Alphabet) /\ events \in Seq(Events)
  BY <1>1, EmptySeq
<1>5. TypeOK
  BY <1>1, <1>2, <1>3, <1>4, BoundsAssumption DEF TypeOK, PCs, Outcomes
<1>6. Len(frames) = 0 /\ Len(stateStack) = 1 /\ Len(base) = 1
  BY <1>1
<1>7. StackMirrorsNesting
  BY <1>6 DEF StackMirrorsNesting
<1>8. FramesFitPc /\ FirstParse /\ StackBelowIsKept /\ PoisonedParseIsMute
      /\ StateErrorOnlyFromResidue /\ (outcome = "accepted" => pc = "top") /\ NoEventNoLevel
  BY <1>1 DEF FramesFitPc, FirstParse, StackBelowIsKept, BaseNow, PoisonedParseIsMute,
              StateErrorOnlyFromResidue, NoEventNoLevel
<1>9. QED
  BY <1>3, <1>5, <1>7, <1>8 DEF IInv

LEMMA NextIInv == IInv /\ [Next]_vars => IInv'
<1> SUFFICES ASSUME IInv, [Next]_vars PROVE IInv'
  OBVIOUS
<1>1. CASE UNCHANGED vars
  <2>1. UNCHANGED <<pc, frames, events, stateStack, base, parses, outcome>>
    BY <1>1 DEF vars, sent, run
  <2>2. AwaitsValue' = AwaitsValue /\ FramesFitPc'
    BY <2>1 DEF AwaitsValue, In, FramesFitPc, IInv
  <2>3. TypeOK'
    BY NextType, Heights DEF IInv, StackOK
  <2>4. /\ StackMirrorsNesting' /\ StackBelowIsKept' /\ PoisonedParseIsMute'
      /\ NoEventNoLevel'
    BY <2>1, <2>2, QuietPreserves
  <2>5. QED
    BY <2>1, <2>2, <2>3, <2>4 DEF IInv, FirstParse, StateErrorOnlyFromResidue
<1>2. CASE StartParse
  BY <1>2, StartAction
<1>3. CASE ParserStep
  BY <1>3, BeginActions, EndActions, ScalarActions, QuietActions, StopActions
     DEF ParserStep, QuietStep
<1>4. QED
  BY <1>1, <1>2, <1>3 DEF Next

LEMMA SpecIInv == Spec => []IInv
BY InitIInv, NextIInv, PTL DEF Spec

-----------------------------------------------------------------------------
\* The events are a stream of properly nested containers.

LEMMA NamedIsBoolean == AwaitsValue \in BOOLEAN /\ AwaitsValue' \in BOOLEAN
BY DEF AwaitsValue

\* The library's operators, as EventStream names them.
LEMMA StreamOperators ==
    /\ Stream!InArray <=> In("array")
    /\ Stream!InObject <=> In("object")
    /\ \A ev : Stream!Emit(ev) <=> events' = Append(events, ev)
    /\ Stream!Front(frames) = Front(frames)
BY DEF Stream!InArray, Stream!InObject, Stream!Emit, Stream!Last, Last, Stream!Front, Front, In

LEMMA BeginRefines ==
    ASSUME IInv, outcome = "running", BeginArray \/ BeginObject
    PROVE  Stream!Event
<1>1. PICK ev \in Begins, kind \in {"array", "object"}, label \in {"element", "member"} :
          /\ BeginContainer(ev, kind, label)
          /\ ev = (IF kind = "object" THEN "on_object_begin" ELSE "on_array_begin")
          /\ kind = "array" => label = "element"
          /\ kind = "object" => label = "member"
  BY DEF BeginArray, BeginObject, Begins
<1>2. /\ pc \in {"top", "element", "value"} /\ pc' = label /\ outcome' = outcome
      /\ frames' = Append(frames, kind) /\ events' = Append(events, ev)
  BY <1>1 DEF BeginContainer, Send, Due, Goto, Begins, run
<1>3. frames = <<>> \/ In("array") \/ (In("object") /\ AwaitsValue)
  BY <1>2 DEF FramesFitPc, IInv, AwaitsValue
<1>4. ~AwaitsValue'
  BY <1>2 DEF AwaitsValue, InInteger, InReal, InLiteral
<1>5. StreamStatus = "running" /\ StreamStatus' = "running"
  BY <1>2 DEF StreamStatus
<1>6. Stream!Begin(kind)
  <2>1. frames = <<>> \/ Stream!ExpectsValue
    BY <1>3, StreamOperators DEF Stream!ExpectsValue
  <2>2. Stream!Emit(IF kind = "object" THEN "on_object_begin" ELSE "on_array_begin")
    BY <1>1, <1>2, StreamOperators
  <2>3. AwaitsValue' = FALSE
    BY <1>4, NamedIsBoolean
  <2>4. QED
    BY <1>2, <2>1, <2>2, <2>3 DEF Stream!Begin
<1>7. QED
  BY <1>5, <1>6 DEF Stream!Event

LEMMA EndRefines ==
    ASSUME IInv, outcome = "running", EndArray \/ EndObject
    PROVE  Stream!Event
<1>1. PICK ev \in Ends : EndContainer(ev)
  BY DEF EndArray, EndObject, Ends
<1>2. /\ pc = "after" /\ pc' = ReturnTo(frames') /\ outcome' = outcome
      /\ frames' = Front(frames) /\ events' = Append(events, ev)
      /\ \/ In("object") /\ ev = "on_object_end"
         \/ In("array") /\ ev = "on_array_end"
  BY <1>1 DEF EndContainer, Send, Due, Goto, Ends, run
<1>3. ~AwaitsValue /\ ~AwaitsValue'
  BY <1>2 DEF AwaitsValue, ReturnTo, InInteger, InReal, InLiteral
<1>4. StreamStatus = "running" /\ StreamStatus' = "running"
  BY <1>2 DEF StreamStatus
<1>5. Stream!End
  <2>1. Stream!InArray \/ (Stream!InObject /\ ~AwaitsValue)
    BY <1>2, <1>3, StreamOperators
  <2>2. Stream!Emit(IF Stream!InObject THEN "on_object_end" ELSE "on_array_end")
    BY <1>2, StreamOperators DEF In
  <2>3. AwaitsValue' = FALSE /\ frames' = Stream!Front(frames)
    BY <1>2, <1>3, NamedIsBoolean, StreamOperators
  <2>4. QED
    BY <2>1, <2>2, <2>3 DEF Stream!End
<1>6. QED
  BY <1>4, <1>5 DEF Stream!Event

LEMMA ScalarRefines ==
    ASSUME IInv, outcome = "running", EndString \/ EndScalar
    PROVE  Stream!Event
<1> USE DEF InString, InInteger, InReal, InLiteral
<1>1. PICK ev \in Scalars :
          /\ Send(ev) /\ frames' = frames
          /\ pc = "key" => pc' = "colon" /\ ev = "on_string"
          /\ pc # "key" => pc' = "after"
          /\ pc \in InString \cup InInteger \cup InReal \cup InLiteral
  <2>1. CASE EndString
    BY <2>1 DEF EndString, Send, Due, Goto, Scalars
  <2>2. CASE EndScalar
    BY <2>2 DEF EndScalar, Send, Due, Goto, Scalars
  <2>3. QED
    BY <2>1, <2>2
<1>2. outcome' = outcome /\ events' = Append(events, ev)
  BY <1>1 DEF Send, run
<1>3. StreamStatus = "running" /\ StreamStatus' = "running"
  BY <1>2 DEF StreamStatus
<1>4. frames # <<>> /\ (In("array") \/ In("object"))
  BY <1>1, TopLevel DEF FramesFitPc, IInv
<1>5. CASE pc = "key"
  <2>1. In("object") /\ ~AwaitsValue /\ AwaitsValue'
    BY <1>1, <1>5 DEF FramesFitPc, IInv, AwaitsValue, In
  <2>2. Stream!Name
    <3>1. Stream!InObject /\ Stream!Emit("on_string")
      BY <1>1, <1>2, <1>5, <2>1, StreamOperators
    <3>2. AwaitsValue' = TRUE
      BY <2>1, NamedIsBoolean
    <3>3. QED
      BY <1>1, <2>1, <3>1, <3>2 DEF Stream!Name
  <2>3. QED
    BY <1>3, <2>2 DEF Stream!Event
<1>6. CASE pc # "key"
  <2>1. In("array") \/ (In("object") /\ AwaitsValue)
    BY <1>1, <1>4, <1>6 DEF AwaitsValue
  <2>2. ~AwaitsValue'
    BY <1>1, <1>6 DEF AwaitsValue
  <2>3. Stream!Scalar(ev) /\ ev \in Stream!Scalars
    <3>1. Stream!ExpectsValue /\ Stream!Emit(ev)
      BY <1>2, <2>1, StreamOperators DEF Stream!ExpectsValue
    <3>2. AwaitsValue' = FALSE
      BY <2>2, NamedIsBoolean
    <3>3. QED
      BY <1>1, <3>1, <3>2 DEF Stream!Scalar, Stream!Scalars, Scalars
  <2>4. QED
    BY <1>3, <2>3 DEF Stream!Event
<1>7. QED
  BY <1>5, <1>6

LEMMA StopRefines ==
    ASSUME IInv, outcome = "running", Return \/ Overrun \/ StateThrows \/ Reject
    PROVE  Stream!Stop
<1>1. PICK how \in Outcomes :
          Stop(how) /\ how \notin {"idle", "running"} /\ (how = "accepted" => pc = "top")
  BY DEF Return, Overrun, StateThrows, Reject, Outcomes, Rejections
<1>2. UNCHANGED <<pc, frames, events>> /\ outcome' = how
  BY <1>1 DEF Stop, sent
<1>3. AwaitsValue' = AwaitsValue
  BY <1>2 DEF AwaitsValue, In
<1>4. StreamStatus = "running"
  BY DEF StreamStatus
<1>5. StreamStatus' \in {"threw", "undefined"} \/ (StreamStatus' = "returned" /\ frames = <<>>)
  BY <1>1, <1>2 DEF StreamStatus, FramesFitPc, IInv
<1>6. QED
  BY <1>2, <1>3, <1>4, <1>5 DEF Stream!Stop

LEMMA StartRefines ==
    ASSUME IInv, StartParse
    PROVE  Stream!Start
<1>1. outcome \in Outcomes \ {"running", "overrun"}
  BY DEF StartParse, IInv, TypeOK
<1>2. StreamStatus \in {"idle", "returned", "threw"}
  BY <1>1 DEF StreamStatus, Outcomes, Rejections
<1>3. StreamStatus' = "running" /\ frames' = <<>> /\ events' = <<>>
  BY DEF StartParse, StreamStatus
<1>4. ~AwaitsValue'
  BY <1>3 DEF AwaitsValue, In
<1>5. QED
  BY <1>2, <1>3, <1>4 DEF Stream!Start

LEMMA InitRefines == Init => Stream!Init
<1> SUFFICES ASSUME Init PROVE Stream!Init
  OBVIOUS
<1>1. frames = <<>> /\ events = <<>> /\ StreamStatus = "idle"
  BY DEF Init, StreamStatus
<1>2. ~AwaitsValue
  BY <1>1 DEF AwaitsValue, In
<1>3. QED
  BY <1>1, <1>2 DEF Stream!Init

LEMMA NextRefines == IInv /\ [Next]_vars => [Stream!Next]_(Stream!vars)
<1> SUFFICES ASSUME IInv, [Next]_vars PROVE [Stream!Next]_(Stream!vars)
  OBVIOUS
<1>1. ASSUME UNCHANGED <<frames, events, outcome>>, AwaitsValue' = AwaitsValue
      PROVE  UNCHANGED Stream!vars
  BY <1>1 DEF Stream!vars, StreamStatus
<1>2. CASE UNCHANGED vars
  <2>1. UNCHANGED <<pc, frames, events, outcome>>
    BY <1>2 DEF vars, sent, run
  <2>2. QED
    BY <1>1, <2>1 DEF AwaitsValue, In
<1>3. CASE StartParse
  BY <1>3, StartRefines DEF Stream!Next
<1>4. CASE outcome = "running" /\ QuietStep
  BY <1>1, <1>4, QuietNesting DEF sent, run
<1>5. CASE ParserStep /\ ~QuietStep
  BY <1>5, BeginRefines, EndRefines, ScalarRefines, StopRefines
     DEF ParserStep, QuietStep, Stream!Next
<1>6. QED
  BY <1>2, <1>3, <1>4, <1>5 DEF Next, ParserStep

\* Two stacks of the same height with the same levels are the same.
LEMMA RestoredLemma == IInv => AcceptRestoresStack
<1> SUFFICES ASSUME IInv, outcome = "accepted"
             PROVE  stateStack = BaseNow
  BY DEF AcceptRestoresStack
<1>1. Len(stateStack) = Len(base)
  BY Heights DEF IInv, FramesFitPc
<1>2. BaseNow \in Seq(States) /\ Len(BaseNow) = Len(base)
  BY BaseNowIs DEF IInv, TypeOK
<1>3. \A i \in 1 .. Len(stateStack) : stateStack[i] = BaseNow[i]
  BY <1>1 DEF IInv, StackBelowIsKept
<1>4. QED
  BY <1>1, <1>2, <1>3, SeqEqual DEF IInv, TypeOK

-----------------------------------------------------------------------------
\* Every variable stays in its set.
THEOREM TypeCorrect == Spec => []TypeOK
<1>1. IInv => TypeOK
  BY DEF IInv
<1>2. QED
  BY <1>1, SpecIInv, PTL

\* The process-wide stack of states follows the C++ call stack, above what
\* the parse found and leaves alone, after exceptions too.
THEOREM StackFollowsCalls == Spec => [](StackMirrorsNesting /\ StackBelowIsKept)
<1>1. IInv => StackMirrorsNesting /\ StackBelowIsKept
  BY DEF IInv
<1>2. QED
  BY <1>1, SpecIInv, PTL

\* StackBelowIsKept: what earlier calls left on the stack stays below.
COROLLARY ResidueIsKept == Spec => []StackBelowIsKept
BY StackFollowsCalls, PTL

\* A call that returns normally leaves the stack as it found it, but for a
\* member on top that waited for its value: it expects a name now, if the call
\* delivered an event, and still its value if not.
THEOREM AcceptRestores == Spec => []AcceptRestoresStack
BY RestoredLemma, SpecIInv, PTL

\* No text makes the state machine refuse an event of the parser: only what a
\* failed call left on the stack does.
THEOREM OnlyResidueRefuses == Spec => []StateErrorOnlyFromResidue
<1>1. IInv => StateErrorOnlyFromResidue
  BY DEF IInv
<1>2. QED
  BY <1>1, SpecIInv, PTL

\* After a call that failed where an object expects a name, every later call
\* in the process delivers nothing.
THEOREM PoisonedIsMute == Spec => []PoisonedParseIsMute
<1>1. IInv => PoisonedParseIsMute
  BY DEF IInv
<1>2. QED
  BY <1>1, SpecIInv, PTL

\* What json_parser delivers is an event stream.
THEOREM ParserDeliversStream == Spec => DeliversEventStream
BY InitRefines, NextRefines, SpecIInv, PTL DEF Spec, DeliversEventStream, Stream!Spec
-----------------------------------------------------------------------------
\* What the buffer of state_control_t holds while a token is read.

InToken == {"string"} \cup InInteger \cup InReal
BeforeValue == Whitespace \cup {"[", ",", ":"}

\* A value starts right after a character that cannot be part of one.
ValueFollows == pc \in {"element", "value"} => text # <<>> /\ Last(text) \in BeforeValue

TokenInv == BufferIsToken /\ ValueFollows

LEMMA TextTypes ==
    ASSUME IInv
    PROVE  /\ text \in Seq(Alphabet) /\ buffer \in Seq(Alphabet)
           /\ Len(text) \in Nat /\ Len(buffer) \in Nat
           /\ text # <<>> => Len(text) > 0 /\ Last(text) = text[Len(text)]
<1>1. text \in Seq(Alphabet) /\ buffer \in Seq(Alphabet)
  BY DEF IInv, TypeOK
<1>2. QED
  BY <1>1, LenProperties, LastInSeq

\* One more character.
LEMMA ConsumeText ==
    ASSUME IInv, Consume
    PROVE  /\ peek \in Alphabet /\ text' = Append(text, peek) /\ text' # <<>>
           /\ Len(text') = Len(text) + 1 /\ Last(text') = peek
           /\ text'[Len(text) + 1] = peek
           /\ \A i \in 1 .. Len(text) : text'[i] = text[i]
<1>1. peek \in Alphabet /\ text' = Append(text, peek)
  BY ConsumeType DEF IInv, Consume
<1>2. /\ text' # <<>> /\ Len(text') = Len(text) + 1 /\ text'[Len(text) + 1] = peek
      /\ \A i \in 1 .. Len(text) : text'[i] = text[i]
  BY <1>1, TextTypes, AppendProperties
<1>3. QED
  BY <1>1, <1>2 DEF Last

\* A character that is consumed and pushed inside a token.
LEMMA KeepToken ==
    ASSUME IInv, BufferIsToken, Keep, pc \in InToken, pc' \in InToken,
           pc = "string" <=> pc' = "string"
    PROVE  BufferIsToken'
<1> DEFINE before == Len(text) - Len(buffer)
<1>1. pc \in InToken /\ Len(text) \in Nat /\ Len(buffer) \in Nat /\ before \in Int
  BY TextTypes
<1>2. /\ before >= 1
      /\ buffer = SubSeq(text, before + 1, Len(text))
      /\ IF pc = "string" THEN text[before] = "quote" ELSE text[before] \in BeforeValue
  BY <1>1 DEF BufferIsToken, InToken, BeforeValue
<1>3. before \in 1 .. Len(text) /\ before + 1 \in 1 .. Len(text) + 1
  BY <1>1, <1>2
<1>4. /\ peek \in Alphabet /\ text' = Append(text, peek) /\ Len(text') = Len(text) + 1
      /\ text'[before] = text[before]
  BY <1>3, ConsumeText DEF Keep
<1>5. buffer' = Append(buffer, peek) /\ Len(buffer') = Len(buffer) + 1
  BY <1>4, TextTypes, AppendProperties DEF Keep
<1>6. SubSeq(Append(text, peek), before + 1, Len(text) + 1)
        = Append(SubSeq(text, before + 1, Len(text)), peek)
  <2>1. text \in Seq(Alphabet) /\ peek \in Alphabet
    BY <1>4, TextTypes
  <2> HIDE DEF before
  <2>2. QED
    BY <1>3, <2>1, SubSeqAppend
<1>7. buffer' = SubSeq(text', before + 1, Len(text'))
  BY <1>2, <1>4, <1>5, <1>6
<1>8. Len(text') - Len(buffer') = before
  BY <1>1, <1>4, <1>5
<1>9. IF pc' = "string" THEN text'[before] = "quote" ELSE text'[before] \in BeforeValue
  BY <1>2, <1>4
<1> HIDE DEF before
<1>10. QED
  BY <1>2, <1>3, <1>7, <1>8, <1>9 DEF BufferIsToken, BeforeValue

\* The steps after which the parser is neither in a token nor before a value.
LEMMA OutsideToken ==
    ASSUME pc' \notin InToken, pc' \notin {"element", "value"}
    PROVE  TokenInv'
BY DEF TokenInv, BufferIsToken, ValueFollows, InToken

\* The steps that leave the text, the buffer and the place alone.
LEMMA SameToken ==
    ASSUME TokenInv, UNCHANGED <<pc, text, buffer>>
    PROVE  TokenInv'
<1>1. BufferIsToken' = BufferIsToken
  BY DEF BufferIsToken
<1>2. ValueFollows' = ValueFollows
  BY DEF ValueFollows
<1>3. QED
  BY <1>1, <1>2 DEF TokenInv

\* The steps that lead to a value.
LEMMA BeforeValueActions ==
    ASSUME IInv, Consume, peek \in BeforeValue, pc' \in {"element", "value"}
    PROVE  TokenInv'
<1>1. ValueFollows'
  BY ConsumeText DEF ValueFollows
<1>2. BufferIsToken'
  BY DEF BufferIsToken, InInteger, InReal
<1>3. QED
  BY <1>1, <1>2 DEF TokenInv

\* The first character of a string.
LEMMA EnterStringActions ==
    ASSUME IInv, EnterValueString
    PROVE  TokenInv'
<1>1. Consume /\ peek = "quote" /\ pc' = "string" /\ buffer' = <<>>
  BY DEF EnterValueString, EnterString, Goto
<1>2. /\ Len(text) \in Nat /\ Len(buffer') = 0 /\ Len(text') = Len(text) + 1
      /\ text'[Len(text) + 1] = "quote" /\ text' \in Seq(Alphabet)
  BY <1>1, TextTypes, ConsumeText, ConsumeType DEF IInv
<1> DEFINE n == Len(text')
<1>3. n \in Nat /\ n - Len(buffer') = n /\ n >= 1 /\ text'[n] = "quote"
  BY <1>2
<1>4. SubSeq(text', n + 1, n) = <<>>
  <2> HIDE DEF n
  <2>1. \A i \in n + 1 .. n : text'[i] \in Alphabet
    BY <1>3
  <2>2. SubSeq(text', n + 1, n) \in Seq(Alphabet) /\ Len(SubSeq(text', n + 1, n)) = 0
    BY <1>3, <2>1, SubSeqProperties
  <2>3. QED
    BY <2>2, EmptySeq
<1>5. BufferIsToken'
  BY <1>1, <1>3, <1>4 DEF BufferIsToken
<1>6. QED
  BY <1>1, <1>5 DEF TokenInv, ValueFollows

\* The sign or, when there is none, the place before the first digit.
LEMMA EnterNumberActions ==
    ASSUME IInv, TokenInv, EnterNumber
    PROVE  TokenInv'
<1> DEFINE n == Len(text)
<1>1. /\ pc \in {"element", "value"} /\ pc' = "int_first" /\ n \in Nat /\ n >= 1
      /\ text[n] \in BeforeValue /\ text \in Seq(Alphabet)
  BY TextTypes DEF EnterNumber, Goto, TokenInv, ValueFollows
<1>2. CASE peek = "-"
  <2>1. /\ Consume /\ buffer' = <<"-">> /\ Len(buffer') = 1
        /\ Len(text') = n + 1 /\ text'[n + 1] = "-" /\ text'[n] = text[n]
        /\ "-" \in Alphabet
    BY <1>1, <1>2, ConsumeText DEF EnterNumber
  <2> HIDE DEF n
  <2>2. Len(text') - Len(buffer') = n
    BY <1>1, <2>1
  <2>3. SubSeq(text', n + 1, n + 1) = <<"-">>
    <3>1. \A i \in n + 1 .. n + 1 : text'[i] \in Alphabet
      BY <1>1, <2>1
    <3>2. /\ SubSeq(text', n + 1, n + 1) \in Seq(Alphabet)
          /\ Len(SubSeq(text', n + 1, n + 1)) = 1
          /\ SubSeq(text', n + 1, n + 1)[1] = text'[n + 1]
      BY <1>1, <3>1, SubSeqProperties
    <3>3. <<"-">> \in Seq(Alphabet) /\ Len(<<"-">>) = 1 /\ <<"-">>[1] = "-"
      BY <2>1
    <3>4. \A i \in 1 .. 1 : SubSeq(text', n + 1, n + 1)[i] = <<"-">>[i]
      BY <2>1, <3>2, <3>3
    <3>5. QED
      BY <3>2, <3>3, <3>4, SeqEqual
  <2>4. BufferIsToken'
    BY <1>1, <2>1, <2>2, <2>3 DEF BufferIsToken, BeforeValue
  <2>5. QED
    BY <1>1, <2>4 DEF TokenInv, ValueFollows
<1>3. CASE peek # "-"
  <2>1. text' = text /\ buffer' = <<>> /\ Len(buffer') = 0
    BY <1>3 DEF EnterNumber, input
  <2>2. SubSeq(text, n + 1, n) = <<>>
    <3> HIDE DEF n
    <3>1. \A i \in n + 1 .. n : text[i] \in Alphabet
      BY <1>1
    <3>2. SubSeq(text, n + 1, n) \in Seq(Alphabet) /\ Len(SubSeq(text, n + 1, n)) = 0
      BY <1>1, <3>1, SubSeqProperties
    <3>3. QED
      BY <3>2, EmptySeq
  <2>3. /\ Len(text') - Len(buffer') = n /\ text'[n] \in BeforeValue
        /\ buffer' = SubSeq(text', n + 1, Len(text'))
    BY <1>1, <2>1, <2>2
  <2> HIDE DEF n
  <2>4. BufferIsToken'
    BY <1>1, <2>3 DEF BufferIsToken, BeforeValue
  <2>5. QED
    BY <1>1, <2>4 DEF TokenInv, ValueFollows
<1>4. QED
  BY <1>2, <1>3

\* The characters of a string or a number.
LEMMA TokenActions ==
    ASSUME IInv, TokenInv, StringChar \/ NumberChar
    PROVE  TokenInv'
<1>1. CASE StringChar /\ pc = "key"
  <2>1. pc' = "key"
    BY <1>1 DEF StringChar
  <2>2. QED
    BY <2>1, OutsideToken DEF InToken, InInteger, InReal
<1>2. CASE StringChar /\ pc # "key"
  <2>1. pc = "string" /\ pc' = "string" /\ Keep
    BY <1>2 DEF StringChar, InString
  <2>2. BufferIsToken'
    BY <2>1, KeepToken DEF InToken, TokenInv
  <2>3. QED
    BY <2>1, <2>2 DEF TokenInv, ValueFollows
<1>3. CASE NumberChar
  <2>1. Keep /\ pc \in InInteger \cup InReal /\ pc' \in InInteger \cup InReal
    BY <1>3 DEF NumberChar, InInteger, InReal, Goto
  <2>2. pc # "string" /\ pc' # "string" /\ pc' \notin {"element", "value"}
    BY <2>1 DEF InInteger, InReal
  <2>3. BufferIsToken'
    BY <2>1, <2>2, KeepToken DEF InToken, TokenInv
  <2>4. QED
    BY <2>2, <2>3 DEF TokenInv, ValueFollows
<1>4. QED
  BY <1>1, <1>2, <1>3

LEMMA NextTokenInv == IInv /\ TokenInv /\ [Next]_vars => TokenInv'
<1> SUFFICES ASSUME IInv, TokenInv, [Next]_vars PROVE TokenInv'
  OBVIOUS
<1> USE DEF InToken, InInteger, InReal, BeforeValue
<1>1. CASE UNCHANGED vars
  BY <1>1, SameToken DEF vars, input
<1>2. CASE StartParse
  <2>1. pc' = "top"
    BY <1>2 DEF StartParse, Goto
  <2>2. QED
    BY <2>1, OutsideToken
<1>3. CASE Return \/ Overrun \/ StateThrows \/ Reject
  <2>1. UNCHANGED <<pc, text, buffer>>
    BY <1>3 DEF Return, Overrun, StateThrows, Reject, Stop, input
  <2>2. QED
    BY <2>1, SameToken
<1>4. CASE BeginArray
  BY <1>4, BeforeValueActions DEF BeginArray, BeginContainer, Send, Due, Goto, Begins, InString
<1>5. CASE BeginObject \/ EndArray \/ EndObject \/ EndString \/ EndScalar
  <2>1. pc' \in {"member", "top", "after", "colon"}
    BY <1>5 DEF BeginObject, BeginContainer, EndArray, EndObject, EndContainer, ReturnTo,
                EndString, EndScalar, Goto
  <2>2. QED
    BY <2>1, OutsideToken
<1>6. CASE SkipWhitespace
  <2>1. /\ UNCHANGED pc /\ Consume /\ peek \in BeforeValue
        /\ pc \in {"top", "element", "member", "colon", "value", "after"}
    BY <1>6 DEF SkipWhitespace
  <2>2. CASE pc \in {"element", "value"}
    BY <2>1, <2>2, BeforeValueActions
  <2>3. CASE pc \notin {"element", "value"}
    BY <2>1, <2>3, OutsideToken
  <2>4. QED
    BY <2>2, <2>3
<1>7. CASE NextElement \/ Separator
  <2>1. Consume /\ peek \in {",", ":"} /\ pc' \in {"element", "value"}
    BY <1>7 DEF NextElement, Separator, Move, Goto
  <2>2. QED
    BY <2>1, BeforeValueActions
<1>8. CASE NextMember \/ EnterKey \/ EnterLiteral \/ LiteralChar
  <2>1. pc' \in {"member", "key", "boolean", "null"}
    BY <1>8 DEF NextMember, Move, EnterKey, EnterString, EnterLiteral, LiteralChar, InLiteral, Goto
  <2>2. QED
    BY <2>1, OutsideToken
<1>9. CASE EnterValueString \/ EnterNumber \/ StringChar \/ NumberChar
  BY <1>9, EnterStringActions, EnterNumberActions, TokenActions
<1>10. QED
  BY <1>1, <1>2, <1>3, <1>4, <1>5, <1>6, <1>7, <1>8, <1>9 DEF Next, ParserStep

LEMMA InitTokenInv == Init => TokenInv
BY DEF Init, TokenInv, BufferIsToken, ValueFollows, InInteger, InReal

\* The buffer given to on_string, on_integer and on_real is the token's own
\* text, for every input: the other half of the invariant, ValueFollows, is
\* what makes it inductive, for a number has no opening quote to start it.
THEOREM BufferHoldsToken == Spec => []BufferIsToken
<1>1. TokenInv => BufferIsToken
  BY DEF TokenInv
<1>2. QED
  BY <1>1, InitTokenInv, NextTokenInv, SpecIInv, PTL DEF Spec
=============================================================================
