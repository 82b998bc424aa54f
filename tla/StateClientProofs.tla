------------------------- MODULE StateClientProofs -------------------------
(***************************************************************************)
(* The state machine against every order of calls, for every bound on the  *)
(* containers left open.                                                   *)
(***************************************************************************)
EXTENDS StateClient, StackLemmas

\* What the invariants of StateClient need besides themselves: "none" is at
\* the bottom only, so a state that is not "none" stands for a container.
NoneOnlyAtBottom == \A i \in 2 .. Len(stateStack) : stateStack[i] # "none"

IInv == TypeOK /\ NeverEmpty /\ StackMatchesOpened /\ OnlyTopAwaitsValue /\ NoneOnlyAtBottom

\* The lengths and the top of the stack as numbers and an element.
LEMMA Heights ==
    ASSUME IInv
    PROVE  /\ StackOK /\ Len(stateStack) \in Nat \ {0}
           /\ Len(opened) \in Nat /\ Len(stateStack) = Len(opened) + 1
           /\ CurrentState = stateStack[Len(stateStack)] /\ CurrentState \in States
<1>1. stateStack \in Seq(States) /\ opened \in Seq({"array", "object"}) /\ Len(stateStack) >= 1
  BY DEF IInv, TypeOK, NeverEmpty
<1>2. StackOK
  BY <1>1 DEF StackOK
<1>3. QED
  BY <1>1, <1>2, StackHeight, LenProperties DEF IInv, StackMatchesOpened

\* An event that ends a container finds one open, of its kind.
LEMMA EndLemma ==
    ASSUME IInv, NEW ev \in Ends, Deliver(ev)
    PROVE  /\ opened # <<>>
           /\ Last(opened) = "object" <=> ev = "on_object_end"
           /\ stateStack' = Front(stateStack)
<1>1. /\ \/ CurrentState = "in_object_name" /\ ev = "on_object_end"
         \/ CurrentState = "in_array" /\ ev = "on_array_end"
      /\ stateStack' = Front(stateStack)
  BY Heights, DeliverEnd
<1>2. Len(stateStack) > 1
  BY <1>1, Heights DEF IInv, NeverEmpty
<1>3. Len(opened) > 0 /\ Fits(CurrentState, opened[Len(opened)])
  BY <1>2, Heights DEF IInv, StackMatchesOpened
<1>4. opened[Len(opened)] \in {"array", "object"}
  BY <1>3, Heights, ElementOfSeq DEF IInv, TypeOK
<1>5. opened # <<>>
  BY <1>3
<1>6. QED
  BY <1>1, <1>3, <1>4, <1>5 DEF Fits, Last
-----------------------------------------------------------------------------
LEMMA InitIInv == Init => IInv
<1> SUFFICES ASSUME Init PROVE IInv
  OBVIOUS
<1>1. stateStack = <<"none">> /\ opened = <<>> /\ refused \in BOOLEAN
  BY DEF Init, InitStack
<1>2. stateStack \in Seq(States) /\ opened \in Seq({"array", "object"})
  BY <1>1 DEF States
<1>3. Len(stateStack) = 1 /\ stateStack[1] = "none" /\ Len(opened) = 0
  BY <1>1
<1>4. QED
  BY <1>1, <1>2, <1>3 DEF IInv, TypeOK, NeverEmpty, StackMatchesOpened, OnlyTopAwaitsValue, NoneOnlyAtBottom

LEMMA BeginPreserves ==
    ASSUME IInv, NEW ev \in Begins, RaiseBegin(ev)
    PROVE  IInv'
<1> DEFINE n == Len(stateStack)
<1>1. /\ stateStack' \in Seq(States) /\ Len(stateStack') = n + 1
      /\ stateStack'[n + 1] = StateOf(ev)
      /\ \A i \in 1 .. n - 1 : stateStack'[i] = stateStack[i]
      /\ stateStack'[n] =
             IF CurrentState = "in_object_value" THEN "in_object_name" ELSE CurrentState
  BY DeliverBegin, Heights DEF RaiseBegin
<1>2. /\ Kind(ev) \in {"array", "object"} /\ Fits(StateOf(ev), Kind(ev))
      /\ StateOf(ev) # "none"
  BY DEF StateOf, Kind, Fits, Begins
<1>3. /\ opened' \in Seq({"array", "object"}) /\ Len(opened') = Len(opened) + 1
      /\ opened'[Len(opened) + 1] = Kind(ev)
      /\ \A i \in 1 .. Len(opened) : opened'[i] = opened[i]
  BY <1>2, PushTop DEF RaiseBegin, IInv, TypeOK
<1>4. TypeOK'
  BY <1>1, <1>3 DEF RaiseBegin, TypeOK
<1>5. NeverEmpty'
  BY <1>1, Heights DEF IInv, NeverEmpty
<1>6. OnlyTopAwaitsValue'
  BY <1>1, Heights DEF IInv, OnlyTopAwaitsValue
<1>7. NoneOnlyAtBottom'
  BY <1>1, <1>2, Heights DEF IInv, NoneOnlyAtBottom
<1>8. StackMatchesOpened'
  <2>1. Len(stateStack') = Len(opened') + 1
    BY <1>1, <1>3, Heights
  <2>2. ASSUME NEW i \in 1 .. Len(opened') PROVE Fits(stateStack'[i + 1], opened'[i])
    <3>1. CASE i = Len(opened) + 1
      BY <3>1, <1>1, <1>2, <1>3, Heights
    <3>2. CASE i = Len(opened)
      BY <3>2, <1>1, <1>3, Heights DEF IInv, StackMatchesOpened, Fits
    <3>3. CASE i \in 1 .. Len(opened) - 1
      BY <3>3, <1>1, <1>3, Heights DEF IInv, StackMatchesOpened, Fits
    <3>4. QED
      BY <3>1, <3>2, <3>3, <1>3, Heights
  <2>3. QED
    BY <2>1, <2>2 DEF StackMatchesOpened, Fits
<1>9. QED
  BY <1>4, <1>5, <1>6, <1>7, <1>8 DEF IInv

LEMMA ScalarPreserves ==
    ASSUME IInv, NEW ev \in Scalars, RaiseScalar(ev)
    PROVE  IInv'
<1>1. opened' = opened /\ refused' = FALSE
  BY DEF RaiseScalar
<1>2. CASE stateStack' = stateStack
  BY <1>1, <1>2 DEF IInv, TypeOK, NeverEmpty, StackMatchesOpened, OnlyTopAwaitsValue,
                    NoneOnlyAtBottom, Fits
<1>3. CASE stateStack' # stateStack
  <2>1. PICK s \in {"in_object_name", "in_object_value"} :
            /\ CurrentState \in {"in_object_name", "in_object_value"} \ {s}
            /\ stateStack' \in Seq(States) /\ Len(stateStack') = Len(stateStack)
            /\ stateStack'[Len(stateStack)] = s
            /\ \A i \in 1 .. Len(stateStack) - 1 : stateStack'[i] = stateStack[i]
    BY <1>3, DeliverScalar, Heights DEF RaiseScalar
  <2>2. Len(stateStack) > 1
    BY <2>1, Heights DEF IInv, NeverEmpty
  <2>3. TypeOK'
    BY <1>1, <2>1 DEF IInv, TypeOK
  <2>4. 1 \in 1 .. Len(stateStack) - 1 /\ Len(stateStack') >= 1
    BY <2>1, <2>2, Heights
  <2>5. NeverEmpty'
    BY <2>1, <2>4 DEF IInv, NeverEmpty
  <2>6. OnlyTopAwaitsValue' /\ NoneOnlyAtBottom'
    BY <2>1, Heights DEF IInv, OnlyTopAwaitsValue, NoneOnlyAtBottom
  <2>7. StackMatchesOpened'
    BY <1>1, <2>1, Heights DEF IInv, StackMatchesOpened, Fits
  <2>8. QED
    BY <2>3, <2>5, <2>6, <2>7 DEF IInv
<1>4. QED
  BY <1>2, <1>3

LEMMA EndPreserves ==
    ASSUME IInv, NEW ev \in Ends, RaiseEnd(ev)
    PROVE  IInv'
<1>1. stateStack' = Front(stateStack) /\ opened' = Front(opened) /\ opened # <<>> /\ refused' = FALSE
  BY EndLemma DEF RaiseEnd
<1>2. /\ stateStack' \in Seq(States) /\ Len(stateStack') = Len(stateStack) - 1
      /\ \A i \in 1 .. Len(stateStack) - 1 : stateStack'[i] = stateStack[i]
  BY <1>1, PopTop, Heights DEF IInv, TypeOK
<1>3. /\ opened' \in Seq({"array", "object"}) /\ Len(opened') = Len(opened) - 1
      /\ \A i \in 1 .. Len(opened) - 1 : opened'[i] = opened[i]
  BY <1>1, PopTop DEF IInv, TypeOK
<1>4. Len(opened) > 0
  BY <1>1, Heights, LastInSeq DEF IInv, TypeOK
<1>5. TypeOK' /\ NeverEmpty'
  <2>1. TypeOK'
    BY <1>1, <1>2, <1>3 DEF TypeOK
  <2>2. 1 \in 1 .. Len(stateStack) - 1 /\ Len(stateStack') >= 1
    BY <1>2, <1>4, Heights
  <2>3. NeverEmpty'
    BY <1>2, <2>2 DEF IInv, NeverEmpty
  <2>4. QED
    BY <2>1, <2>3
<1>6. OnlyTopAwaitsValue' /\ NoneOnlyAtBottom'
  BY <1>2, Heights DEF IInv, OnlyTopAwaitsValue, NoneOnlyAtBottom
<1>7. StackMatchesOpened'
  BY <1>2, <1>3, <1>4, Heights DEF IInv, StackMatchesOpened, Fits
<1>8. QED
  BY <1>5, <1>6, <1>7 DEF IInv

LEMMA NextIInv == IInv /\ [Next]_vars => IInv'
<1> SUFFICES ASSUME IInv, [Next]_vars PROVE IInv'
  OBVIOUS
<1>1. ASSUME NEW ev \in Begins, RaiseBegin(ev) PROVE IInv'
  BY <1>1, BeginPreserves
<1>2. ASSUME NEW ev \in Scalars, RaiseScalar(ev) PROVE IInv'
  BY <1>2, ScalarPreserves
<1>3. ASSUME NEW ev \in Ends, RaiseEnd(ev) PROVE IInv'
  BY <1>3, EndPreserves
<1>4. CASE /\ UNCHANGED <<stateStack, opened>> /\ refused' \in BOOLEAN
  BY <1>4 DEF IInv, TypeOK, NeverEmpty, StackMatchesOpened, OnlyTopAwaitsValue,
              NoneOnlyAtBottom, Fits
<1>5. ASSUME NEW ev \in Events, RaiseRefused(ev) PROVE IInv'
  BY <1>4, <1>5 DEF RaiseRefused
<1>6. CASE UNCHANGED vars
  BY <1>4, <1>6 DEF vars, IInv, TypeOK
<1>7. QED
  BY <1>1, <1>2, <1>3, <1>5, <1>6 DEF Next

\* Whatever the order of calls, the stack is well typed, "none" stays at its
\* bottom, it has one state for each container the caller has open, and only
\* the top may wait for a value.
THEOREM StackSafe == Spec => [](TypeOK /\ NeverEmpty /\ StackMatchesOpened /\ OnlyTopAwaitsValue)
<1>1. IInv => TypeOK /\ NeverEmpty /\ StackMatchesOpened /\ OnlyTopAwaitsValue
  BY DEF IInv
<1>2. QED
  BY <1>1, InitIInv, NextIInv, PTL DEF Spec

\* TypeOK: the stack and the caller's view of it stay in their sets.
COROLLARY StackIsTyped == Spec => []TypeOK
BY StackSafe, PTL

\* NeverEmpty: no order of events pops the last state.
COROLLARY NoneStays == Spec => []NeverEmpty
BY StackSafe, PTL

\* OnlyTopAwaitsValue: a state below the top has moved on to the next name
\* before its member's value was begun.
COROLLARY OnlyTopWaits == Spec => []OnlyTopAwaitsValue
BY StackSafe, PTL

\* Every end event that is accepted ends the innermost open container, and is
\* of its kind.
THEOREM EndsMatch == Spec => EndMatchesBegin
<1>1. IInv /\ [Next]_vars =>
          [\A ev \in Ends : RaiseEnd(ev) =>
               opened # <<>> /\ (Last(opened) = "object" <=> ev = "on_object_end")]_vars
  BY EndLemma DEF RaiseEnd
<1>2. QED
  BY <1>1, InitIInv, NextIInv, PTL DEF Spec, EndMatchesBegin
=============================================================================
