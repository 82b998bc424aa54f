---------------------------- MODULE StackLemmas ----------------------------
(***************************************************************************)
(* What an accepted event does to the state stack, whoever raises it.      *)
(***************************************************************************)
EXTENDS StateStack, SequenceLemmas

\* The process-wide stack is never empty and holds states.
StackOK == stateStack \in Seq(States) /\ stateStack # <<>>

LEMMA StackHeight ==
    ASSUME StackOK
    PROVE  /\ Len(stateStack) \in Nat \ {0}
           /\ CurrentState = stateStack[Len(stateStack)] /\ CurrentState \in States
BY LastInSeq DEF StackOK, CurrentState

\* An event that ends a container is accepted only on top of its own state,
\* which it removes.
LEMMA DeliverEnd ==
    ASSUME StackOK, NEW ev \in Ends, Deliver(ev)
    PROVE  /\ \/ CurrentState = "in_object_name" /\ ev = "on_object_end"
              \/ CurrentState = "in_array" /\ ev = "on_array_end"
           /\ stateStack' = Front(stateStack)
BY DEF Deliver, InObjectName, InObjectValue, InArray, InNone, Ends, Scalars, Begins, PopState

\* A scalar changes at most the top of the stack, from the state of an object
\* to the other state of an object.
LEMMA DeliverScalar ==
    ASSUME StackOK, NEW ev \in Scalars, Deliver(ev)
    PROVE  \/ CurrentState \in {"none", "in_array"} /\ stateStack' = stateStack
           \/ \E s \in {"in_object_name", "in_object_value"} :
                  /\ CurrentState \in {"in_object_name", "in_object_value"} \ {s}
                  /\ stateStack' \in Seq(States) /\ stateStack' # <<>>
                  /\ Len(stateStack') = Len(stateStack)
                  /\ stateStack'[Len(stateStack)] = s
                  /\ \A i \in 1 .. Len(stateStack) - 1 : stateStack'[i] = stateStack[i]
<1>1. ASSUME NEW s \in {"in_object_name", "in_object_value"}, SetNextState(s)
      PROVE  /\ stateStack' \in Seq(States) /\ stateStack' # <<>>
             /\ Len(stateStack') = Len(stateStack)
             /\ stateStack'[Len(stateStack)] = s
             /\ \A i \in 1 .. Len(stateStack) - 1 : stateStack'[i] = stateStack[i]
  <2>1. s \in States
    BY DEF States
  <2>2. stateStack' = [stateStack EXCEPT ![Len(stateStack)] = s]
    BY <1>1 DEF SetNextState
  <2>3. QED
    BY <2>1, <2>2, SetTop DEF StackOK
<1>2. \/ CurrentState \in {"none", "in_array"} /\ stateStack' = stateStack
      \/ CurrentState = "in_object_name" /\ SetNextState("in_object_value")
      \/ CurrentState = "in_object_value" /\ SetNextState("in_object_name")
  BY DEF Deliver, InObjectName, InObjectValue, InArray, InNone, Scalars, Begins, Ends
<1>3. QED
  BY <1>1, <1>2

\* The begin of a container covers a top that no longer waits for a value.
LEMMA DeliverBegin ==
    ASSUME StackOK, NEW ev \in Begins, Deliver(ev)
    PROVE  /\ stateStack' \in Seq(States) /\ stateStack' # <<>>
           /\ Len(stateStack') = Len(stateStack) + 1
           /\ stateStack'[Len(stateStack) + 1] = StateOf(ev)
           /\ \A i \in 1 .. Len(stateStack) - 1 : stateStack'[i] = stateStack[i]
           /\ stateStack'[Len(stateStack)] =
                  IF CurrentState = "in_object_value" THEN "in_object_name" ELSE CurrentState
           /\ CurrentState # "in_object_name"
<1>1. PICK t \in Seq(States) :
          /\ Len(t) = Len(stateStack)
          /\ \A i \in 1 .. Len(stateStack) - 1 : t[i] = stateStack[i]
          /\ t[Len(stateStack)] =
                 IF CurrentState = "in_object_value" THEN "in_object_name" ELSE CurrentState
          /\ stateStack' = Append(t, StateOf(ev))
  <2>1. CASE CurrentState = "in_object_value"
    <3> DEFINE t == [stateStack EXCEPT ![Len(stateStack)] = "in_object_name"]
    <3>1. /\ t \in Seq(States) /\ Len(t) = Len(stateStack)
          /\ t[Len(stateStack)] = "in_object_name"
          /\ \A i \in 1 .. Len(stateStack) - 1 : t[i] = stateStack[i]
      BY SetTop DEF StackOK, States
    <3>2. stateStack' = Append(t, StateOf(ev))
      BY <2>1 DEF Deliver, InObjectName, InObjectValue, InArray, InNone, Scalars, Begins
    <3> HIDE DEF t
    <3>3. QED
      BY <2>1, <3>1, <3>2
  <2>2. CASE CurrentState # "in_object_value"
    <3>1. stateStack' = Append(stateStack, StateOf(ev))
      BY <2>2 DEF Deliver, InObjectName, InObjectValue, InArray, InNone, PushState, Scalars, Begins
    <3>2. QED
      BY <2>2, <3>1, StackHeight DEF StackOK
  <2>3. QED
    BY <2>1, <2>2
<1>2. StateOf(ev) \in States
  BY DEF StateOf, States
<1>3. /\ stateStack' \in Seq(States) /\ stateStack' # <<>> /\ Len(stateStack') = Len(t) + 1
      /\ stateStack'[Len(t) + 1] = StateOf(ev)
      /\ \A i \in 1 .. Len(t) : stateStack'[i] = t[i]
  BY <1>1, <1>2, PushTop
<1>4. CurrentState # "in_object_name"
  BY DEF Deliver, InObjectName, InObjectValue, InArray, InNone, Scalars, Begins
<1>5. QED
  BY <1>1, <1>3, <1>4, StackHeight
=============================================================================
