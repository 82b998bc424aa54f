----------------------------- MODULE StateStack -----------------------------
(***************************************************************************)
(* The state machine behind state_control_t                                *)
(* (src/src/daw_json_parser_v2_state.cpp).  One stack of states belongs to *)
(* the whole process: it is a function-local static, made with the single  *)
(* state "none" and never reset.  Every event goes to the state on top;    *)
(* a state that does not override the handler of an event inherits one     *)
(* from state_t that throws std::runtime_error and leaves the stack alone. *)
(***************************************************************************)
EXTENDS Naturals, SequencesExt

VARIABLE stateStack   \* state_stack(): the last element is back()

States == {"none", "in_object_name", "in_object_value", "in_array"}

Scalars == {"on_string", "on_integer", "on_real", "on_boolean", "on_null"}
Begins == {"on_object_begin", "on_array_begin"}
Ends == {"on_object_end", "on_array_end"}
Events == Scalars \cup Begins \cup Ends

\* Mutant: in_array lacks a handler.
OverridesWithoutInteger ==
    [ none            |-> Scalars \cup Begins,
      in_object_name  |-> {"on_string", "on_object_end"},
      in_object_value |-> Scalars \cup Begins,
      in_array        |-> (Scalars \cup Begins \cup {"on_array_end"}) \ {"on_integer"} ]

\* The handlers each class overrides.
Overrides ==
    [ none            |-> Scalars \cup Begins,
      in_object_name  |-> {"on_string", "on_object_end"},
      in_object_value |-> Scalars \cup Begins,
      in_array        |-> Scalars \cup Begins \cup {"on_array_end"} ]

CurrentState == Last(stateStack)

\* The handler that would run is the one of state_t, which throws.
Refuses(ev) == ev \notin Overrides[CurrentState]

SetNextState(s) == stateStack' = [stateStack EXCEPT ![Len(stateStack)] = s]
PushState(s) == stateStack' = Append(stateStack, s)
KeepState == UNCHANGED stateStack                           \* mutant: no pop_back
PopState == stateStack' = Front(stateStack)

\* Mutant: the enumerator that is not a state.
StateOfOffByOne(ev) ==
    IF ev = "on_object_begin" THEN "in_object_name" ELSE "current_state_t_size"

\* The state a container starts in.
StateOf(ev) == IF ev = "on_object_begin" THEN "in_object_name" ELSE "in_array"

\* Mutant: a name is not needed before a container.
InObjectNameNests(ev) ==
    /\ CurrentState = "in_object_name"
    /\ \/ ev = "on_string" /\ SetNextState("in_object_value")
       \/ ev \in Begins /\ PushState(StateOf(ev))
       \/ ev = "on_object_end" /\ PopState

InObjectName(ev) ==
    /\ CurrentState = "in_object_name"
    /\ \/ ev = "on_string" /\ SetNextState("in_object_value")
       \/ ev = "on_object_end" /\ PopState

\* Mutant: a container leaves its parent waiting for the value.
InObjectValueStays(ev) ==
    /\ CurrentState = "in_object_value"
    /\ \/ ev \in Scalars /\ SetNextState("in_object_name")
       \/ ev \in Begins /\ PushState(StateOf(ev))

\* set_next_state, then for a container push_and_set_next_state.
InObjectValue(ev) ==
    /\ CurrentState = "in_object_value"
    /\ \/ ev \in Scalars /\ SetNextState("in_object_name")
       \/ /\ ev \in Begins
          /\ stateStack' = Append([stateStack EXCEPT ![Len(stateStack)] = "in_object_name"],
                                  StateOf(ev))

\* Mutant: an array ends with either end event.
InArrayEndsAny(ev) ==
    /\ CurrentState = "in_array"
    /\ \/ ev \in Scalars /\ UNCHANGED stateStack
       \/ ev \in Begins /\ PushState(StateOf(ev))
       \/ ev \in Ends /\ PopState

InArray(ev) ==
    /\ CurrentState = "in_array"
    /\ \/ ev \in Scalars /\ UNCHANGED stateStack
       \/ ev \in Begins /\ PushState(StateOf(ev))
       \/ ev = "on_array_end" /\ PopState

\* Mutant: the state none takes the end of an array.
InNoneEnds(ev) ==
    /\ CurrentState = "none"
    /\ \/ ev \in Scalars /\ UNCHANGED stateStack
       \/ ev \in Begins /\ PushState(StateOf(ev))
       \/ ev = "on_array_end" /\ PopState

\* Mutant: the state none is replaced, not covered.
InNoneReplaced(ev) ==
    /\ CurrentState = "none"
    /\ \/ ev \in Scalars /\ UNCHANGED stateStack
       \/ ev \in Begins /\ SetNextState(StateOf(ev))

InNone(ev) ==
    /\ CurrentState = "none"
    /\ \/ ev \in Scalars /\ UNCHANGED stateStack
       \/ ev \in Begins /\ PushState(StateOf(ev))

\* state_control_t::ev(), when the handler does not throw.
Deliver(ev) == InObjectName(ev) \/ InObjectValue(ev) \/ InArray(ev) \/ InNone(ev)

InitStack == stateStack = <<"none">>
=============================================================================
