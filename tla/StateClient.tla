---------------------------- MODULE StateClient ----------------------------
(***************************************************************************)
(* A caller of state_control_t that is not the parser: it raises any event *)
(* at any time, catches what a handler throws and goes on.  The state      *)
(* machine is public, so what it promises must hold against every order of *)
(* calls.  opened is the caller's own view, the containers whose begin was *)
(* accepted and whose end was not; a caller pops it without looking at the *)
(* kind.  refused tells whether the last call threw.                       *)
(***************************************************************************)
EXTENDS StateStack

CONSTANT MaxDepth     \* bound on the containers a caller leaves open
ASSUME MaxDepthAssumption == MaxDepth \in Nat

VARIABLES opened, refused
vars == <<stateStack, opened, refused>>

Init == InitStack /\ opened = <<>> /\ refused = FALSE

Kind(ev) == IF ev = "on_object_begin" THEN "object" ELSE "array"

RaiseBegin(ev) ==
    /\ Len(opened) < MaxDepth
    /\ Deliver(ev)
    /\ opened' = Append(opened, Kind(ev))
    /\ refused' = FALSE

RaiseScalar(ev) ==
    /\ Deliver(ev)
    /\ refused' = FALSE
    /\ UNCHANGED opened

RaiseEnd(ev) ==
    /\ Deliver(ev)
    /\ opened' = Front(opened)
    /\ refused' = FALSE

RaiseRefused(ev) ==
    /\ Refuses(ev)
    /\ refused' = TRUE
    /\ UNCHANGED <<stateStack, opened>>

Next ==
    \/ \E ev \in Begins : RaiseBegin(ev)
    \/ \E ev \in Scalars : RaiseScalar(ev)
    \/ \E ev \in Ends : RaiseEnd(ev)
    \/ \E ev \in Events : RaiseRefused(ev)

Spec == Init /\ [][Next]_vars
-----------------------------------------------------------------------------
\* Every variable stays in its set.
TypeOK ==
    /\ stateStack \in Seq(States)
    /\ opened \in Seq({"array", "object"})
    /\ refused \in BOOLEAN

\* The bottom of the stack is the state "none" the process started with, so
\* back() and pop_back() never meet an empty vector ("Assumes state is not
\* empty"), whatever the order of calls.
NeverEmpty == Len(stateStack) >= 1 /\ stateStack[1] = "none"

\* The state one level up the stack for a container of this kind.
Fits(s, kind) == (s = "in_array") <=> (kind = "array")

\* The stack is the caller's view and nothing else: above "none" there is one
\* state for each container it has begun and not ended, of that kind.
StackMatchesOpened ==
    /\ Len(stateStack) = Len(opened) + 1
    /\ \A i \in 1 .. Len(opened) : Fits(stateStack[i + 1], opened[i])

\* No order of calls ends an object with on_array_end, an array with
\* on_object_end or a container that was not begun.
EndMatchesBegin ==
    [][\A ev \in Ends : RaiseEnd(ev) =>
           opened # <<>> /\ (Last(opened) = "object" <=> ev = "on_object_end")]_vars

\* A state that waits for a member's value is only ever on top: a container
\* that is that value has already moved its parent on to the next name.
OnlyTopAwaitsValue ==
    \A i \in 1 .. Len(stateStack) - 1 : stateStack[i] # "in_object_value"
=============================================================================
