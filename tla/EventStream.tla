---------------------------- MODULE EventStream ----------------------------
(***************************************************************************)
(* What json_parser promises to the State it drives, with no text and no   *)
(* state machine: the events of a parse are those of properly nested       *)
(* containers, in an object names and values alternate, no value stands    *)
(* outside a container, and the call returns only when every container     *)
(* that was begun has ended.  The parse may be cut short by an exception   *)
(* after any prefix of such a stream.                                      *)
(***************************************************************************)
EXTENDS Naturals, SequencesExt

VARIABLES
    open,       \* kinds of the containers begun and not ended, outermost first
    named,      \* the innermost object has been given a name that waits for its value
    stream,     \* the events of this parse, in order
    status      \* "idle", "running", "returned", "threw" or "undefined"
vars == <<open, named, stream, status>>

Scalars == {"on_string", "on_integer", "on_real", "on_boolean", "on_null"}

Emit(ev) == stream' = Append(stream, ev)

InObject == open # <<>> /\ Last(open) = "object"
InArray == open # <<>> /\ Last(open) = "array"
ExpectsValue == InArray \/ (InObject /\ named)

Init == open = <<>> /\ named = FALSE /\ stream = <<>> /\ status = "idle"

Start ==
    /\ status \in {"idle", "returned", "threw"}
    /\ status' = "running"
    /\ open' = <<>> /\ named' = FALSE /\ stream' = <<>>

Begin(kind) ==
    /\ open = <<>> \/ ExpectsValue
    /\ open' = Append(open, kind)
    /\ named' = FALSE
    /\ Emit(IF kind = "object" THEN "on_object_begin" ELSE "on_array_begin")

Name ==
    /\ InObject /\ ~named
    /\ named' = TRUE
    /\ Emit("on_string")
    /\ UNCHANGED open

Scalar(ev) ==
    /\ ExpectsValue
    /\ named' = FALSE
    /\ Emit(ev)
    /\ UNCHANGED open

End ==
    /\ InArray \/ (InObject /\ ~named)
    /\ open' = Front(open)
    /\ named' = FALSE
    /\ Emit(IF InObject THEN "on_object_end" ELSE "on_array_end")

Event ==
    /\ status = "running"
    /\ UNCHANGED status
    /\ \/ \E kind \in {"array", "object"} : Begin(kind)
       \/ Name
       \/ \E ev \in Scalars : Scalar(ev)
       \/ End

\* "undefined" is a parse that read a character the input does not have.
Stop ==
    /\ status = "running"
    /\ \/ status' = "returned" /\ open = <<>>
       \/ status' \in {"threw", "undefined"}
    /\ UNCHANGED <<open, named, stream>>

Next == Start \/ Event \/ Stop

Spec == Init /\ [][Next]_vars
=============================================================================
