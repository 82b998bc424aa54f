------------------------------- MODULE NameMap -------------------------------
(***************************************************************************)
(* What json_object_value promises to a program that uses it by name: a    *)
(* map from names to values.  A name is entered at most once, never leaves *)
(* while the object is the same, and the first value it was given stays    *)
(* until it is written through a reference that was taken for that very    *)
(* name.  References may be lost when a name is entered, or the storage    *)
(* moved, and never change the name they were taken for.                   *)
(***************************************************************************)
CONSTANTS
    Names,
    Refs,           \* the references that the program holds
    Absent,         \* what no value is
    Lost,           \* what no name is
    Null            \* the value of a name that is only asked for

VARIABLES
    map,            \* map[n]: the value of n, or Absent
    refs            \* refs[r]: the name that r refers to, or Lost

vars == <<map, refs>>

Init == map = [n \in Names |-> Absent] /\ refs = [r \in Refs |-> Lost]

Kept(old, new) == DOMAIN new = Refs /\ \A r \in Refs : new[r] \in {old[r], Lost}

\* At most the value of n is another one.
Changes(n, v) == map' = [map EXCEPT ![n] = v]

\* operator[]
Take(r, n) ==
    \/ /\ map[n] = Absent /\ Changes(n, Null)
       /\ refs'[r] = n /\ Kept([refs EXCEPT ![r] = n], refs')
    \/ /\ map[n] # Absent /\ UNCHANGED map
       /\ refs' = [refs EXCEPT ![r] = n]

\* A member is added, and is not seen if there is one of its name.
Offer(n) ==
    /\ \/ map[n] = Absent /\ map'[n] # Absent /\ Changes(n, map'[n])
       \/ map[n] # Absent /\ UNCHANGED map
    /\ Kept(refs, refs')

Write(r) ==
    /\ refs[r] # Lost
    /\ map'[refs[r]] # Absent /\ Changes(refs[r], map'[refs[r]])
    /\ UNCHANGED refs

Move == Kept(refs, refs') /\ UNCHANGED map

\* Another object is assigned to it.
Replace == refs' = [r \in Refs |-> Lost] /\ DOMAIN map' = Names

Next ==
    \/ \E r \in Refs, n \in Names : Take(r, n)
    \/ \E n \in Names : Offer(n)
    \/ \E r \in Refs : Write(r)
    \/ Move \/ Replace

Spec == Init /\ [][Next]_vars
=============================================================================
