---------------------------- MODULE ObjectValue ----------------------------
(***************************************************************************)
(* json_object_value, a vector of named members, in the hands of a program *)
(* that keeps the references operator[] gives it.  An insertion into a     *)
(* full vector, and an assignment to the object, leave every reference     *)
(* stale; using one afterwards is undefined.  What the program knows of a  *)
(* reference is the name it asked for; at is the member it really is.      *)
(***************************************************************************)
EXTENDS JsonValue

CONSTANTS
    Names, Refs,
    MaxRoom         \* bound: free places behind the members

VARIABLES
    members,        \* members_v: pairs of a name and a value
    room,           \* places left until the vector reallocates
    held,           \* held[r]: [is |-> "live", name, at], Stale or Unbound
    outcome         \* of the last operation: "ok", "threw" or "undefined"

object == <<members, room, held>>

Unbound == [is |-> "unbound"]
Stale == [is |-> "stale"]
Live(n, i) == [is |-> "live", name |-> n, at |-> i]
IsLive(r) == held[r].is = "live"
ValueOf(r) == members[held[r].at][2]

\* What a move of the vector's storage makes of the references.
Moved == [r \in Refs |-> IF IsLive(r) THEN Stale ELSE held[r]]

AfterInsertion == IF room > 0 THEN held ELSE Moved

InsertedInFront(m) ==   \* mutant: the new member is the first one
    /\ members' = <<m>> \o members
    /\ room' \in IF room > 0 THEN {room - 1} ELSE 0 .. MaxRoom

\* vector::insert at the end.
Inserted(m) ==
    /\ members' = Append(members, m)
    /\ room' \in IF room > 0 THEN {room - 1} ELSE 0 .. MaxRoom
-----------------------------------------------------------------------------
ObjectInit ==
    /\ members = <<>> /\ room \in 0 .. MaxRoom
    /\ held = [r \in Refs |-> Unbound]
    /\ outcome = "ok"

SubscriptEnd(r, n) ==   \* mutant: the place is taken before the insertion
    /\ outcome' = "ok"
    /\ \/ /\ HasMember(members, n)
          /\ held' = [held EXCEPT ![r] = Live(n, Find(members, n))]
          /\ UNCHANGED <<members, room>>
       \/ /\ ~HasMember(members, n)
          /\ held' = [AfterInsertion EXCEPT ![r] = Live(n, Len(members))]
          /\ Inserted(<<n, Null>>)

\* T &x = object[name]
Subscript(r, n) ==
    /\ outcome' = "ok"
    /\ \/ /\ HasMember(members, n)
          /\ held' = [held EXCEPT ![r] = Live(n, Find(members, n))]
          /\ UNCHANGED <<members, room>>
       \/ /\ ~HasMember(members, n)
          /\ held' = [AfterInsertion EXCEPT ![r] = Live(n, Len(members) + 1)]
          /\ Inserted(<<n, Null>>)

\* object.push_back( make_object_value_item( name, value ) )
PushBack(n, v) == Inserted(<<n, v>>) /\ held' = AfterInsertion /\ outcome' = "ok"

ShrinkToFit ==
    /\ room > 0 /\ room' = 0 /\ held' = Moved
    /\ outcome' = "ok" /\ UNCHANGED members

\* x = value
Assign(r, v) ==
    /\ IsLive(r)
    /\ members' = [members EXCEPT ![held[r].at] = <<@[1], v>>]
    /\ outcome' = "ok" /\ UNCHANGED <<room, held>>

\* x = y
Copy(r, q) == IsLive(q) /\ Assign(r, ValueOf(q))

UseStale(r) == held[r] = Stale /\ outcome' = "undefined" /\ UNCHANGED object

\* object = other: the storage of the copy takes the place of the old one.
Replace(ms) ==
    /\ members' = ms /\ room' \in 0 .. MaxRoom /\ held' = Moved
    /\ outcome' = "ok"
-----------------------------------------------------------------------------
ObjectTypeOK ==
    /\ \A i \in DOMAIN members : members[i][1] \in Names /\ IsValue(members[i][2])
    /\ room \in 0 .. MaxRoom
    /\ \A r \in Refs :
          \/ held[r] \in {Unbound, Stale}
          \/ IsLive(r) /\ held[r].name \in Names /\ held[r].at \in DOMAIN members
    /\ outcome \in {"ok", "threw", "undefined"}
=============================================================================
