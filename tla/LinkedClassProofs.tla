-------------------------- MODULE LinkedClassProofs --------------------------
(***************************************************************************)
(* What is true of the program for every class, every JSON and every       *)
(* number of calls.  Types: each member of an object holds a value of its  *)
(* type and width.  What a call leaves: only from_json_object assigns      *)
(* members of the program's object, and no more of them than the text      *)
(* mentions; every other read replaces it at the end or not at all.  Why   *)
(* a call fails: what is read, or a map_to_json, gave it a reason.  And    *)
(* what a call that returns has read: in each member what the text says,   *)
(* whatever the order in which the map was gone through.                   *)
(*                                                                         *)
(* The argument is about the frames of the active calls.  A frame is at a  *)
(* member of the object, and each item that its loop has still to look at  *)
(* is a value that the text mentions for the path of the item.  Mentions   *)
(* and Inside are recursive functions, and are used through the equations  *)
(* that unfold them one name or one level at a time.                       *)
(*                                                                         *)
(* For what is read, the invariant says at each step of the loops what is  *)
(* so far: what a member holds, with all that the loops of the active      *)
(* calls have left that mentions it, makes what the whole text makes.      *)
(*                                                                         *)
(* For what is written, it says the same of the other side: each frame of  *)
(* to_json_string has written some of the names of its class and has the   *)
(* others left, and what it wrote is the piece that belongs at its path.   *)
(* A text made so has one piece for each linked member, which the read of  *)
(* it takes and turns back into what the object held.                      *)
(***************************************************************************)
EXTENDS LinkedClass, SequenceLemmas, FiniteSetTheorems

\* The operations that may leave another object than they found, once they
\* have returned, and those that may do so at any time.
Replaces == {"from_json_value", "from_json_string", "from_file"}

\* The operations that never change the object.
Others == {"operator>>", "array_from_json_value", "array_from_file", "to_json_string"}

\* The object is the one that the call found, unless it is from_json_object's
\* or a read has returned.
KeepsObject ==
    \/ op = "from_json_object"
    \/ op \in Replaces /\ status = "returned"
    \/ object = before

\* A map holds the first few members that its class links.
MapsInRange == registered \in [Classes -> Nat] /\
               \A c \in Classes : registered[c] \in 0 .. Len(Links[c])

LEMMA InitKeeps == Init => KeepsObject
  BY DEF Init, KeepsObject

\* Every step keeps KeepsObject: assignments go to the result, unless the call
\* is of from_json_object.
LEMMA StepKeeps == KeepsObject /\ [Next]_vars => KeepsObject'
<1> SUFFICES ASSUME KeepsObject, [Next]_vars PROVE KeepsObject'
  OBVIOUS
<1> USE DEF KeepsObject, Replaces
<1>1. CASE Start
  BY <1>1 DEF Start, FromJsonValue, FromJsonString, ReadStream, FromJsonObject, ToJsonString, Call,
          ArrayFromJsonValue, MissingFile, FromMissingFile, ArrayFromMissingFile
<1>2. CASE EndReading
  BY <1>2 DEF EndReading, Stop
<1>3. CASE EndWriting
  BY <1>3 DEF EndWriting, Stop
<1>4. CASE ReadMember \/ RefuseMember
  <2>1. CASE op = "from_json_object"
    BY <1>4, <2>1 DEF ReadMember, RefuseMember, Go, Stop
  <2>2. CASE op # "from_json_object"
    <3>1. UNCHANGED <<object, op, before>>
      BY <1>4, <2>2 DEF ReadMember, RefuseMember, Assign, Go, Stop
    <3>2. status = "running"
      BY <1>4 DEF ReadMember, RefuseMember, AtLinked, AtItem, At
    <3> QED BY <3>1, <3>2, <2>2
  <2> QED BY <2>1, <2>2
<1>5. CASE Register \/ StartReading \/ SkipUnlinked \/ ReadNested \/ EndNested
           \/ ReadElement \/ EndElement \/ EndElements
           \/ StartWriting \/ WriteMember \/ WriteNested \/ EndNestedText
  BY <1>5 DEF Register, StartReading, SkipUnlinked, ReadNested, EndNested,
              ReadElement, EndElement, EndElements,
              StartWriting, WriteMember, WriteNested, EndNestedText, Go
<1>6. CASE RegisterThrows \/ NotAnObject \/ UseMissing \/ FailAssertion \/ RefuseNested
           \/ NotAnArray
  <2>1. UNCHANGED <<object, op, before>>
    BY <1>6 DEF RegisterThrows, NotAnObject, UseMissing, FailAssertion, RefuseNested,
                NotAnArray, Stop
  <2>2. status = "running"
    BY <1>6 DEF RegisterThrows, NotAnObject, UseMissing, FailAssertion, RefuseNested,
                NotAnArray, AsksForMap, AtLinked, AtItem, At
  <2> QED BY <2>1, <2>2
<1>7. CASE UNCHANGED vars
  BY <1>7 DEF vars, program
<1> QED
  BY <1>1, <1>2, <1>3, <1>4, <1>5, <1>6, <1>7 DEF Next, Proceed

\* A call that does not return leaves the program's object as it was, unless
\* the object was handed to from_json_object: for every class, every value and
\* every number of calls.
THEOREM FailureKeeps == Spec => []FailureKeepsObject
<1>1. KeepsObject => FailureKeepsObject
  BY DEF KeepsObject, Replaces, FailureKeepsObject, Failed
<1> QED
  BY InitKeeps, StepKeeps, <1>1, PTL DEF Spec

\* Reading through operator>>, reading a vector, and writing never change the
\* object.
THEOREM StreamKeeps == Spec => [](op \in Others => object = before)
<1>1. KeepsObject => (op \in Others => object = before)
  BY DEF KeepsObject, Replaces, Others
<1> QED
  BY InitKeeps, StepKeeps, <1>1, PTL DEF Spec

LEMMA LinksAreSequences == \A c \in Classes : Len(Links[c]) \in Nat
  BY LinksAssumption

LEMMA InitMaps == Init => MapsInRange
  BY LinksAreSequences DEF Init, MapsInRange

LEMMA StepMaps == MapsInRange /\ [Next]_vars => MapsInRange'
<1> SUFFICES ASSUME MapsInRange, [Next]_vars PROVE MapsInRange'
  OBVIOUS
<1>1. CASE Register \/ RegisterThrows
  <2>1. CASE Top.class \in Classes
    <3>1. PICK n \in 0 .. Len(Links[Top.class]) :
              registered' = [registered EXCEPT ![Top.class] = n]
      BY <1>1, <2>1, LinksAreSequences DEF Register, RegisterThrows
    <3> QED
      BY <2>1, <3>1, LinksAreSequences DEF MapsInRange
  <2>2. CASE Top.class \notin Classes
    <3>1. registered' = registered
      BY <1>1, <2>2 DEF Register, RegisterThrows, MapsInRange
    <3> QED BY <3>1 DEF MapsInRange
  <2> QED BY <2>1, <2>2
<1>2. CASE UNCHANGED registered
  BY <1>2 DEF MapsInRange
<1> QED
  BY <1>1, <1>2 DEF Next, Start, FromJsonValue, FromJsonString, ReadStream, FromJsonObject,
     ToJsonString, ArrayFromJsonValue, MissingFile, FromMissingFile, ArrayFromMissingFile, Call,
     Proceed, StartReading, NotAnObject, SkipUnlinked, UseMissing, ReadMember, ReadNested,
     FailAssertion, RefuseMember, RefuseNested, EndNested, EndReading,
     NotAnArray, ReadElement, EndElement, EndElements,
     StartWriting, WriteMember, WriteNested, EndNestedText, EndWriting, vars, program

\* The map of a class is never larger than what the class links, also when
\* map_to_json has thrown.
THEOREM MapsStayInRange == Spec => []MapsInRange
  BY InitMaps, StepMaps, PTL DEF Spec
-----------------------------------------------------------------------------
\* Members and their paths.

Names == STRING
Kinds == Scalars \cup Classes
LinkSet == [name : Names, kind : Kinds, array : BOOLEAN]
Depth == Cardinality(Classes)

LEMMA DepthIsNat == Depth \in Nat
  BY LinksAssumption, FS_CardinalityType DEF Depth

Within(members) == UNION {MembersOf(m) : m \in {m \in members : m[2].kind \in Classes}}

\* f gives the members at each depth to n.
IsInside(f, n) == f = [d \in 0 .. n |-> IF d = 0 THEN {<<<<>>, RootLink>>} ELSE Within(f[d - 1])]

LEMMA InsideExists == \A n \in Nat : \E f : IsInside(f, n)
<1> DEFINE P == {n \in Nat : \E f : IsInside(f, n)}
           start == {<<<<>>, RootLink>>}
<1> HIDE DEF start
<1>1. 0 \in P
  <2> DEFINE f == [d \in 0 .. 0 |-> start]
  <2>1. f = [d \in 0 .. 0 |-> IF d = 0 THEN start ELSE Within(f[d - 1])]
    OBVIOUS
  <2> QED BY <2>1 DEF IsInside, start
<1>2. ASSUME NEW n \in Nat, n \in P PROVE n + 1 \in P
  <2>1. PICK f : IsInside(f, n)
    BY <1>2
  <2> DEFINE g == [d \in 0 .. n + 1 |-> IF d = n + 1 THEN Within(f[n]) ELSE f[d]]
  <2>2. ASSUME NEW d \in 0 .. n + 1
        PROVE  g[d] = IF d = 0 THEN start ELSE Within(g[d - 1])
    <3>1. CASE d = n + 1
      <4>1. g[d] = Within(f[n]) /\ g[d - 1] = f[n] /\ d # 0
        BY <3>1
      <4> HIDE DEF g
      <4> QED BY <4>1
    <3>2. CASE d \in 0 .. n
      <4>1. g[d] = f[d] /\ (d # 0 => g[d - 1] = f[d - 1])
        BY <3>2
      <4>2. f[d] = IF d = 0 THEN start ELSE Within(f[d - 1])
        BY <2>1, <3>2, Zenon DEF IsInside, start
      <4> HIDE DEF g
      <4> QED BY <4>1, <4>2, Zenon
    <3> QED BY <3>1, <3>2
  <2>3. DOMAIN g = 0 .. n + 1
    OBVIOUS
  <2>4. g = [d \in 0 .. n + 1 |-> IF d = 0 THEN start ELSE Within(g[d - 1])]
    BY <2>2, <2>3
  <2> HIDE DEF g
  <2>5. IsInside(g, n + 1)
    BY <2>4 DEF IsInside, start
  <2> QED BY <2>5
<1> HIDE DEF P
<1> QED BY <1>1, <1>2, NumberInduction DEF P

LEMMA InsideUnfolds ==
    \A d \in 0 .. Depth :
        Inside[d] = IF d = 0 THEN {<<<<>>, RootLink>>} ELSE Within(Inside[d - 1])
<1> DEFINE Is(f) == f = [d \in 0 .. Depth |->
                            IF d = 0 THEN {<<<<>>, RootLink>>} ELSE Within(f[d - 1])]
<1>1. Inside = CHOOSE f : Is(f)
  BY DEF Inside, Within, Depth
<1>2. \E f : Is(f)
  BY InsideExists, DepthIsNat DEF IsInside
<1> HIDE DEF Is
<1>3. Is(Inside)
  BY <1>1, <1>2
<1> QED BY <1>3, Zenon DEF Is

LEMMA LinkType ==
    ASSUME NEW c \in Classes, NEW l \in Range(Links[c])
    PROVE  /\ l \in LinkSet
           /\ \A k \in Range(Links[c]) : k.name = l.name => k = l
<1>1. Links[c] \in Seq(LinkSet)
  BY LinksAssumption DEF LinkSet, Kinds, Names
<1>2. DOMAIN Links[c] = 1 .. Len(Links[c])
  BY <1>1, LenProperties
<1>3. \A i, j \in DOMAIN Links[c] : Links[c][i].name = Links[c][j].name => i = j
  BY LinksAssumption
<1>4. l \in LinkSet
  BY <1>1, RangeOfSeq
<1>5. PICK i \in DOMAIN Links[c] : l = Links[c][i]
  BY DEF Range
<1>6. ASSUME NEW k \in Range(Links[c]), k.name = l.name PROVE k = l
  <2>1. PICK j \in DOMAIN Links[c] : k = Links[c][j]
    BY DEF Range
  <2> QED BY <1>3, <1>5, <1>6, <2>1
<1> QED BY <1>4, <1>6

\* A member at depth d has a path of d names, and no other has that path.
LEMMA InsideType ==
    \A d \in 0 .. Depth : \A m \in Inside[d] :
        /\ m = <<m[1], m[2]>> /\ m[1] \in Seq(Names) /\ Len(m[1]) = d /\ m[2].kind \in Kinds
        /\ \A n \in Inside[d] : n[1] = m[1] => n = m
<1> DEFINE Good(m, d) == m = <<m[1], m[2]>> /\ m[1] \in Seq(Names) /\ Len(m[1]) = d /\ m[2].kind \in Kinds
           Single(d) == \A m, n \in Inside[d] : n[1] = m[1] => n = m
           P == {d \in Nat : d <= Depth => (\A m \in Inside[d] : Good(m, d)) /\ Single(d)}
<1>1. 0 \in P
  <2>1. Inside[0] = {<<<<>>, RootLink>>}
    BY InsideUnfolds, DepthIsNat
  <2>2. Root \in Kinds /\ RootLink.kind = Root
    BY LinksAssumption DEF RootLink, Kinds
  <2> HIDE DEF Kinds
  <2>3. ASSUME NEW m \in Inside[0] PROVE m = <<<<>>, RootLink>>
    BY <2>1
  <2>4. <<>> \in Seq(Names) /\ Len(<<>>) = 0
    BY EmptySeq
  <2>5. ASSUME NEW m \in Inside[0] PROVE Good(m, 0)
    <3>1. PICK e, l : e = <<>> /\ l = RootLink
      OBVIOUS
    <3>2. m = <<e, l>>
      BY <2>3, <2>5, <3>1
    <3>3. m[1] = e /\ m[2] = l
      BY <3>2
    <3> QED BY <2>2, <2>4, <3>1, <3>2, <3>3, Zenon
  <2>6. Single(0)
    BY <2>3
  <2> HIDE DEF Good, Single
  <2> QED BY <2>5, <2>6
<1>2. ASSUME NEW d \in Nat, d \in P PROVE d + 1 \in P
  <2> SUFFICES ASSUME d + 1 <= Depth
               PROVE  (\A m \in Inside[d + 1] : Good(m, d + 1)) /\ Single(d + 1)
    OBVIOUS
  <2>1. Inside[d + 1] = Within(Inside[d])
    BY InsideUnfolds, DepthIsNat
  <2>2. (\A m \in Inside[d] : Good(m, d)) /\ Single(d)
    BY <1>2, DepthIsNat
  <2>3. ASSUME NEW m \in Inside[d + 1]
        PROVE  \E o \in Inside[d] : \E l \in Range(Links[o[2].kind]) :
                    o[2].kind \in Classes /\ m = <<Append(o[1], l.name), l>>
    BY <2>1 DEF Within, MembersOf
  <2>4. ASSUME NEW m \in Inside[d + 1] PROVE Good(m, d + 1)
    <3>1. PICK o, l : /\ o \in Inside[d] /\ o[2].kind \in Classes /\ l \in Range(Links[o[2].kind])
                     /\ m = <<Append(o[1], l.name), l>>
      BY <2>3
    <3>2. l.name \in Names /\ l.kind \in Kinds
      BY <3>1, LinkType DEF LinkSet
    <3>3. o[1] \in Seq(Names) /\ Len(o[1]) = d
      BY <2>2, <3>1
    <3> QED BY <3>1, <3>2, <3>3, AppendProperties
  <2>5. ASSUME NEW m \in Inside[d + 1], NEW n \in Inside[d + 1], n[1] = m[1] PROVE n = m
    <3>1. PICK o, l : /\ o \in Inside[d] /\ o[2].kind \in Classes /\ l \in Range(Links[o[2].kind])
                     /\ m = <<Append(o[1], l.name), l>>
      BY <2>3
    <3>2. PICK p, k : /\ p \in Inside[d] /\ p[2].kind \in Classes /\ k \in Range(Links[p[2].kind])
                     /\ n = <<Append(p[1], k.name), k>>
      BY <2>3
    <3>3. l.name \in Names /\ k.name \in Names
      BY <3>1, <3>2, LinkType DEF LinkSet
    <3>4. o[1] \in Seq(Names) /\ p[1] \in Seq(Names)
      BY <2>2, <3>1, <3>2
    <3>5. o[1] = p[1] /\ l.name = k.name
      <4>1. Append(o[1], l.name) = Append(p[1], k.name)
        BY <2>5, <3>1, <3>2
      <4>2. \A x, y \in Seq(Names), a, b \in Names : Append(x, a) = Append(y, b) => x = y /\ a = b
        BY AppendSame
      <4>3. PICK x, y, a, b : x = o[1] /\ y = p[1] /\ a = l.name /\ b = k.name
        OBVIOUS
      <4>4. x \in Seq(Names) /\ y \in Seq(Names) /\ a \in Names /\ b \in Names
        BY <3>3, <3>4, <4>3
      <4>5. Append(x, a) = Append(y, b)
        BY <4>1, <4>3
      <4>6. x = y /\ a = b
        BY <4>2, <4>4, <4>5
      <4> QED BY <4>3, <4>6
    <3>6. o = p
      BY <2>2, <3>1, <3>2, <3>5
    <3>7. k = l
      BY <3>1, <3>2, <3>5, <3>6, LinkType
    <3> QED BY <3>1, <3>2, <3>6, <3>7
  <2> HIDE DEF Good
  <2> QED BY <2>4, <2>5
<1> HIDE DEF P
<1>3. Nat \subseteq P
  BY <1>1, <1>2, NumberInduction
<1>4. \A d \in 0 .. Depth : d \in P /\ d <= Depth
  BY <1>3, DepthIsNat
<1> QED BY <1>4 DEF P

\* Each member has its own path, and LinkAt is its link.
LEMMA MemberType ==
    ASSUME NEW m \in Members
    PROVE  /\ m = <<m[1], m[2]>> /\ m[1] \in Seq(Names) /\ m[2].kind \in Kinds
           /\ LinkAt(m[1]) = m[2]
           /\ m[2].kind \notin Classes => m[1] \in Paths
<1>1. PICK d \in 0 .. Depth : m \in Inside[d]
  BY DEF Members, Depth
<1>2. m = <<m[1], m[2]>> /\ m[1] \in Seq(Names) /\ Len(m[1]) = d /\ m[2].kind \in Kinds
  BY <1>1, InsideType
<1>3. ASSUME NEW n \in Members, n[1] = m[1] PROVE n = m
  <2>1. PICK e \in 0 .. Depth : n \in Inside[e]
    BY DEF Members, Depth
  <2>2. Len(n[1]) = e
    BY <2>1, InsideType
  <2>3. e = d
    BY <1>2, <1>3, <2>2
  <2> QED BY <1>1, <1>3, <2>1, <2>3, InsideType
<1>4. LinkAt(m[1]) = m[2]
  <2>1. (CHOOSE n \in Members : n[1] = m[1]) = m
    BY <1>3
  <2> QED BY <2>1 DEF LinkAt
<1>5. m[2].kind \notin Classes => m[1] \in Paths
  BY DEF Paths
<1> QED BY <1>2, <1>4, <1>5

LEMMA RootIsMember == <<<<>>, RootLink>> \in Members
<1>1. 0 \in 0 .. Depth /\ <<<<>>, RootLink>> \in Inside[0]
  BY InsideUnfolds, DepthIsNat
<1> QED BY <1>1 DEF Members, Depth

\* What the class of a member links are members.
LEMMA LinkedIsMember ==
    ASSUME NEW m \in Members, m[2].kind \in Classes, NEW l \in Range(Links[m[2].kind])
    PROVE  <<Append(m[1], l.name), l>> \in Members
<1>1. PICK d \in 0 .. Depth : m \in Inside[d]
  BY DEF Members, Depth
<1>2. d # Depth
  BY <1>1, NestingAssumption DEF Depth
<1>3. d + 1 \in 0 .. Depth /\ Inside[d + 1] = Within(Inside[d])
  BY <1>2, InsideUnfolds, DepthIsNat
<1>4. <<Append(m[1], l.name), l>> \in Inside[d + 1]
  BY <1>1, <1>3 DEF Within, MembersOf
<1> QED BY <1>3, <1>4 DEF Members, Depth

LEMMA PathType ==
    ASSUME NEW p \in Paths
    PROVE  p \in Seq(Names) /\ LinkAt(p).kind \in Scalars /\ <<p, LinkAt(p)>> \in Members
<1>1. PICK m \in Members : m[1] = p /\ m[2].kind \notin Classes
  BY DEF Paths
<1> QED BY <1>1, MemberType DEF Kinds
-----------------------------------------------------------------------------
\* What a JSON value mentions.

Onward(vs, name) == FlattenSeq([i \in DOMAIN vs |-> Named(vs[i], name)])

\* f gives what v mentions for the first n names of a path.
IsUpto(f, v, p, n) == f = [k \in 0 .. n |-> IF k = 0 THEN <<v>> ELSE Onward(f[k - 1], p[k])]

LEMMA UptoExists == ASSUME NEW v, NEW p PROVE \A n \in Nat : \E f : IsUpto(f, v, p, n)
<1> DEFINE P == {n \in Nat : \E f : IsUpto(f, v, p, n)}
           start == <<v>>
<1> HIDE DEF start
<1>1. 0 \in P
  <2> DEFINE f == [k \in 0 .. 0 |-> start]
  <2>1. f = [k \in 0 .. 0 |-> IF k = 0 THEN start ELSE Onward(f[k - 1], p[k])]
    OBVIOUS
  <2> QED BY <2>1 DEF IsUpto, start
<1>2. ASSUME NEW n \in Nat, n \in P PROVE n + 1 \in P
  <2>1. PICK f : IsUpto(f, v, p, n)
    BY <1>2
  <2> DEFINE last == Onward(f[n], p[n + 1])
  <2> HIDE DEF last
  <2> DEFINE g == [k \in 0 .. n + 1 |-> IF k = n + 1 THEN last ELSE f[k]]
  <2>2. ASSUME NEW k \in 0 .. n + 1
        PROVE  g[k] = IF k = 0 THEN start ELSE Onward(g[k - 1], p[k])
    <3>1. CASE k = n + 1
      <4>1. g[k] = last /\ g[k - 1] = f[n] /\ k # 0
        BY <3>1
      <4> HIDE DEF g
      <4> QED BY <3>1, <4>1 DEF last
    <3>2. CASE k \in 0 .. n
      <4>1. g[k] = f[k] /\ (k # 0 => g[k - 1] = f[k - 1])
        BY <3>2
      <4>2. f[k] = IF k = 0 THEN start ELSE Onward(f[k - 1], p[k])
        BY <2>1, <3>2, Zenon DEF IsUpto, start
      <4> HIDE DEF g
      <4> QED BY <4>1, <4>2, Zenon
    <3> QED BY <3>1, <3>2
  <2>3. g = [k \in 0 .. n + 1 |-> IF k = 0 THEN start ELSE Onward(g[k - 1], p[k])]
    BY <2>2
  <2> HIDE DEF g
  <2>4. IsUpto(g, v, p, n + 1)
    BY <2>3 DEF IsUpto, start
  <2> QED BY <2>4
<1> HIDE DEF P
<1> QED BY <1>1, <1>2, NumberInduction DEF P

LEMMA MentionsIs ==
    ASSUME NEW v, NEW p, Len(p) \in Nat
    PROVE  \E f : IsUpto(f, v, p, Len(p)) /\ Mentions(v, p) = f[Len(p)]
<1> DEFINE Is(f) == f = [n \in 0 .. Len(p) |->
                IF n = 0 THEN <<v>>
                ELSE FlattenSeq([i \in DOMAIN f[n - 1] |-> Named(f[n - 1][i], p[n])])]
           upto == CHOOSE f : Is(f)
<1>1. Mentions(v, p) = upto[Len(p)]
  BY DEF Mentions
<1>2. \A f : Is(f) <=> IsUpto(f, v, p, Len(p))
  BY Zenon DEF IsUpto, Onward
<1> HIDE DEF Is
<1>3. Is(upto)
  BY <1>2, UptoExists, Zenon
<1> HIDE DEF upto
<1> QED BY <1>1, <1>2, <1>3

\* Paths that begin alike mention alike.
LEMMA UptoAgrees ==
    ASSUME NEW v, NEW p, NEW q, NEW n \in Nat, NEW m \in Nat, n <= m,
           \A k \in 1 .. n : p[k] = q[k],
           NEW f, IsUpto(f, v, p, n), NEW g, IsUpto(g, v, q, m)
    PROVE  \A k \in 0 .. n : f[k] = g[k]
<1>1. /\ \A k \in 0 .. n : f[k] = IF k = 0 THEN <<v>> ELSE Onward(f[k - 1], p[k])
      /\ \A k \in 0 .. m : g[k] = IF k = 0 THEN <<v>> ELSE Onward(g[k - 1], q[k])
  BY Zenon DEF IsUpto
<1> DEFINE P == {k \in Nat : k <= n => f[k] = g[k]}
<1>2. 0 \in P
  BY <1>1
<1>3. ASSUME NEW k \in Nat, k \in P PROVE k + 1 \in P
  <2> SUFFICES ASSUME k + 1 <= n PROVE f[k + 1] = g[k + 1]
    OBVIOUS
  <2>1. PICK l : l = k + 1
    OBVIOUS
  <2>2. l \in 0 .. n /\ l \in 0 .. m /\ l # 0 /\ l - 1 = k /\ l \in 1 .. n
    BY <2>1
  <2>3. f[k] = g[k] /\ p[l] = q[l]
    BY <1>3, <2>2
  <2>4. f[l] = Onward(f[l - 1], p[l]) /\ g[l] = Onward(g[l - 1], q[l])
    BY <1>1, <2>2, Zenon
  <2>5. f[l] = g[l]
    BY <2>2, <2>3, <2>4
  <2> QED BY <2>1, <2>5
<1> HIDE DEF P
<1>4. Nat \subseteq P
  BY <1>2, <1>3, NumberInduction
<1> QED BY <1>4 DEF P

\* A value mentions itself for the empty path, and for a longer one what the
\* values for the shorter one have under its last name.
LEMMA MentionsUnfolds ==
    ASSUME NEW v
    PROVE  /\ Mentions(v, <<>>) = <<v>>
           /\ \A S : \A p \in Seq(S), name \in S :
                  Mentions(v, Append(p, name)) = Onward(Mentions(v, p), name)
<1>1. Mentions(v, <<>>) = <<v>>
  <2>1. PICK e : e = <<>> /\ Len(e) = 0
    BY EmptySeq
  <2>2. PICK f : IsUpto(f, v, e, 0) /\ Mentions(v, e) = f[0]
    BY <2>1, MentionsIs
  <2>3. \A k \in 0 .. 0 : f[k] = IF k = 0 THEN <<v>> ELSE Onward(f[k - 1], e[k])
    BY <2>2, Zenon DEF IsUpto
  <2>4. f[0] = <<v>>
    BY <2>3
  <2> QED BY <2>1, <2>2, <2>4, Zenon
<1>2. ASSUME NEW S, NEW p \in Seq(S), NEW name \in S
      PROVE  Mentions(v, Append(p, name)) = Onward(Mentions(v, p), name)
  <2>1. PICK n \in Nat : n = Len(p)
    BY LenProperties
  <2>2. PICK q : q = Append(p, name)
    OBVIOUS
  <2>3. Len(q) = n + 1 /\ (\A k \in 1 .. n : p[k] = q[k]) /\ q[n + 1] = name
    BY <2>1, <2>2, AppendProperties
  <2>4. PICK f : IsUpto(f, v, p, n) /\ Mentions(v, p) = f[n]
    BY <2>1, MentionsIs
  <2>5. PICK g : IsUpto(g, v, q, n + 1) /\ Mentions(v, q) = g[n + 1]
    <3>1. Len(q) \in Nat
      BY <2>3
    <3> QED BY <2>3, <3>1, MentionsIs
  <2>6. f[n] = g[n]
    <3>1. PICK m \in Nat : m = n + 1
      OBVIOUS
    <3>2. n <= m /\ (\A k \in 1 .. n : p[k] = q[k]) /\ IsUpto(f, v, p, n) /\ IsUpto(g, v, q, m)
      BY <2>3, <2>4, <2>5, <3>1
    <3>3. \A k \in 0 .. n : f[k] = g[k]
      BY <3>2, UptoAgrees
    <3> QED BY <3>3
  <2>7. g[n + 1] = Onward(g[n], name)
    <3>1. PICK l : l = n + 1
      OBVIOUS
    <3>2. l \in 0 .. n + 1 /\ l # 0 /\ l - 1 = n
      BY <3>1
    <3>3. \A k \in 0 .. n + 1 : g[k] = IF k = 0 THEN <<v>> ELSE Onward(g[k - 1], q[k])
      BY <2>5, Zenon DEF IsUpto
    <3>4. g[l] = Onward(g[l - 1], q[l])
      BY <3>2, <3>3
    <3> QED BY <2>3, <3>1, <3>2, <3>4
  <2> QED BY <2>1, <2>2, <2>4, <2>5, <2>6, <2>7
<1> QED BY <1>1, <1>2
\* A set of JSON values that has the values in them.
JsonSet(S) == \A v \in S : Shaped(v, S)
Missing == <<"missing", "missing">>

LEMMA ShapedMore ==
    ASSUME NEW v, NEW S, NEW T, S \subseteq T, Shaped(v, S)
    PROVE  Shaped(v, T)
<1>1. Seq(S) \subseteq Seq(T)
  BY SeqMonotonic
<1>2. Seq(STRING \X S) \subseteq Seq(STRING \X T)
  <2>1. PICK A, B : A = STRING \X S /\ B = STRING \X T
    OBVIOUS
  <2>2. A \subseteq B
    BY <2>1
  <2> QED BY <2>1, <2>2, SeqMonotonic
<1> QED BY <1>1, <1>2, Zenon DEF Shaped

LEMMA JsonMore ==
    ASSUME NEW S, JsonSet(S), NEW v, Shaped(v, S)
    PROVE  JsonSet(S \cup {v})
<1>1. S \subseteq S \cup {v}
  OBVIOUS
<1>2. \A w \in S \cup {v} : Shaped(w, S)
  BY DEF JsonSet
<1> QED BY <1>1, <1>2, ShapedMore DEF JsonSet

LEMMA ContentType ==
    ASSUME NEW S, JsonSet(S), NEW v \in S
    PROVE  /\ v[1] # "missing"
           /\ v[1] \in {"integer", "real"} => v[2] \in Int
           /\ v[1] = "boolean" => v[2] \in BOOLEAN
           /\ v[1] = "string" => v[2] \in Names
           /\ v[1] = "array" => v[2] \in Seq(S)
           /\ v[1] = "object" => v[2] \in Seq(Names \X S)
<1> DEFINE nil == <<"null", "null">>
<1>1. nil[1] = "null"
  OBVIOUS
<1> HIDE DEF nil
<1>2. \/ v = nil
      \/ v[1] \in {"integer", "real"} /\ v[2] \in Int
      \/ v[1] = "boolean" /\ v[2] \in BOOLEAN
      \/ v[1] = "string" /\ v[2] \in Names
      \/ v[1] = "array" /\ v[2] \in Seq(S)
      \/ v[1] = "object" /\ v[2] \in Seq(Names \X S)
  BY Zenon DEF JsonSet, Shaped, nil, Names
<1> QED BY <1>1, <1>2

\* The sequence that Named flattens.
Picked(ms, name) == [i \in DOMAIN ms |-> IF ms[i][1] = name THEN <<ms[i][2]>> ELSE <<>>]

LEMMA PickedType ==
    ASSUME NEW S, NEW ms \in Seq(Names \X S), NEW name
    PROVE  Picked(ms, name) \in Seq(Seq(S)) /\ Len(Picked(ms, name)) = Len(ms)
<1>1. PICK n \in Nat : n = Len(ms) /\ DOMAIN ms = 1 .. n
  BY LenProperties
<1>2. ASSUME NEW i \in 1 .. n PROVE (IF ms[i][1] = name THEN <<ms[i][2]>> ELSE <<>>) \in Seq(S)
  <2>1. PICK T : T = Names \X S
    OBVIOUS
  <2>2. ms[i] \in T
    BY <1>1, <2>1, ElementOfSeq
  <2>3. ms[i][2] \in S
    BY <2>1, <2>2
  <2>4. <<ms[i][2]>> \in Seq(S)
    BY <2>3
  <2>5. <<>> \in Seq(S)
    BY EmptySeq
  <2> QED BY <2>4, <2>5
<1>3. Picked(ms, name) \in [1 .. n -> Seq(S)]
  BY <1>1, <1>2 DEF Picked
<1> HIDE DEF Picked
<1> QED BY <1>1, <1>3

LEMMA NamedType ==
    ASSUME NEW S, JsonSet(S), NEW v \in S, NEW name
    PROVE  /\ Named(v, name) \in Seq(S)
           /\ v[1] = "object" =>
                  /\ \A i \in DOMAIN v[2] : v[2][i][2] \in Range(Named(v, v[2][i][1]))
                  /\ (\A i \in DOMAIN v[2] : v[2][i][1] # name) => Named(v, name) = <<>>
<1>1. CASE v[1] # "object"
  BY <1>1, EmptySeq DEF Named
<1>2. CASE v[1] = "object"
  <2>1. PICK ms : ms = v[2] /\ ms \in Seq(Names \X S)
    BY <1>2, ContentType
  <2>2. \A key : Named(v, key) = FlattenSeq(Picked(ms, key))
    BY <1>2, <2>1 DEF Named, Picked
  <2>3. \A key : Picked(ms, key) \in Seq(Seq(S)) /\ Len(Picked(ms, key)) = Len(ms)
    BY <2>1, PickedType
  <2>4. Named(v, name) \in Seq(S)
    BY <2>2, <2>3, FlattenType
  <2>5. DOMAIN ms = 1 .. Len(ms)
    BY <2>1, LenProperties
  <2>6. ASSUME NEW i \in DOMAIN ms PROVE ms[i][2] \in Range(Named(v, ms[i][1]))
    <3>1. Range(Picked(ms, ms[i][1])[i]) \subseteq Range(FlattenSeq(Picked(ms, ms[i][1])))
      BY <2>3, <2>5, FlattenHas
    <3>2. Picked(ms, ms[i][1])[i] = <<ms[i][2]>>
      BY DEF Picked
    <3>3. ms[i][2] \in Range(<<ms[i][2]>>)
      BY DEF Range
    <3> QED BY <2>2, <3>1, <3>2, <3>3
  <2>7. ASSUME \A i \in DOMAIN ms : ms[i][1] # name PROVE Named(v, name) = <<>>
    <3>1. Picked(ms, name) = [i \in 1 .. Len(ms) |-> <<>>] /\ Len(ms) \in Nat
      BY <2>1, <2>5, <2>7, LenProperties DEF Picked
    <3>2. Picked(ms, name) \in Seq(Seq({}))
      <4>1. <<>> \in Seq({})
        BY EmptySeq
      <4> QED BY <3>1, <4>1
    <3>3. FlattenSeq(Picked(ms, name)) \in Seq({})
      BY <3>2, FlattenType
    <3> QED BY <2>2, <3>3
  <2> QED BY <1>2, <2>1, <2>4, <2>6, <2>7
<1> QED BY <1>1, <1>2

LEMMA OnwardType ==
    ASSUME NEW S, JsonSet(S), NEW vs \in Seq(S), NEW name
    PROVE  /\ Onward(vs, name) \in Seq(S)
           /\ \A k \in DOMAIN vs : Range(Named(vs[k], name)) \subseteq Range(Onward(vs, name))
<1>1. PICK n \in Nat : n = Len(vs) /\ DOMAIN vs = 1 .. n
  BY LenProperties
<1>2. PICK ss : ss = [k \in 1 .. n |-> Named(vs[k], name)]
  OBVIOUS
<1>3. \A k \in 1 .. n : vs[k] \in S
  BY <1>1, ElementOfSeq
<1>4. \A k \in 1 .. n : Named(vs[k], name) \in Seq(S)
  BY <1>3, NamedType
<1>5. ss \in Seq(Seq(S)) /\ Len(ss) = n
  BY <1>2, <1>4
<1>6. Onward(vs, name) = FlattenSeq(ss)
  BY <1>1, <1>2 DEF Onward
<1>7. Onward(vs, name) \in Seq(S)
  BY <1>5, <1>6, FlattenType
<1>8. ASSUME NEW k \in DOMAIN vs PROVE Range(Named(vs[k], name)) \subseteq Range(Onward(vs, name))
  <2>1. k \in 1 .. Len(ss) /\ ss[k] = Named(vs[k], name)
    BY <1>1, <1>2, <1>5
  <2> QED BY <1>5, <1>6, <2>1, FlattenHas
<1> QED BY <1>7, <1>8

\* What a JSON value mentions is JSON.
LEMMA MentionsType ==
    ASSUME NEW S, JsonSet(S), NEW v \in S
    PROVE  \A p \in Seq(Names) : Mentions(v, p) \in Seq(S)
<1> DEFINE P == {n \in Nat : \A p \in Seq(Names) : Len(p) = n => Mentions(v, p) \in Seq(S)}
<1>1. 0 \in P
  <2>1. \A p \in Seq(Names) : Len(p) = 0 => p = <<>>
    OBVIOUS
  <2>2. Mentions(v, <<>>) = <<v>>
    BY MentionsUnfolds
  <2>3. <<v>> \in Seq(S)
    OBVIOUS
  <2> QED BY <2>1, <2>2, <2>3
<1>2. ASSUME NEW n \in Nat, n \in P PROVE n + 1 \in P
  <2> SUFFICES ASSUME NEW p \in Seq(Names), Len(p) = n + 1 PROVE Mentions(v, p) \in Seq(S)
    OBVIOUS
  <2>1. p # <<>>
    BY EmptySeq
  <2>2. PICK q \in Seq(Names), name \in Names : p = Append(q, name)
    BY <2>1, SequenceEmptyOrAppend
  <2>3. Len(q) = n
    <3>1. Len(p) = Len(q) + 1 /\ Len(q) \in Nat
      BY <2>2, AppendProperties, LenProperties
    <3> QED BY <3>1
  <2>4. Mentions(v, q) \in Seq(S)
    BY <1>2, <2>3
  <2>5. Mentions(v, p) = Onward(Mentions(v, q), name)
    BY <2>2, MentionsUnfolds
  <2> QED BY <2>4, <2>5, OnwardType
<1> HIDE DEF P
<1>3. Nat \subseteq P
  BY <1>1, <1>2, NumberInduction
<1> QED BY <1>3, LenProperties DEF P

\* The items of an object that is mentioned are mentioned one name further.
LEMMA ItemIsMentioned ==
    ASSUME NEW S, JsonSet(S), NEW v \in S, NEW p \in Seq(Names),
           NEW w \in Range(Mentions(v, p)), w[1] = "object", NEW i \in DOMAIN w[2]
    PROVE  w[2][i][1] \in Names /\ w[2][i][2] \in S
           /\ w[2][i][2] \in Range(Mentions(v, Append(p, w[2][i][1])))
<1>1. PICK vs : vs = Mentions(v, p) /\ vs \in Seq(S)
  BY MentionsType
<1>2. PICK k \in DOMAIN vs : w = vs[k]
  BY <1>1 DEF Range
<1>3. w \in S
  BY <1>1, <1>2, ElementOfSeq, LenProperties
<1>4. w[2] \in Seq(Names \X S)
  BY <1>3, ContentType
<1>5. w[2][i][1] \in Names /\ w[2][i][2] \in S
  <2>1. PICK T : T = Names \X S
    OBVIOUS
  <2>2. w[2][i] \in T
    BY <1>4, <2>1, ElementOfSeq, LenProperties
  <2> QED BY <2>1, <2>2
<1>6. PICK name \in Names : name = w[2][i][1]
  BY <1>5
<1>7. Mentions(v, Append(p, name)) = Onward(vs, name)
  BY <1>1, MentionsUnfolds
<1>8. w[2][i][2] \in Range(Named(w, name))
  BY <1>3, <1>6, NamedType
<1>9. Range(Named(w, name)) \subseteq Range(Onward(vs, name))
  BY <1>1, <1>2, OnwardType
<1> QED BY <1>5, <1>6, <1>7, <1>8, <1>9

\* A name that an object does not have is not mentioned by it.
LEMMA NoneIsMentioned ==
    ASSUME NEW S, JsonSet(S), NEW v \in S, v[1] = "object",
           NEW name \in Names, \A i \in DOMAIN v[2] : v[2][i][1] # name
    PROVE  Mentions(v, <<name>>) = <<>>
<1>1. PICK e : e = <<>> /\ e \in Seq(Names)
  BY EmptySeq
<1>2. <<name>> = Append(e, name)
  BY <1>1
<1>3. Mentions(v, <<name>>) = Onward(Mentions(v, e), name)
  <2>1. Mentions(v, Append(e, name)) = Onward(Mentions(v, e), name)
    BY <1>1, MentionsUnfolds
  <2> QED BY <1>2, <2>1
<1>4. PICK vs : vs = Mentions(v, e) /\ vs = <<v>>
  BY <1>1, MentionsUnfolds
<1>5. PICK ss : ss = [k \in DOMAIN vs |-> Named(vs[k], name)]
  OBVIOUS
<1>6. Named(v, name) = <<>>
  BY NamedType
<1>7. ss = <<<<>>>>
  BY <1>4, <1>5, <1>6
<1>8. ss \in Seq(Seq({}))
  <2>1. <<>> \in Seq({})
    BY EmptySeq
  <2> QED BY <1>7, <2>1
<1>9. FlattenSeq(ss) \in Seq({})
  BY <1>8, FlattenType
<1>10. Mentions(v, <<name>>) = FlattenSeq(ss)
  BY <1>3, <1>4, <1>5 DEF Onward
<1> QED BY <1>9, <1>10
-----------------------------------------------------------------------------
\* What the members hold, and what is printed of it.

HeldFor(link) == IF link.array THEN Seq(HeldBy(link.kind)) ELSE HeldBy(link.kind)

LEMMA HoldsIs ==
    ASSUME NEW o
    PROVE  Holds(o) <=> DOMAIN o = Paths /\ \A p \in Paths : o[p] \in HeldFor(LinkAt(p))
  BY Zenon DEF Holds, HeldFor

LEMMA HoldsExcept ==
    ASSUME NEW o, Holds(o), NEW p \in Paths, NEW x \in HeldFor(LinkAt(p))
    PROVE  Holds([o EXCEPT ![p] = x])
<1>1. DOMAIN o = Paths /\ \A q \in Paths : o[q] \in HeldFor(LinkAt(q))
  BY HoldsIs, Zenon
<1>2. PICK u : u = [o EXCEPT ![p] = x]
  OBVIOUS
<1>3. DOMAIN u = Paths /\ \A q \in Paths : u[q] \in HeldFor(LinkAt(q))
  BY <1>1, <1>2
<1> QED BY <1>2, <1>3, HoldsIs, Zenon

\* An integer is cut to the member's width.
LEMMA NarrowType == ASSUME NEW n \in Int PROVE Narrow(n) \in -Half .. Half - 1
<1>1. PICK w \in Nat \ {0} : w = 2 * Half /\ Half \in Nat \ {0}
  BY BoundAssumption
<1>2. PICK k \in Int : k = n + Half
  BY <1>1
<1>3. k % w \in 0 .. w - 1
  BY <1>1, <1>2
<1>4. Narrow(n) = (k % w) - Half
  BY <1>1, <1>2 DEF Narrow
<1> QED BY <1>1, <1>3, <1>4

LEMMA HeldOneType ==
    ASSUME NEW S, JsonSet(S), NEW v \in S, NEW kind \in Scalars, TakesOne(kind, v)
    PROVE  HeldOne(kind, v) \in HeldBy(kind)
<1>1. CASE kind = "integer"
  <2>1. v[2] \in Int
    BY <1>1, ContentType DEF TakesOne
  <2>2. HeldOne(kind, v) = Narrow(v[2]) /\ HeldBy(kind) = -Half .. Half - 1
    BY <1>1, Zenon DEF HeldOne, HeldBy
  <2> QED BY <2>1, <2>2, NarrowType
<1>2. CASE kind = "real"
  <2>1. v[2] \in Int
    BY <1>2, ContentType DEF TakesOne
  <2>2. Unit * v[2] \in Int
    BY <2>1, BoundAssumption
  <2> QED BY <1>2, <2>1, <2>2 DEF HeldOne, HeldBy
<1>3. CASE kind = "boolean"
  <2>1. v[2] \in BOOLEAN
    BY <1>3, ContentType DEF TakesOne
  <2>2. kind # "integer" /\ kind # "real"
    BY <1>3
  <2>3. HeldOne(kind, v) = v[2] /\ HeldBy(kind) = BOOLEAN
    BY <1>3, <2>2 DEF HeldOne, HeldBy
  <2> QED BY <2>1, <2>3
<1>4. CASE kind = "string"
  <2>1. v[2] \in Names
    BY <1>4, ContentType DEF TakesOne
  <2>2. kind # "integer" /\ kind # "real" /\ kind # "boolean"
    BY <1>4
  <2>3. HeldOne(kind, v) = v[2] /\ HeldBy(kind) = Names
    BY <2>2 DEF HeldOne, HeldBy, Names
  <2> QED BY <2>1, <2>3
<1> QED BY <1>1, <1>2, <1>3, <1>4 DEF Scalars

LEMMA CopiedType ==
    ASSUME NEW S, JsonSet(S), NEW v \in S, v[1] = "array", NEW link, link.kind \in Scalars
    PROVE  Copied(link, v) \in Seq(HeldBy(link.kind))
<1>1. v[2] \in Seq(S)
  BY ContentType
<1>2. PICK n \in Nat : n = Len(v[2])
  BY <1>1, LenProperties
<1> DEFINE good == {k \in 0 .. n : \A i \in 1 .. k : TakesOne(link.kind, v[2][i])}
<1>3. 0 \in good
  OBVIOUS
<1>4. good \subseteq 0 .. n
  OBVIOUS
<1>5. Max(good) \in good
  <2> HIDE DEF good
  <2> QED BY <1>3, <1>4, MaxIsGreatest
<1>6. PICK m : m = Max(good)
  OBVIOUS
<1>7. m \in 0 .. n /\ \A i \in 1 .. m : TakesOne(link.kind, v[2][i])
  BY <1>5, <1>6
<1>8. Copied(link, v) = [i \in 1 .. m |-> HeldOne(link.kind, v[2][i])]
  BY <1>2, <1>6 DEF Copied
<1>9. \A i \in 1 .. m : HeldOne(link.kind, v[2][i]) \in HeldBy(link.kind)
  <2> SUFFICES ASSUME NEW i \in 1 .. m PROVE HeldOne(link.kind, v[2][i]) \in HeldBy(link.kind)
    OBVIOUS
  <2>1. i \in 1 .. Len(v[2])
    BY <1>2, <1>7
  <2>2. v[2][i] \in S
    BY <1>1, <2>1, ElementOfSeq
  <2> QED BY <1>7, <2>2, HeldOneType
<1> HIDE DEF good
<1> QED BY <1>7, <1>8, <1>9

\* What a member is assigned is what it may hold.
LEMMA HeldType ==
    ASSUME NEW S, JsonSet(S), NEW v \in S, NEW link, link.kind \in Scalars, link.array \in BOOLEAN
    PROVE  /\ Takes(link, v) => Held(link, v) \in HeldFor(link)
           /\ link.array /\ v[1] = "array" => /\ Copied(link, v) \in HeldFor(link)
                                              /\ Held(link, v) = Copied(link, v)
<1>1. CASE link.array
  <2>1. Takes(link, v) => v[1] = "array"
    BY <1>1 DEF Takes
  <2>2. Held(link, v) = Copied(link, v) /\ HeldFor(link) = Seq(HeldBy(link.kind))
    BY <1>1 DEF Held, HeldFor
  <2> QED BY <2>1, <2>2, CopiedType
<1>2. CASE ~link.array
  <2>1. Takes(link, v) <=> TakesOne(link.kind, v)
    BY <1>2 DEF Takes
  <2>2. Held(link, v) = HeldOne(link.kind, v) /\ HeldFor(link) = HeldBy(link.kind)
    BY <1>2 DEF Held, HeldFor
  <2> QED BY <1>2, <2>1, <2>2, HeldOneType
<1> QED BY <1>1, <1>2

\* Values printed for a member, and objects of JSON values, are JSON.
LEMMA PrintedType ==
    ASSUME NEW S, JsonSet(S), NEW link, link.kind \in Scalars, link.array \in BOOLEAN,
           NEW x \in HeldFor(link)
    PROVE  \E T : S \subseteq T /\ JsonSet(T) /\ Printed(link, x) \in T
<1> DEFINE kind == link.kind
           One(y) == PrintedOne(kind, y)
<1>1. ASSUME NEW y \in HeldBy(kind), NEW T PROVE Shaped(One(y), T)
  <2>1. CASE kind = "integer"
    <3>1. y \in Int
      BY <2>1, BoundAssumption DEF HeldBy
    <3> QED BY <2>1, <3>1 DEF Shaped, PrintedOne
  <2>2. CASE kind = "real"
    <3>1. y \in Int /\ Step \in Nat \ {0}
      BY <2>2, BoundAssumption DEF HeldBy
    <3>2. PICK z : z = Step * ((y + Step \div 2) \div Step)
      OBVIOUS
    <3>3. Step \div 2 \in Int
      BY <3>1
    <3>4. PICK h \in Int : h = y + Step \div 2
      BY <3>1, <3>3
    <3>5. h \div Step \in Int
      BY <3>1
    <3>6. z \in Int
      BY <3>1, <3>2, <3>4, <3>5
    <3>7. One(y) = <<"real", z>>
      BY <2>2, <3>2 DEF PrintedOne
    <3> QED BY <3>6, <3>7 DEF Shaped
  <2>3. CASE kind = "boolean"
    <3>1. y \in BOOLEAN /\ One(y) = <<"boolean", y>>
      BY <2>3 DEF HeldBy, PrintedOne
    <3>2. PICK w : w = One(y)
      OBVIOUS
    <3>3. w[1] = "boolean" /\ w[2] = y
      BY <3>1, <3>2
    <3>4. Shaped(w, T)
      BY <3>1, <3>3, Zenon DEF Shaped
    <3> QED BY <3>2, <3>4
  <2>4. CASE kind = "string"
    <3>1. y \in STRING /\ One(y) = <<"string", y>>
      BY <2>4 DEF HeldBy, PrintedOne
    <3> QED BY <3>1 DEF Shaped
  <2> QED BY <2>1, <2>2, <2>3, <2>4 DEF Scalars
<1>2. CASE ~link.array
  <2>1. Printed(link, x) = One(x) /\ x \in HeldBy(kind)
    BY <1>2 DEF Printed, HeldFor
  <2>2. PICK T : T = S \cup {One(x)}
    OBVIOUS
  <2> HIDE DEF One
  <2>3. JsonSet(T)
    BY <1>1, <2>1, <2>2, ShapedMore DEF JsonSet
  <2> QED BY <2>1, <2>2, <2>3
<1>3. CASE link.array
  <2>1. x \in Seq(HeldBy(kind)) /\ Printed(link, x) = <<"array", [i \in DOMAIN x |-> One(x[i])]>>
    BY <1>3 DEF Printed, HeldFor
  <2> HIDE DEF One
  <2>2. PICK n \in Nat : DOMAIN x = 1 .. n /\ \A i \in 1 .. n : x[i] \in HeldBy(kind)
    BY <2>1, LenProperties, ElementOfSeq
  <2>3. PICK U, s : U = S \cup {One(x[i]) : i \in 1 .. n} /\ s = [i \in 1 .. n |-> One(x[i])]
    OBVIOUS
  <2>4. s \in Seq(U) /\ Printed(link, x) = <<"array", s>>
    BY <2>1, <2>2, <2>3
  <2>5. JsonSet(U)
    BY <1>1, <2>2, <2>3, ShapedMore DEF JsonSet
  <2>6. Shaped(<<"array", s>>, U)
    BY <2>4 DEF Shaped
  <2>7. JsonSet(U \cup {<<"array", s>>})
    BY <2>5, <2>6, JsonMore
  <2> QED BY <2>3, <2>4, <2>7
<1> QED BY <1>2, <1>3

LEMMA ObjectIsJson ==
    ASSUME NEW S, JsonSet(S), NEW ms \in Seq(Names \X S)
    PROVE  JsonSet(S \cup {<<"object", ms>>})
<1>1. Shaped(<<"object", ms>>, S)
  BY DEF Shaped, Names
<1> QED BY <1>1, JsonMore

LEMMA NullIsJson ==
    ASSUME NEW S, JsonSet(S)
    PROVE  JsonSet(S \cup {<<"null", "null">>})
<1>1. Shaped(<<"null", "null">>, S)
  BY DEF Shaped
<1> QED BY <1>1, JsonMore
-----------------------------------------------------------------------------
\* find, and the names in a map.

LEMMA FindType ==
    ASSUME NEW S, JsonSet(S), NEW ms \in Seq(Names \X S), NEW name
    PROVE  \/ Find(ms, name) = Missing /\ \A i \in DOMAIN ms : ms[i][1] # name
           \/ \E i \in DOMAIN ms : ms[i][1] = name /\ Find(ms, name) = ms[i][2]
<1> DEFINE named == {i \in DOMAIN ms : ms[i][1] = name}
<1>1. named = {} => Find(ms, name) = Missing
  BY DEF Find, Missing
<1>2. named # {} => Find(ms, name) = ms[Min(named)][2]
  BY DEF Find
<1>3. named # {} => Min(named) \in named
  <2>1. named \subseteq Nat
    BY LenProperties
  <2> HIDE DEF named
  <2> QED BY <2>1, MinIsLeast
<1> QED BY <1>1, <1>2, <1>3

\* The names of the first n members that c links.
FirstNames(c, n) == {Links[c][i].name : i \in 1 .. n}

LEMMA NamesType ==
    ASSUME NEW c \in Classes, NEW n \in 0 .. Len(Links[c])
    PROVE  /\ IsFiniteSet(FirstNames(c, n))
           /\ \A name \in FirstNames(c, n) :
                  /\ name \in Names
                  /\ LinkOf(c, name) \in Range(Links[c]) /\ LinkOf(c, name).name = name
<1>1. Len(Links[c]) \in Nat /\ DOMAIN Links[c] = 1 .. Len(Links[c])
  BY LinksAssumption, LenProperties
<1>2. IsFiniteSet(FirstNames(c, n))
  <2>1. PICK f : f = [i \in 1 .. n |-> Links[c][i].name]
    OBVIOUS
  <2>2. f \in Surjection(1 .. n, FirstNames(c, n))
    BY <2>1 DEF FirstNames, Surjection
  <2>3. IsFiniteSet(1 .. n)
    BY <1>1, FS_Interval
  <2> QED BY <2>2, <2>3, FS_Surjection
<1>3. ASSUME NEW name \in FirstNames(c, n)
      PROVE  name \in Names /\ LinkOf(c, name) \in Range(Links[c]) /\ LinkOf(c, name).name = name
  <2>1. PICK i \in 1 .. n : name = Links[c][i].name
    BY DEF FirstNames
  <2>2. i \in DOMAIN Links[c]
    BY <1>1
  <2>3. PICK l \in Range(Links[c]) : l.name = name
    BY <2>1, <2>2 DEF Range
  <2>4. l \in LinkSet
    BY LinkType
  <2>5. LinkOf(c, name) \in Range(Links[c]) /\ LinkOf(c, name).name = name
    BY <2>3 DEF LinkOf
  <2> QED BY <2>3, <2>4, <2>5 DEF LinkSet
<1> QED BY <1>2, <1>3

\* The orders in which a loop may go through a map.
LEMMA OrderType ==
    ASSUME NEW K, IsFiniteSet(K), NEW order \in SetToSeqs(K)
    PROVE  order \in Seq(K) /\ DOMAIN order = 1 .. Cardinality(K) /\ Cardinality(K) \in Nat
<1>1. Cardinality(K) \in Nat
  BY FS_CardinalityType
<1>2. order \in [1 .. Cardinality(K) -> K]
  BY DEF SetToSeqs
<1> QED BY <1>1, <1>2
-----------------------------------------------------------------------------
\* The active calls.  S are the JSON values and B the objects that there are,
\* V the values that the call reads an object from, K[c] the names in the map
\* of class c, and O the function that was called.

\* The object that a call is at is the program's, or a member of it.
AtMember(f) == \E m \in Members : m[1] = f.path /\ m[2].kind = f.class

\* An item is mentioned by v, or it is a name that v does not have.
ItemOf(v, path, x, K) ==
    \/ x[2] = Missing /\ path = <<>> /\ x[1] \in K[Root] /\ Mentions(v, <<x[1]>>) = <<>>
    \/ x[2] # Missing /\ x[2] \in Range(Mentions(v, Append(path, x[1])))

Reads(V) == {Reading(v) : v \in V}
ItemShape(S) ==
    [at : {"items"}, class : Classes, path : Seq(Names),
     rest : Seq(Names \X (S \cup {Missing})), out : {<<>>}]
Items(S, V, K) ==
    {f \in ItemShape(S) :
        AtMember(f) /\ \E v \in V : \A i \in DOMAIN f.rest : ItemOf(v, f.path, f.rest[i], K)}
Elements(B, V, O) ==
    {f \in [at : {"elements"}, class : {Root}, path : {<<>>}, rest : Seq(V), out : Seq(B)] :
        O = "array_from_json_value"}
Writes ==
    {f \in [at : {"to_json_string"}, class : Classes, path : Seq(Names), rest : {<<>>},
            out : {<<>>}] : AtMember(f)}
Singles == {<<name>> : name \in Names}
NameLists(S, K) ==
    {f \in [at : {"names"}, class : Classes, path : Seq(Names), rest : Seq(Singles),
            out : Seq(Names \X S)] :
        AtMember(f) /\ \A i \in DOMAIN f.rest : f.rest[i][1] \in K[f.class]}
Frames(S, B, V, K, O) ==
    Reads(V) \cup Items(S, V, K) \cup Elements(B, V, O) \cup Writes \cup NameLists(S, K)

LEMMA FrameFields ==
    ASSUME NEW at, NEW c, NEW path, NEW rest
    PROVE  LET f == Frame(at, c, path, rest)
           IN  f.at = at /\ f.class = c /\ f.path = path /\ f.rest = rest /\ f.out = <<>>
  BY DEF Frame

\* Where a call is tells what its frame is.
LEMMA FrameType ==
    ASSUME NEW S, NEW B, NEW V, NEW K, NEW O, NEW f \in Frames(S, B, V, K, O)
    PROVE  /\ f.at \in Places /\ f.class \in Classes
           /\ f.at = "from_json_value" => f \in Reads(V)
           /\ f.at = "items" => f \in Items(S, V, K)
           /\ f.at = "elements" => f \in Elements(B, V, O)
           /\ f.at = "to_json_string" => f \in Writes
           /\ f.at = "names" => f \in NameLists(S, K)
<1>1. CASE f \in Reads(V)
  BY <1>1, LinksAssumption DEF Reads, Reading, Frame, Places
<1>2. CASE f \in Items(S, V, K)
  BY <1>2 DEF Items, ItemShape, Places
<1>3. CASE f \in Elements(B, V, O)
  BY <1>3, LinksAssumption DEF Elements, Places
<1>4. CASE f \in Writes
  BY <1>4 DEF Writes, Places
<1>5. CASE f \in NameLists(S, K)
  BY <1>5 DEF NameLists, Places
<1> QED BY <1>1, <1>2, <1>3, <1>4, <1>5 DEF Frames

\* More values, objects and names leave a frame what it is.
LEMMA FramesMore ==
    ASSUME NEW S, NEW B, NEW V, NEW K, NEW O, NEW T, NEW C, NEW L,
           S \subseteq T, B \subseteq C, \A c \in Classes : K[c] \subseteq L[c]
    PROVE  Frames(S, B, V, K, O) \subseteq Frames(T, C, V, L, O)
<1>1. Items(S, V, K) \subseteq Items(T, V, L)
  <2> SUFFICES ASSUME NEW f \in Items(S, V, K) PROVE f \in Items(T, V, L)
    OBVIOUS
  <2>1. f \in ItemShape(S) /\ AtMember(f)
    BY DEF Items
  <2>2. PICK v \in V : \A i \in DOMAIN f.rest : ItemOf(v, f.path, f.rest[i], K)
    BY DEF Items
  <2>3. \A i \in DOMAIN f.rest : ItemOf(v, f.path, f.rest[i], L)
    BY <2>2, LinksAssumption DEF ItemOf
  <2>4. f \in ItemShape(T)
    <3>1. PICK X, Y : X = Names \X (S \cup {Missing}) /\ Y = Names \X (T \cup {Missing})
      OBVIOUS
    <3>2. Seq(X) \subseteq Seq(Y)
      BY <3>1, SeqMonotonic
    <3> QED BY <2>1, <3>1, <3>2 DEF ItemShape
  <2> QED BY <2>1, <2>3, <2>4 DEF Items
<1>2. Elements(B, V, O) \subseteq Elements(C, V, O)
  <2>1. Seq(B) \subseteq Seq(C)
    BY SeqMonotonic
  <2> QED BY <2>1 DEF Elements
<1>3. NameLists(S, K) \subseteq NameLists(T, L)
  <2>1. PICK X, Y : X = Names \X S /\ Y = Names \X T
    OBVIOUS
  <2>2. Seq(X) \subseteq Seq(Y)
    BY <2>1, SeqMonotonic
  <2>3. NameLists(S, K) \subseteq NameLists(S, L)
    BY DEF NameLists
  <2>4. NameLists(S, L) \subseteq NameLists(T, L)
    BY <2>1, <2>2 DEF NameLists
  <2> QED BY <2>3, <2>4
<1> QED BY <1>1, <1>2, <1>3 DEF Frames

\* The loop over items moves on.
LEMMA ItemsAdvance ==
    ASSUME NEW S, NEW V, NEW K, NEW f \in Items(S, V, K), f.rest # <<>>
    PROVE  /\ Advanced(f) \in Items(S, V, K)
           /\ Head(f.rest)[1] \in Names /\ Head(f.rest)[2] \in S \cup {Missing}
           /\ \E v \in V : ItemOf(v, f.path, Head(f.rest), K)
<1>1. f \in ItemShape(S) /\ AtMember(f)
  BY DEF Items
<1>2. PICK v \in V : \A i \in DOMAIN f.rest : ItemOf(v, f.path, f.rest[i], K)
  BY DEF Items
<1>3. PICK X : X = Names \X (S \cup {Missing})
  OBVIOUS
<1>4. f.rest \in Seq(X)
  BY <1>1, <1>3 DEF ItemShape
<1>5. PICK g : g = Advanced(f)
  OBVIOUS
<1>6. g = [f EXCEPT !.rest = Tail(f.rest)]
  BY <1>5 DEF Advanced
<1>7. Tail(f.rest) \in Seq(X)
  BY <1>4, HeadTailProperties
<1>8. /\ \A i \in DOMAIN Tail(f.rest) : i + 1 \in DOMAIN f.rest /\ Tail(f.rest)[i] = f.rest[i + 1]
      /\ 1 \in DOMAIN f.rest /\ Head(f.rest) = f.rest[1]
  BY <1>4, HeadTailProperties, LenProperties
<1>9. g \in ItemShape(S) /\ g.path = f.path /\ g.class = f.class /\ g.rest = Tail(f.rest)
  BY <1>1, <1>3, <1>6, <1>7 DEF ItemShape
<1>10. AtMember(g)
  BY <1>1, <1>9 DEF AtMember
<1>11. \A i \in DOMAIN g.rest : ItemOf(v, g.path, g.rest[i], K)
  BY <1>2, <1>8, <1>9
<1>12. g \in Items(S, V, K)
  BY <1>9, <1>10, <1>11 DEF Items
<1>13. f.rest[1] \in X
  BY <1>4, <1>8, ElementOfSeq, LenProperties
<1>14. Head(f.rest)[1] \in Names /\ Head(f.rest)[2] \in S \cup {Missing}
  BY <1>3, <1>8, <1>13
<1> QED BY <1>2, <1>5, <1>8, <1>12, <1>14

\* The items of an object that is mentioned.
LEMMA ItemsOfObject ==
    ASSUME NEW S, JsonSet(S), NEW V, V \subseteq S, NEW K, NEW v \in V, NEW m \in Members,
           m[2].kind \in Classes, NEW w \in Range(Mentions(v, m[1])), w[1] = "object"
    PROVE  Frame("items", m[2].kind, m[1], w[2]) \in Items(S, V, K)
<1>1. PICK p \in Seq(Names), c \in Classes : p = m[1] /\ c = m[2].kind
  BY MemberType
<1>2. w \in S
  <2>1. Mentions(v, p) \in Seq(S)
    BY MentionsType
  <2> QED BY <1>1, <2>1, RangeOfSeq
<1>3. w[2] \in Seq(Names \X S)
  BY <1>2, ContentType
<1>4. PICK X, Y : X = Names \X S /\ Y = Names \X (S \cup {Missing})
  OBVIOUS
<1>5. w[2] \in Seq(Y)
  <2>1. X \subseteq Y
    BY <1>4
  <2> QED BY <1>3, <1>4, <2>1, SeqMonotonic
<1>6. PICK f : f = Frame("items", c, p, w[2])
  OBVIOUS
<1>7. f \in ItemShape(S) /\ f.path = p /\ f.class = c /\ f.rest = w[2]
  BY <1>4, <1>5, <1>6 DEF ItemShape, Frame
<1>8. AtMember(f)
  BY <1>1, <1>7 DEF AtMember
<1>9. \A i \in DOMAIN w[2] : w[2][i][2] # Missing /\ w[2][i][2] \in Range(Mentions(v, Append(p, w[2][i][1])))
  <2> SUFFICES ASSUME NEW i \in DOMAIN w[2]
               PROVE  w[2][i][2] # Missing /\ w[2][i][2] \in Range(Mentions(v, Append(p, w[2][i][1])))
    OBVIOUS
  <2>1. w[2][i][2] \in S /\ w[2][i][2] \in Range(Mentions(v, Append(p, w[2][i][1])))
    BY <1>1, ItemIsMentioned
  <2>2. Missing[1] = "missing"
    BY DEF Missing
  <2>3. \A x \in S : x[1] # "missing"
    BY ContentType
  <2> QED BY <2>1, <2>2, <2>3
<1>10. \A i \in DOMAIN f.rest : ItemOf(v, f.path, f.rest[i], K)
  BY <1>7, <1>9 DEF ItemOf
<1> QED BY <1>1, <1>6, <1>7, <1>8, <1>10 DEF Items

\* from_json_value starts with the items that its map asks for.
LEMMA ItemsOfMap ==
    ASSUME NEW S, JsonSet(S), NEW V, V \subseteq S, NEW K, K[Root] \subseteq Names,
           IsFiniteSet(K[Root]), NEW v \in V, v[1] = "object", NEW order \in SetToSeqs(K[Root])
    PROVE  Frame("items", Root, <<>>, [i \in DOMAIN order |-> <<order[i], Find(v[2], order[i])>>])
               \in Items(S, V, K)
<1>1. PICK n \in Nat : DOMAIN order = 1 .. n /\ order \in Seq(K[Root])
  BY OrderType
<1>2. PICK rest : rest = [i \in DOMAIN order |-> <<order[i], Find(v[2], order[i])>>]
  OBVIOUS
<1>3. v[2] \in Seq(Names \X S)
  BY ContentType
<1>4. PICK e : e = <<>> /\ e \in Seq(Names)
  BY EmptySeq
<1>5. Mentions(v, e) = <<v>>
  BY <1>4, MentionsUnfolds
<1>6. ASSUME NEW i \in 1 .. n
      PROVE  rest[i][1] \in Names /\ rest[i][2] \in S \cup {Missing} /\ ItemOf(v, e, rest[i], K)
  <2>1. PICK name : name = order[i] /\ name \in K[Root] /\ name \in Names
    BY <1>1
  <2>2. PICK found : found = Find(v[2], name)
    OBVIOUS
  <2>3. rest[i][1] = name /\ rest[i][2] = found
    BY <1>1, <1>2, <2>1, <2>2
  <2>4. CASE found = Missing /\ \A j \in DOMAIN v[2] : v[2][j][1] # name
    <3>1. Mentions(v, <<name>>) = <<>>
      BY <2>1, <2>4, NoneIsMentioned
    <3> QED BY <1>4, <2>1, <2>3, <2>4, <3>1 DEF ItemOf
  <2>5. CASE \E j \in DOMAIN v[2] : v[2][j][1] = name /\ found = v[2][j][2]
    <3>1. PICK j \in DOMAIN v[2] : v[2][j][1] = name /\ found = v[2][j][2]
      BY <2>5
    <3>2. v \in Range(Mentions(v, e))
      BY <1>5 DEF Range
    <3>3. v[2][j][2] \in S /\ v[2][j][2] \in Range(Mentions(v, Append(e, v[2][j][1])))
      BY <1>4, <3>2, ItemIsMentioned
    <3>4. \A x \in S : x[1] # "missing"
      BY ContentType
    <3>5. Missing[1] = "missing"
      BY DEF Missing
    <3>6. found \in S /\ found # Missing /\ found \in Range(Mentions(v, Append(e, name)))
      BY <3>1, <3>3, <3>4, <3>5
    <3> QED BY <2>1, <2>3, <3>6 DEF ItemOf
  <2>6. \/ found = Missing /\ \A j \in DOMAIN v[2] : v[2][j][1] # name
        \/ \E j \in DOMAIN v[2] : v[2][j][1] = name /\ found = v[2][j][2]
    BY <1>3, <2>2, FindType
  <2> QED BY <2>4, <2>5, <2>6
<1>7. PICK Y : Y = Names \X (S \cup {Missing})
  OBVIOUS
<1>8. rest \in Seq(Y) /\ DOMAIN rest = 1 .. n
  <2>1. \A i \in 1 .. n : rest[i] = <<rest[i][1], rest[i][2]>>
    BY <1>1, <1>2
  <2>2. ASSUME NEW i \in 1 .. n
        PROVE  rest[i] \in Y
    <3>1. PICK name \in Names, found \in S \cup {Missing} : name = rest[i][1] /\ found = rest[i][2]
      BY <1>6
    <3>2. rest[i] = <<name, found>>
      BY <2>1, <3>1
    <3> QED BY <1>7, <3>2
  <2>3. rest = [i \in 1 .. n |-> rest[i]]
    BY <1>1, <1>2
  <2> QED BY <2>2, <2>3
<1>9. PICK f : f = Frame("items", Root, e, rest)
  OBVIOUS
<1>10. f \in ItemShape(S) /\ f.path = e /\ f.class = Root /\ f.rest = rest
  BY <1>4, <1>7, <1>8, <1>9, LinksAssumption DEF ItemShape, Frame
<1>11. AtMember(f)
  <2>1. PICK m : m = <<e, RootLink>> /\ m \in Members
    BY <1>4, RootIsMember
  <2> QED BY <1>10, <2>1 DEF AtMember, RootLink
<1>12. f \in Items(S, V, K)
  BY <1>6, <1>8, <1>10, <1>11 DEF Items
<1> QED BY <1>2, <1>4, <1>9, <1>12

\* The loop of to_json_string: its start, its next member, and what it has
\* written of one.
LEMMA NamesOfMap ==
    ASSUME NEW S, NEW K, NEW f \in Writes, K[f.class] \subseteq Names, IsFiniteSet(K[f.class]),
           NEW order \in SetToSeqs(K[f.class])
    PROVE  Frame("names", f.class, f.path, [i \in DOMAIN order |-> <<order[i]>>]) \in NameLists(S, K)
<1>1. PICK n \in Nat : DOMAIN order = 1 .. n /\ \A i \in 1 .. n : order[i] \in K[f.class]
  <2>1. order \in Seq(K[f.class]) /\ DOMAIN order = 1 .. Cardinality(K[f.class])
        /\ Cardinality(K[f.class]) \in Nat
    BY OrderType
  <2> QED BY <2>1
<1>2. PICK rest : rest = [i \in 1 .. n |-> <<order[i]>>]
  OBVIOUS
<1>3. PICK T : T = Singles /\ \A name \in Names : <<name>> \in T
  <2>1. ASSUME NEW name \in Names PROVE <<name>> \in Singles
    BY DEF Singles
  <2> QED BY <2>1
<1>4. rest \in Seq(T) /\ DOMAIN rest = 1 .. n
  BY <1>1, <1>2, <1>3
<1>5. \A i \in 1 .. n : rest[i][1] \in K[f.class]
  BY <1>1, <1>2
<1>6. f.class \in Classes /\ f.path \in Seq(Names) /\ AtMember(f)
  BY DEF Writes
<1>7. PICK g : g = Frame("names", f.class, f.path, rest)
  OBVIOUS
<1>8. g.at = "names" /\ g.class = f.class /\ g.path = f.path /\ g.rest = rest /\ g.out = <<>>
  BY <1>7 DEF Frame
<1>9. AtMember(g)
  BY <1>6, <1>8 DEF AtMember
<1>10. g \in NameLists(S, K)
  <2>1. g \in [at : {"names"}, class : Classes, path : Seq(Names), rest : Seq(T),
               out : Seq(Names \X S)]
    BY <1>4, <1>6, <1>7, EmptySeq DEF Frame
  <2> QED BY <1>3, <1>4, <1>5, <1>8, <1>9, <2>1 DEF NameLists
<1> QED BY <1>1, <1>2, <1>7, <1>10

LEMMA NamesAdvance ==
    ASSUME NEW S, NEW K, NEW f \in NameLists(S, K), f.rest # <<>>
    PROVE  /\ Head(f.rest)[1] \in K[f.class] /\ Head(f.rest)[1] \in Names
           /\ \A v \in S : /\ Wrote(f, v) \in NameLists(S, K)
                           /\ Wrote(f, v).at = "names"
<1>1. /\ f.class \in Classes /\ f.path \in Seq(Names) /\ f.rest \in Seq(Singles)
      /\ f.out \in Seq(Names \X S) /\ f.at = "names"
      /\ f = [at |-> f.at, class |-> f.class, path |-> f.path, rest |-> f.rest, out |-> f.out]
      /\ AtMember(f) /\ \A i \in DOMAIN f.rest : f.rest[i][1] \in K[f.class]
  BY DEF NameLists
<1>2. PICK r : r = f.rest /\ r \in Seq(Singles) /\ r # <<>>
  BY <1>1
<1>3. /\ Tail(r) \in Seq(Singles)
      /\ \A i \in DOMAIN Tail(r) : i + 1 \in DOMAIN r /\ Tail(r)[i] = r[i + 1]
      /\ 1 \in DOMAIN r /\ Head(r) = r[1]
  BY <1>2, HeadTailProperties, LenProperties
<1>4. r[1] \in Singles
  BY <1>2, <1>3, ElementOfSeq, LenProperties
<1>5. Head(r)[1] \in Names /\ Head(r)[1] \in K[f.class]
  BY <1>1, <1>2, <1>3, <1>4 DEF Singles
<1>6. ASSUME NEW v \in S PROVE Wrote(f, v) \in NameLists(S, K) /\ Wrote(f, v).at = "names"
  <2>1. PICK T, x : T = Names \X S /\ x = <<Head(r)[1], v>>
    OBVIOUS
  <2>2. x \in T
    BY <1>5, <2>1
  <2>3. Append(f.out, x) \in Seq(T)
    BY <1>1, <2>1, <2>2, AppendProperties
  <2>4. PICK g : g = Wrote(f, v)
    OBVIOUS
  <2>5. g = [f EXCEPT !.rest = Tail(r), !.out = Append(f.out, x)]
    BY <1>1, <1>2, <2>1, <2>4 DEF Wrote, Advanced
  <2>6. g = [at |-> "names", class |-> f.class, path |-> f.path, rest |-> Tail(r),
             out |-> Append(f.out, x)]
    BY <1>1, <2>5
  <2>7. AtMember(g)
    BY <1>1, <2>6 DEF AtMember
  <2>8. \A i \in DOMAIN g.rest : g.rest[i][1] \in K[g.class]
    BY <1>1, <1>2, <1>3, <2>6
  <2>9. g \in [at : {"names"}, class : Classes, path : Seq(Names), rest : Seq(Singles), out : Seq(T)]
    BY <1>1, <1>3, <2>3, <2>6
  <2>10. g \in NameLists(S, K) /\ g.at = "names"
    BY <2>1, <2>6, <2>7, <2>8, <2>9 DEF NameLists
  <2> QED BY <2>4, <2>10
<1> QED BY <1>2, <1>5, <1>6

\* The loop over elements, and the objects it has collected.
LEMMA ElementsAdvance ==
    ASSUME NEW B, NEW V, NEW O, NEW f \in Elements(B, V, O)
    PROVE  /\ f.rest # <<>> => Advanced(f) \in Elements(B, V, O) /\ Head(f.rest) \in V
           /\ \A o \in B : [f EXCEPT !.out = Append(@, o)] \in Elements(B, V, O)
           /\ f.out \in Seq(B)
<1>1. /\ f \in [at : {"elements"}, class : {Root}, path : {<<>>}, rest : Seq(V), out : Seq(B)]
      /\ O = "array_from_json_value"
  BY DEF Elements
<1>2. ASSUME f.rest # <<>> PROVE Advanced(f) \in Elements(B, V, O) /\ Head(f.rest) \in V
  <2>1. Tail(f.rest) \in Seq(V) /\ Head(f.rest) \in V
    BY <1>1, <1>2, HeadTailProperties
  <2>2. PICK g : g = Advanced(f)
    OBVIOUS
  <2>3. g = [f EXCEPT !.rest = Tail(f.rest)]
    BY <2>2 DEF Advanced
  <2>4. g \in [at : {"elements"}, class : {Root}, path : {<<>>}, rest : Seq(V), out : Seq(B)]
    BY <1>1, <2>1, <2>3
  <2> QED BY <1>1, <2>1, <2>2, <2>4 DEF Elements
<1>3. ASSUME NEW o \in B PROVE [f EXCEPT !.out = Append(@, o)] \in Elements(B, V, O)
  <2>1. Append(f.out, o) \in Seq(B)
    BY <1>1, AppendProperties
  <2> QED BY <1>1, <2>1 DEF Elements
<1> QED BY <1>1, <1>2, <1>3
-----------------------------------------------------------------------------
\* The stack of the active calls: a call that writes is within the loop of one
\* that writes and has still to end the member.

Writing(f) == f.at \in {"names", "to_json_string"}
Under(cs) ==
    \A i \in 1 .. Len(cs) - 1 :
        Writing(cs[i + 1]) => cs[i].at = "names" /\ cs[i].rest # <<>>
StackOf(cs, F) == cs \in Seq(F) /\ Under(cs)

LEMMA StackPops ==
    ASSUME NEW F, NEW cs, StackOf(cs, F), cs # <<>>
    PROVE  /\ StackOf(Front(cs), F)
           /\ Front(cs) # <<>> /\ Writing(Last(cs)) =>
                  Last(Front(cs)).at = "names" /\ Last(Front(cs)).rest # <<>>
<1>1. PICK n \in Nat : n = Len(cs) - 1
  BY LastInSeq DEF StackOf
<1>2. PICK t : t = Front(cs)
  OBVIOUS
<1>3. t \in Seq(F) /\ Len(t) = n /\ \A i \in 1 .. n : t[i] = cs[i]
  BY <1>1, <1>2, PopTop DEF StackOf
<1>4. \A i \in 1 .. n : Writing(cs[i + 1]) => cs[i].at = "names" /\ cs[i].rest # <<>>
  BY <1>1 DEF StackOf, Under
<1>5. Under(t)
  <2>1. \A i \in 1 .. n - 1 : i \in 1 .. n /\ i + 1 \in 1 .. n
    OBVIOUS
  <2> QED BY <1>3, <1>4, <2>1 DEF Under
<1>6. t # <<>> /\ Writing(Last(cs)) => Last(t).at = "names" /\ Last(t).rest # <<>>
  <2> HAVE t # <<>> /\ Writing(Last(cs))
  <2>1. n \in 1 .. n /\ Last(t) = t[n]
    BY <1>3, LastInSeq
  <2>2. Last(cs) = cs[n + 1]
    BY <1>1, LastInSeq DEF StackOf
  <2> QED BY <1>3, <1>4, <2>1, <2>2
<1> QED BY <1>2, <1>3, <1>5, <1>6 DEF StackOf

LEMMA StackPushes ==
    ASSUME NEW F, NEW cs, StackOf(cs, F), NEW f \in F,
           cs # <<>> /\ Writing(f) => Last(cs).at = "names" /\ Last(cs).rest # <<>>
    PROVE  StackOf(Append(cs, f), F) /\ Append(cs, f) # <<>> /\ Last(Append(cs, f)) = f
<1>1. PICK n \in Nat : n = Len(cs)
  BY LenProperties DEF StackOf
<1>2. PICK t : t = Append(cs, f)
  OBVIOUS
<1>3. t \in Seq(F) /\ Len(t) = n + 1 /\ t[n + 1] = f /\ t # <<>> /\ \A i \in 1 .. n : t[i] = cs[i]
  BY <1>1, <1>2, PushTop DEF StackOf
<1>4. \A i \in 1 .. n - 1 : Writing(cs[i + 1]) => cs[i].at = "names" /\ cs[i].rest # <<>>
  BY <1>1 DEF StackOf, Under
<1>5. n # 0 => Last(cs) = cs[n]
  BY <1>1 DEF Last
<1>6. n # 0 => cs # <<>>
  BY <1>1, EmptySeq
<1>7. ASSUME NEW i \in 1 .. n, Writing(t[i + 1]) PROVE t[i].at = "names" /\ t[i].rest # <<>>
  <2>1. CASE i = n
    BY <1>3, <1>5, <1>6, <1>7, <2>1
  <2>2. CASE i # n
    <3>1. i \in 1 .. n - 1 /\ i + 1 \in 1 .. n
      BY <2>2
    <3> QED BY <1>3, <1>4, <1>7, <3>1
  <2> QED BY <2>1, <2>2
<1>8. Under(t) /\ Last(t) = f
  <2>1. Len(t) - 1 = n
    BY <1>3
  <2> QED BY <1>3, <1>7, <2>1 DEF Under, Last
<1> QED BY <1>2, <1>3, <1>8 DEF StackOf

LEMMA StackReplaces ==
    ASSUME NEW F, NEW cs, StackOf(cs, F), cs # <<>>, NEW f \in F, Writing(f) => Writing(Last(cs))
    PROVE  /\ StackOf(Append(Front(cs), f), F) /\ Append(Front(cs), f) # <<>>
           /\ Last(Append(Front(cs), f)) = f
<1>1. PICK t : t = Front(cs)
  OBVIOUS
<1>2. StackOf(t, F) /\ (t # <<>> /\ Writing(f) => Last(t).at = "names" /\ Last(t).rest # <<>>)
  BY <1>1, StackPops
<1> QED BY <1>1, <1>2, StackPushes

LEMMA StackOfOne ==
    ASSUME NEW F, NEW f \in F
    PROVE  StackOf(<<f>>, F) /\ <<f>> # <<>> /\ StackOf(<<>>, F)
<1>1. PICK e : e = <<>> /\ e \in Seq(F) /\ Len(e) = 0
  BY EmptySeq
<1>2. StackOf(e, F)
  BY <1>1 DEF StackOf, Under
<1>3. Append(e, f) = <<f>>
  BY <1>1
<1>4. StackOf(Append(e, f), F) /\ Append(e, f) # <<>>
  BY <1>1, <1>2, StackPushes
<1> QED BY <1>1, <1>2, <1>3, <1>4

LEMMA StackMore ==
    ASSUME NEW F, NEW H, F \subseteq H, NEW cs, StackOf(cs, F)
    PROVE  StackOf(cs, H)
  BY SeqMonotonic DEF StackOf
-----------------------------------------------------------------------------
\* The invariant.

Knowns == [c \in Classes |-> Known(c)]
None == <<"none", "none">>
Null == <<"null", "null">>

\* The values, objects and calls that there are.
Standing(S, B, V, K, O) ==
    /\ JsonSet(S) /\ Values \subseteq S /\ Null \in S
    /\ \A o \in B : Holds(o)
    /\ V = Sources /\ K = Knowns /\ O = op
    /\ status = "running" => V \subseteq S
    /\ StackOf(calls, Frames(S, B, V, K, O))
    /\ Fresh \in B /\ object \in B /\ result \in B /\ list \in Seq(B)
    /\ text.json \in S \cup {None}

Plainly ==
    /\ MapsInRange /\ op \in Operations /\ made \in 0 .. Len(Inputs)
    /\ status \in {"running", "returned", "threw", "aborted", "undefined"}
    /\ status = "running" <=> calls # <<>>

LEMMA KnownsType ==
    ASSUME MapsInRange
    PROVE  \A c \in Classes :
               /\ Knowns[c] = Known(c) /\ IsFiniteSet(Known(c)) /\ Known(c) \subseteq Names
               /\ \A name \in Known(c) :
                      LinkOf(c, name) \in Range(Links[c]) /\ LinkOf(c, name).name = name
<1> SUFFICES ASSUME NEW c \in Classes
             PROVE  /\ Knowns[c] = Known(c) /\ IsFiniteSet(Known(c)) /\ Known(c) \subseteq Names
                    /\ \A name \in Known(c) :
                           LinkOf(c, name) \in Range(Links[c]) /\ LinkOf(c, name).name = name
  OBVIOUS
<1>1. registered[c] \in 0 .. Len(Links[c])
  BY DEF MapsInRange
<1>2. Known(c) = FirstNames(c, registered[c])
  BY DEF Known, FirstNames
<1>3. Knowns[c] = Known(c)
  BY DEF Knowns
<1> QED BY <1>1, <1>2, <1>3, NamesType

LEMMA TopType ==
    ASSUME NEW S, NEW B, NEW V, NEW K, NEW O, Standing(S, B, V, K, O), Plainly, status = "running"
    PROVE  /\ calls # <<>> /\ Top \in Frames(S, B, V, K, O)
           /\ V \subseteq S /\ JsonSet(S)
<1>1. calls # <<>> /\ calls \in Seq(Frames(S, B, V, K, O))
  BY DEF Plainly, Standing, StackOf
<1>2. Top \in Frames(S, B, V, K, O)
  BY <1>1, LastInSeq DEF Top
<1> QED BY <1>1, <1>2 DEF Standing

LEMMA AtItemType ==
    ASSUME NEW S, NEW B, NEW V, NEW K, NEW O, Standing(S, B, V, K, O), Plainly, AtItem
    PROVE  /\ calls # <<>> /\ Top.at = "items" /\ Top \in Items(S, V, K) /\ V \subseteq S /\ JsonSet(S)
           /\ Advanced(Top) \in Items(S, V, K)
           /\ Name \in Names /\ Value \in S \cup {Missing}
           /\ \E v \in V : ItemOf(v, Top.path, Head(Top.rest), K)
<1>1. status = "running" /\ Top.at = "items" /\ Top.rest # <<>>
  BY DEF AtItem, At
<1>2. calls # <<>> /\ V \subseteq S /\ JsonSet(S) /\ Top \in Items(S, V, K)
  BY <1>1, TopType, FrameType
<1> QED BY <1>1, <1>2, ItemsAdvance DEF Name, Value

\* A member that is read is a member of the object, and its value is mentioned.
LEMMA AtLinkedType ==
    ASSUME NEW S, NEW B, NEW V, NEW K, NEW O, Standing(S, B, V, K, O), Plainly, AtLinked
    PROVE  /\ Value \in S /\ Link \in LinkSet /\ Path \in Seq(Names)
           /\ <<Path, Link>> \in Members /\ LinkAt(Path) = Link
           /\ Link.kind \notin Classes => Path \in Paths /\ Link.kind \in Scalars
           /\ \E v \in V : Value \in Range(Mentions(v, Path))
<1>1. AtItem /\ Name \in Known(Top.class) /\ Value[1] # "missing"
  BY DEF AtLinked
<1>2. /\ Top \in Items(S, V, K) /\ Value \in S \cup {Missing} /\ Name \in Names
      /\ \E v \in V : ItemOf(v, Top.path, Head(Top.rest), K)
  BY <1>1, AtItemType
<1>3. Missing[1] = "missing"
  BY DEF Missing
<1>4. Value \in S /\ Value # Missing
  BY <1>1, <1>2, <1>3
<1>5. PICK m \in Members : m[1] = Top.path /\ m[2].kind = Top.class /\ Top.class \in Classes
  BY <1>2 DEF Items, ItemShape, AtMember
<1>6. Link \in Range(Links[Top.class]) /\ Link.name = Name
  BY <1>1, <1>5, KnownsType DEF Link, Plainly
<1>7. Link \in LinkSet
  BY <1>5, <1>6, LinkType
<1>8. <<Path, Link>> \in Members
  BY <1>5, <1>6, LinkedIsMember DEF Path
<1>9. PICK m2 \in Members : m2 = <<Path, Link>> /\ m2[1] = Path /\ m2[2] = Link
  BY <1>8
<1>10. LinkAt(Path) = Link /\ Path \in Seq(Names) /\ (Link.kind \notin Classes => Path \in Paths)
  BY <1>9, MemberType
<1>11. \E v \in V : Value \in Range(Mentions(v, Path))
  BY <1>2, <1>4 DEF ItemOf, Name, Value, Path
<1>12. Link.kind \notin Classes => Link.kind \in Scalars
  BY <1>7 DEF LinkSet, Kinds
<1> QED BY <1>4, <1>7, <1>8, <1>10, <1>11, <1>12
-----------------------------------------------------------------------------
\* Each step of a call keeps the invariant.

GoesOn(V, O) ==
    (\E S, B, K : Standing(S, B, V, K, O)) /\ (status = "running" <=> calls # <<>>)

LEMMA Keeps ==
    ASSUME NEW S, NEW B, NEW V, NEW K, NEW O, Standing(S, B, V, K, O),
           UNCHANGED <<op, json>>, status = "running",
           NEW T, S \subseteq T, JsonSet(T), NEW C, B \subseteq C, \A o \in C : Holds(o),
           NEW L, L = Knowns', StackOf(calls', Frames(T, C, V, L, O)),
           object' \in C, result' \in C, list' \in Seq(C), text'.json \in T \cup {None}
    PROVE  Standing(T, C, V, L, O)'
<1>1. Sources' = Sources
  BY DEF Sources
<1>2. V \subseteq T /\ Values \subseteq T /\ Null \in T /\ Fresh \in C
  BY DEF Standing
<1> QED BY <1>1, <1>2 DEF Standing

\* A step that leaves the maps.
LEMMA KeepsMaps ==
    ASSUME NEW S, NEW B, NEW V, NEW K, NEW O, Standing(S, B, V, K, O),
           UNCHANGED <<op, json, registered>>, status = "running",
           NEW T, S \subseteq T, JsonSet(T), NEW C, B \subseteq C, \A o \in C : Holds(o),
           StackOf(calls', Frames(T, C, V, K, O)),
           object' \in C, result' \in C, list' \in Seq(C), text'.json \in T \cup {None},
           status' = "running" <=> calls' # <<>>
    PROVE  GoesOn(V, O)'
<1>1. K = Knowns'
  BY DEF Standing, Knowns, Known
<1>2. Standing(T, C, V, K, O)'
  BY <1>1, Keeps
<1> QED BY <1>2 DEF GoesOn

\* A step that moves on and changes nothing but the calls.
LEMMA KeepsAll ==
    ASSUME NEW S, NEW B, NEW V, NEW K, NEW O, Standing(S, B, V, K, O), status = "running",
           Go, UNCHANGED <<registered, result, object, text>>,
           StackOf(calls', Frames(S, B, V, K, O)), calls' # <<>>
    PROVE  GoesOn(V, O)'
<1>1. /\ UNCHANGED <<op, json, registered>> /\ status' = "running"
      /\ object' = object /\ result' = result /\ list' = list /\ text' = text
  BY DEF Go
<1>2. /\ JsonSet(S) /\ (\A o \in B : Holds(o)) /\ object \in B /\ result \in B /\ list \in Seq(B)
      /\ text.json \in S \cup {None}
  BY DEF Standing
<1>3. S \subseteq S /\ B \subseteq B
  OBVIOUS
<1> QED BY <1>1, <1>2, <1>3, KeepsMaps

\* A step that ends the call and changes nothing else.
LEMMA KeepsStopped ==
    ASSUME NEW S, NEW B, NEW V, NEW K, NEW O, Standing(S, B, V, K, O), status = "running",
           NEW how, how # "running", Stop(how), UNCHANGED <<registered, text>>,
           NEW C, B \subseteq C, \A o \in C : Holds(o), object' \in C, result' \in C
    PROVE  GoesOn(V, O)'
<1>1. /\ UNCHANGED <<op, json, registered>> /\ calls' = <<>> /\ status' # "running"
      /\ list' = list /\ text' = text
  BY DEF Stop
<1>2. JsonSet(S) /\ list \in Seq(B) /\ text.json \in S \cup {None}
  BY DEF Standing
<1>3. list' \in Seq(C)
  BY <1>1, <1>2, SeqMonotonic
<1>4. PICK F : F = Frames(S, C, V, K, O)
  OBVIOUS
<1>5. StackOf(calls', F)
  BY <1>1, EmptySeq DEF StackOf, Under
<1>6. S \subseteq S
  OBVIOUS
<1> QED BY <1>1, <1>2, <1>3, <1>4, <1>5, <1>6, KeepsMaps

LEMMA RegisterGoesOn ==
    ASSUME NEW S, NEW B, NEW V, NEW K, NEW O, Standing(S, B, V, K, O), Plainly,
           Register \/ RegisterThrows
    PROVE  GoesOn(V, O)'
<1>1. status = "running" /\ registered[Top.class] = 0 /\ UNCHANGED <<result, object, text, op, json, list>>
  BY DEF Register, RegisterThrows, AsksForMap, Unregistered, Go, Stop
<1>2. Top \in Frames(S, B, V, K, O) /\ calls # <<>>
  BY <1>1, TopType
<1>3. PICK c \in Classes : c = Top.class
  BY <1>2, FrameType
<1>4. \A d \in Classes : d # c => registered'[d] = registered[d]
  <2>1. PICK n : registered' = [registered EXCEPT ![c] = n]
    BY <1>3 DEF Register, RegisterThrows
  <2>2. registered \in [Classes -> Nat]
    BY DEF Plainly, MapsInRange
  <2> QED BY <2>1, <2>2
<1>5. PICK L : L = Knowns'
  OBVIOUS
<1>6. \A d \in Classes : K[d] \subseteq L[d]
  <2> SUFFICES ASSUME NEW d \in Classes PROVE K[d] \subseteq L[d]
    OBVIOUS
  <2>1. K[d] = FirstNames(d, registered[d]) /\ L[d] = FirstNames(d, registered'[d])
    BY <1>5 DEF Standing, Knowns, Known, FirstNames
  <2>2. CASE d = c
    <3>1. 1 .. 0 = {}
      OBVIOUS
    <3>2. K[d] = {}
      BY <1>1, <1>3, <2>1, <2>2, <3>1 DEF FirstNames
    <3> QED BY <3>2
  <2>3. CASE d # c
    BY <1>4, <2>1, <2>3
  <2> QED BY <2>2, <2>3
<1>7. PICK F, H : F = Frames(S, B, V, K, O) /\ H = Frames(S, B, V, L, O)
  OBVIOUS
<1>8. F \subseteq H
  <2>1. S \subseteq S /\ B \subseteq B
    OBVIOUS
  <2> QED BY <1>6, <1>7, <2>1, FramesMore
<1>9. StackOf(calls', H) /\ (status' = "running" <=> calls' # <<>>)
  <2>1. CASE Register
    <3>1. calls' = calls /\ status' = "running"
      BY <1>1, <2>1 DEF Register, Go
    <3>2. StackOf(calls, F)
      BY <1>7 DEF Standing
    <3> QED BY <1>2, <1>8, <3>1, <3>2, StackMore
  <2>2. CASE RegisterThrows
    <3>1. calls' = <<>> /\ status' = "threw"
      BY <2>2 DEF RegisterThrows, Stop
    <3>2. StackOf(<<>>, H)
      BY EmptySeq DEF StackOf, Under
    <3> QED BY <3>1, <3>2
  <2> QED BY <2>1, <2>2
<1>10. /\ JsonSet(S) /\ S \subseteq S /\ B \subseteq B /\ \A o \in B : Holds(o)
       /\ object' \in B /\ result' \in B /\ list' \in Seq(B) /\ text'.json \in S \cup {None}
  BY <1>1 DEF Standing
<1>11. Standing(S, B, V, L, O)'
  BY <1>1, <1>5, <1>7, <1>9, <1>10, Keeps
<1> QED BY <1>9, <1>11 DEF GoesOn

\* Only the calls change: one call goes on, or begins or ends within another.
LEMMA ReplaceGoesOn ==
    ASSUME NEW S, NEW B, NEW V, NEW K, NEW O, Standing(S, B, V, K, O), Plainly, status = "running",
           NEW f \in Frames(S, B, V, K, O), Writing(f) => Writing(Top), Replace(f),
           Go, UNCHANGED <<registered, result, object, text>>
    PROVE  GoesOn(V, O)'
<1>1. PICK F : F = Frames(S, B, V, K, O)
  OBVIOUS
<1>2. StackOf(calls, F) /\ calls # <<>> /\ f \in F
  BY <1>1, TopType DEF Standing
<1>3. StackOf(calls', F) /\ calls' # <<>>
  BY <1>2, StackReplaces DEF Replace, Top
<1> QED BY <1>1, <1>3, KeepsAll

LEMMA StartReadingGoesOn ==
    ASSUME NEW S, NEW B, NEW V, NEW K, NEW O, Standing(S, B, V, K, O), Plainly, StartReading
    PROVE  GoesOn(V, O)'
<1>1. status = "running" /\ Top.at = "from_json_value"
  BY DEF StartReading, At
<1>2. Top \in Reads(V) /\ V \subseteq S /\ JsonSet(S)
  BY <1>1, TopType, FrameType
<1>3. PICK v \in V : Top = Reading(v)
  BY <1>2 DEF Reads
<1>4. Top.class = Root /\ Top.path = <<>> /\ Top.rest = <<v>>
  BY <1>3 DEF Reading, Frame
<1>5. v[1] = "object"
  BY <1>1, <1>4 DEF StartReading, HasMap, AsksForMap
<1>6. PICK order \in SetToSeqs(Known(Root)) :
          Replace(Frame("items", Root, <<>>, [i \in DOMAIN order |-> <<order[i], Find(v[2], order[i])>>]))
  <2>1. Top.rest[1] = v
    BY <1>4
  <2> QED BY <1>4, <2>1, Zenon DEF StartReading
<1>7. K[Root] = Known(Root) /\ IsFiniteSet(Known(Root)) /\ Known(Root) \subseteq Names
  BY KnownsType, LinksAssumption DEF Plainly, Standing
<1>8. PICK f : f = Frame("items", Root, <<>>, [i \in DOMAIN order |-> <<order[i], Find(v[2], order[i])>>])
  OBVIOUS
<1>9. f \in Items(S, V, K)
  BY <1>2, <1>5, <1>7, <1>8, ItemsOfMap
<1>10. f \in Frames(S, B, V, K, O) /\ ~Writing(f)
  BY <1>9 DEF Frames, Items, ItemShape, Writing
<1>11. Go /\ UNCHANGED <<registered, result, object, text>>
  BY DEF StartReading
<1> QED BY <1>1, <1>6, <1>8, <1>10, <1>11, ReplaceGoesOn

LEMMA SkipGoesOn ==
    ASSUME NEW S, NEW B, NEW V, NEW K, NEW O, Standing(S, B, V, K, O), Plainly, SkipUnlinked
    PROVE  GoesOn(V, O)'
<1>1. AtItem /\ status = "running"
  BY DEF SkipUnlinked, AtItem, At
<1>2. PICK f : f = Advanced(Top) /\ f \in Items(S, V, K)
  BY <1>1, AtItemType
<1>3. f \in Frames(S, B, V, K, O) /\ ~Writing(f)
  BY <1>2 DEF Frames, Items, ItemShape, Writing
<1>4. Replace(f) /\ Go /\ UNCHANGED <<registered, result, object, text>>
  BY <1>2 DEF SkipUnlinked
<1> QED BY <1>1, <1>3, <1>4, ReplaceGoesOn

LEMMA AppendTwo ==
    ASSUME NEW F, NEW s \in Seq(F), NEW f \in F, NEW g \in F
    PROVE  s \o <<f, g>> = Append(Append(s, f), g)
<1>1. PICK n \in Nat : n = Len(s)
  BY LenProperties
<1>2. <<f, g>> \in Seq(F) /\ Len(<<f, g>>) = 2
  OBVIOUS
<1>3. PICK t, u, w : t = s \o <<f, g>> /\ u = Append(s, f) /\ w = Append(u, g)
  OBVIOUS
<1>4. /\ t \in Seq(F) /\ Len(t) = n + 2
      /\ \A i \in 1 .. n + 2 : t[i] = IF i <= n THEN s[i] ELSE <<f, g>>[i - n]
  BY <1>1, <1>2, <1>3, ConcatProperties
<1>5. u \in Seq(F) /\ Len(u) = n + 1 /\ u[n + 1] = f /\ \A i \in 1 .. n : u[i] = s[i]
  BY <1>1, <1>3, AppendProperties
<1>6. w \in Seq(F) /\ Len(w) = n + 2 /\ w[n + 2] = g /\ \A i \in 1 .. n + 1 : w[i] = u[i]
  <2>1. Len(w) = n + 1 + 1 /\ w[n + 1 + 1] = g
    BY <1>3, <1>5, AppendProperties
  <2> QED BY <1>3, <1>5, <2>1, AppendProperties
<1>7. ASSUME NEW i \in 1 .. n + 2 PROVE t[i] = w[i]
  <2>1. CASE i <= n
    BY <1>4, <1>5, <1>6, <2>1
  <2>2. CASE i = n + 1
    BY <1>4, <1>5, <1>6, <2>2
  <2>3. CASE i = n + 2
    BY <1>4, <1>6, <2>3
  <2> QED BY <2>1, <2>2, <2>3
<1> QED BY <1>3, <1>4, <1>6, <1>7, SeqEqual

LEMMA ReadNestedGoesOn ==
    ASSUME NEW S, NEW B, NEW V, NEW K, NEW O, Standing(S, B, V, K, O), Plainly, ReadNested
    PROVE  GoesOn(V, O)'
<1>1. AtLinked /\ AtItem /\ status = "running" /\ Link.kind \in Classes /\ Value[1] = "object"
  BY DEF ReadNested, AtLinked, AtItem, At
<1>2. Advanced(Top) \in Items(S, V, K) /\ calls # <<>> /\ V \subseteq S /\ JsonSet(S)
  BY <1>1, AtItemType
<1>3. <<Path, Link>> \in Members /\ \E v \in V : Value \in Range(Mentions(v, Path))
  BY <1>1, AtLinkedType
<1>4. PICK v \in V : Value \in Range(Mentions(v, Path))
  BY <1>3
<1>5. PICK m \in Members : m[1] = Path /\ m[2] = Link
  BY <1>3
<1>6. PICK f, g : f = Advanced(Top) /\ g = Frame("items", Link.kind, Path, Value[2])
  OBVIOUS
<1>7. g \in Items(S, V, K)
  BY <1>1, <1>2, <1>4, <1>5, <1>6, ItemsOfObject
<1>8. PICK F : F = Frames(S, B, V, K, O) /\ f \in F /\ g \in F
  BY <1>2, <1>6, <1>7 DEF Frames
<1>9. ~Writing(f) /\ ~Writing(g)
  BY <1>2, <1>6, <1>7 DEF Items, ItemShape, Writing
<1>10. StackOf(calls, F)
  BY <1>8 DEF Standing
<1>11. PICK cs : cs = Front(calls) /\ StackOf(cs, F)
  BY <1>2, <1>10, StackPops
<1>12. StackOf(Append(cs, f), F) /\ Append(cs, f) # <<>>
  BY <1>8, <1>9, <1>11, StackPushes
<1>13. StackOf(Append(Append(cs, f), g), F) /\ Append(Append(cs, f), g) # <<>>
  BY <1>8, <1>9, <1>12, StackPushes
<1>14. calls' = cs \o <<f, g>>
  BY <1>6, <1>11 DEF ReadNested
<1>15. calls' = Append(Append(cs, f), g)
  BY <1>8, <1>11, <1>14, AppendTwo DEF StackOf
<1>16. Go /\ UNCHANGED <<registered, result, object, text>>
  BY DEF ReadNested
<1> QED BY <1>1, <1>8, <1>13, <1>15, <1>16, KeepsAll

LEMMA EndNestedGoesOn ==
    ASSUME NEW S, NEW B, NEW V, NEW K, NEW O, Standing(S, B, V, K, O), Plainly, EndNested
    PROVE  GoesOn(V, O)'
<1>1. status = "running" /\ Len(calls) > 1 /\ calls' = Front(calls)
      /\ Go /\ UNCHANGED <<registered, result, object, text>>
  BY DEF EndNested, At
<1>2. PICK F : F = Frames(S, B, V, K, O) /\ StackOf(calls, F) /\ calls # <<>>
  BY <1>1, TopType DEF Standing
<1>3. StackOf(calls', F)
  BY <1>1, <1>2, StackPops
<1>4. Len(Front(calls)) = Len(calls) - 1
  BY <1>2, PopTop DEF StackOf
<1>5. calls' # <<>>
  BY <1>1, <1>4, EmptySeq
<1> QED BY <1>1, <1>2, <1>3, <1>5, KeepsAll

\* Assigning what a member may hold.
LEMMA Assigns ==
    ASSUME NEW S, NEW B, NEW V, NEW K, NEW O, Standing(S, B, V, K, O),
           NEW p \in Paths, NEW x \in HeldFor(LinkAt(p)), Assign(p, x)
    PROVE  \E C : /\ B \subseteq C /\ \A o \in C : Holds(o)
                  /\ object' \in C /\ result' \in C
<1>1. object \in B /\ result \in B /\ \A o \in B : Holds(o)
  BY DEF Standing
<1>2. PICK u, w : u = [object EXCEPT ![p] = x] /\ w = [result EXCEPT ![p] = x]
  OBVIOUS
<1>3. Holds(u) /\ Holds(w)
  BY <1>1, <1>2, HoldsExcept
<1>4. object' \in {object, u} /\ result' \in {result, w}
  BY <1>2 DEF Assign
<1>5. PICK C : C = B \cup {u, w}
  OBVIOUS
<1> QED BY <1>1, <1>3, <1>4, <1>5

LEMMA ReadMemberGoesOn ==
    ASSUME NEW S, NEW B, NEW V, NEW K, NEW O, Standing(S, B, V, K, O), Plainly, ReadMember
    PROVE  GoesOn(V, O)'
<1>1. AtLinked /\ AtItem /\ status = "running" /\ Link.kind \notin Classes /\ Takes(Link, Value)
  BY DEF ReadMember, AtLinked, AtItem, At
<1>2. /\ calls # <<>> /\ Advanced(Top) \in Items(S, V, K) /\ JsonSet(S)
  BY <1>1, AtItemType
<1>3. /\ Value \in S /\ LinkAt(Path) = Link /\ Path \in Paths /\ Link.kind \in Scalars /\ Link \in LinkSet
  BY <1>1, AtLinkedType
<1>4. Held(Link, Value) \in HeldFor(Link)
  <2>1. Link.array \in BOOLEAN
    BY <1>3 DEF LinkSet
  <2> QED BY <1>1, <1>2, <1>3, <2>1, HeldType
<1>5. PICK C : B \subseteq C /\ (\A o \in C : Holds(o)) /\ object' \in C /\ result' \in C
  <2>1. Assign(Path, Held(Link, Value))
    BY DEF ReadMember
  <2>2. PICK p, x : p \in Paths /\ p = Path /\ x = Held(Link, Value)
    BY <1>3
  <2> QED BY <1>3, <1>4, <2>1, <2>2, Assigns
<1>6. PICK f, F, H : f = Advanced(Top) /\ F = Frames(S, B, V, K, O) /\ H = Frames(S, C, V, K, O)
  OBVIOUS
<1>7. F \subseteq H
  <2>1. S \subseteq S /\ \A c \in Classes : K[c] \subseteq K[c]
    OBVIOUS
  <2> QED BY <1>5, <1>6, <2>1, FramesMore
<1>8. f \in F /\ ~Writing(f)
  BY <1>2, <1>6 DEF Frames, Items, ItemShape, Writing
<1>9. StackOf(calls, F)
  BY <1>6 DEF Standing
<1>10. calls' = Append(Front(calls), f)
  BY <1>6 DEF ReadMember, Replace
<1>11. StackOf(calls', H) /\ calls' # <<>>
  BY <1>2, <1>7, <1>8, <1>9, <1>10, StackReplaces, StackMore
<1>12. /\ UNCHANGED <<op, json, registered>> /\ status' = "running" /\ list' = list /\ text' = text
  BY <1>1 DEF ReadMember, Go
<1>13. list \in Seq(B) /\ text.json \in S \cup {None} /\ S \subseteq S
  BY DEF Standing
<1>14. list' \in Seq(C) /\ text'.json \in S \cup {None}
  BY <1>5, <1>12, <1>13, SeqMonotonic
<1> QED BY <1>1, <1>2, <1>5, <1>6, <1>11, <1>12, <1>13, <1>14, KeepsMaps

LEMMA RefuseMemberGoesOn ==
    ASSUME NEW S, NEW B, NEW V, NEW K, NEW O, Standing(S, B, V, K, O), Plainly, RefuseMember
    PROVE  GoesOn(V, O)'
<1>1. AtLinked /\ AtItem /\ status = "running" /\ Link.kind \notin Classes
  BY DEF RefuseMember, AtLinked, AtItem, At
<1>2. JsonSet(S) /\ object \in B /\ result \in B /\ \A o \in B : Holds(o)
  BY DEF Standing
<1>3. /\ Value \in S /\ LinkAt(Path) = Link /\ Path \in Paths /\ Link.kind \in Scalars /\ Link \in LinkSet
  BY <1>1, AtLinkedType
<1>4. PICK C : B \subseteq C /\ (\A o \in C : Holds(o)) /\ object' \in C /\ result' \in C
  <2>1. CASE Link.array /\ Value[1] = "array"
    <3>1. Assign(Path, Copied(Link, Value))
      BY <2>1 DEF RefuseMember
    <3>2. Link.array \in BOOLEAN
      BY <1>3 DEF LinkSet
    <3>3. Copied(Link, Value) \in HeldFor(Link)
      BY <1>2, <1>3, <2>1, <3>2, HeldType
    <3>4. PICK p, x : p \in Paths /\ p = Path /\ x = Copied(Link, Value)
      BY <1>3
    <3> QED BY <1>3, <3>1, <3>3, <3>4, Assigns
  <2>2. CASE ~(Link.array /\ Value[1] = "array")
    <3>1. object' = object /\ result' = result
      BY <2>2 DEF RefuseMember
    <3> QED BY <1>2, <3>1
  <2> QED BY <2>1, <2>2
<1>5. Stop("threw") /\ UNCHANGED <<registered, text>>
  BY DEF RefuseMember
<1>6. PICK how : how = "threw" /\ how # "running"
  OBVIOUS
<1> QED BY <1>1, <1>4, <1>5, <1>6, KeepsStopped

\* The steps that end a call and change nothing else.
LEMMA StopGoesOn ==
    ASSUME NEW S, NEW B, NEW V, NEW K, NEW O, Standing(S, B, V, K, O), Plainly,
           NotAnObject \/ UseMissing \/ FailAssertion \/ RefuseNested \/ NotAnArray
    PROVE  GoesOn(V, O)'
<1>1. /\ status = "running" /\ UNCHANGED <<registered, result, object, text>>
      /\ Stop("threw") \/ Stop("undefined") \/ Stop("aborted")
  BY DEF NotAnObject, UseMissing, FailAssertion, RefuseNested, NotAnArray, AtLinked, AtItem, At
<1>2. PICK how : how # "running" /\ Stop(how)
  BY <1>1
<1>3. B \subseteq B /\ (\A o \in B : Holds(o)) /\ object' \in B /\ result' \in B
  BY <1>1 DEF Standing
<1> QED BY <1>1, <1>2, <1>3, KeepsStopped

LEMMA EndReadingGoesOn ==
    ASSUME NEW S, NEW B, NEW V, NEW K, NEW O, Standing(S, B, V, K, O), Plainly, EndReading
    PROVE  GoesOn(V, O)'
<1>1. status = "running" /\ UNCHANGED <<registered, result, text>> /\ Stop("returned")
      /\ object' \in {object, result}
  BY DEF EndReading, At
<1>2. B \subseteq B /\ (\A o \in B : Holds(o)) /\ object' \in B /\ result' \in B
  BY <1>1 DEF Standing
<1>3. PICK how : how # "running" /\ Stop(how)
  BY <1>1
<1> QED BY <1>1, <1>2, <1>3, KeepsStopped

LEMMA ElementType ==
    ASSUME NEW S, NEW B, NEW V, NEW K, NEW O, Standing(S, B, V, K, O), Plainly,
           ReadElement \/ EndElements
    PROVE  Top \in Elements(B, V, O) /\ status = "running"
<1>1. status = "running" /\ Top.at = "elements"
  BY DEF ReadElement, EndElements, At
<1> QED BY <1>1, TopType, FrameType

LEMMA ReadElementGoesOn ==
    ASSUME NEW S, NEW B, NEW V, NEW K, NEW O, Standing(S, B, V, K, O), Plainly, ReadElement
    PROVE  GoesOn(V, O)'
<1>1. Top \in Elements(B, V, O) /\ status = "running" /\ Top.rest # <<>>
  BY ElementType DEF ReadElement
<1>2. PICK f, v : f = Advanced(Top) /\ f \in Elements(B, V, O) /\ v = Head(Top.rest) /\ v \in V
  BY <1>1, ElementsAdvance
<1>3. PICK g : g = Reading(v) /\ g \in Reads(V)
  BY <1>2 DEF Reads
<1>4. PICK F : F = Frames(S, B, V, K, O) /\ f \in F /\ g \in F
  <2>1. f \in Frames(S, B, V, K, O) /\ g \in Frames(S, B, V, K, O)
    BY <1>2, <1>3 DEF Frames
  <2> QED BY <2>1
<1>5. ~Writing(g)
  BY <1>3 DEF Reading, Frame, Writing
<1>6. StackOf(<<f>>, F)
  BY <1>4, StackOfOne
<1>7. PICK s : s = <<f>>
  OBVIOUS
<1>8. StackOf(Append(s, g), F) /\ Append(s, g) # <<>>
  BY <1>4, <1>5, <1>6, <1>7, StackPushes
<1>9. Append(s, g) = <<f, g>>
  <2>1. PICK e : e = <<>> /\ e \in Seq(F)
    BY EmptySeq
  <2>2. e \o <<f, g>> = Append(Append(e, f), g)
    BY <1>4, <2>1, AppendTwo
  <2>3. <<f, g>> \in Seq(F)
    BY <1>4
  <2>4. e \o <<f, g>> = <<f, g>>
    BY <2>1, <2>3, ConcatEmptySeq
  <2>5. Append(e, f) = <<f>>
    BY <2>1
  <2> QED BY <1>7, <2>2, <2>4, <2>5
<1>10. calls' = <<f, g>>
  BY <1>2, <1>3 DEF ReadElement
<1>11. StackOf(calls', F) /\ calls' # <<>>
  BY <1>8, <1>9, <1>10
<1>12. /\ UNCHANGED <<op, json, registered>> /\ status' = "running" /\ list' = list /\ text' = text
       /\ object' = object /\ result' = Fresh
  BY <1>1 DEF ReadElement, Go
<1>13. /\ S \subseteq S /\ B \subseteq B /\ JsonSet(S) /\ (\A o \in B : Holds(o))
       /\ object' \in B /\ result' \in B /\ list' \in Seq(B) /\ text'.json \in S \cup {None}
  BY <1>12 DEF Standing
<1> QED BY <1>1, <1>4, <1>11, <1>12, <1>13, KeepsMaps

LEMMA EndElementGoesOn ==
    ASSUME NEW S, NEW B, NEW V, NEW K, NEW O, Standing(S, B, V, K, O), Plainly, EndElement
    PROVE  GoesOn(V, O)'
<1>1. /\ status = "running" /\ Len(calls) = 2 /\ calls[1].at = "elements"
      /\ calls' = <<[calls[1] EXCEPT !.out = Append(@, result)]>>
      /\ Go /\ UNCHANGED <<registered, result, object, text>>
  BY DEF EndElement, At
<1>2. PICK F : F = Frames(S, B, V, K, O) /\ StackOf(calls, F) /\ result \in B
  BY DEF Standing
<1>3. PICK f : f = calls[1] /\ f \in F
  BY <1>1, <1>2, ElementOfSeq DEF StackOf
<1>4. f \in Elements(B, V, O)
  BY <1>1, <1>2, <1>3, FrameType
<1>5. PICK g : g = [f EXCEPT !.out = Append(@, result)] /\ g \in Elements(B, V, O)
  BY <1>2, <1>4, ElementsAdvance
<1>6. g \in F
  BY <1>2, <1>5 DEF Frames
<1>7. calls' = <<g>>
  BY <1>1, <1>3, <1>5
<1>8. StackOf(calls', F) /\ calls' # <<>>
  BY <1>6, <1>7, StackOfOne
<1> QED BY <1>1, <1>2, <1>8, KeepsAll

LEMMA EndElementsGoesOn ==
    ASSUME NEW S, NEW B, NEW V, NEW K, NEW O, Standing(S, B, V, K, O), Plainly, EndElements
    PROVE  GoesOn(V, O)'
<1>1. Top.out \in Seq(B) /\ status = "running"
  BY ElementType, ElementsAdvance
<1>2. /\ UNCHANGED <<op, json, registered>> /\ status' = "returned" /\ list' = Top.out /\ text' = text
      /\ object' = object /\ result' = result /\ calls' = <<>>
  BY DEF EndElements
<1>3. /\ S \subseteq S /\ B \subseteq B /\ JsonSet(S) /\ (\A o \in B : Holds(o))
      /\ object' \in B /\ result' \in B /\ list' \in Seq(B) /\ text'.json \in S \cup {None}
  BY <1>1, <1>2 DEF Standing
<1>4. PICK F : F = Frames(S, B, V, K, O)
  OBVIOUS
<1>5. StackOf(calls', F)
  BY <1>2, EmptySeq DEF StackOf, Under
<1> QED BY <1>1, <1>2, <1>3, <1>4, <1>5, KeepsMaps

LEMMA StartWritingGoesOn ==
    ASSUME NEW S, NEW B, NEW V, NEW K, NEW O, Standing(S, B, V, K, O), Plainly, StartWriting
    PROVE  GoesOn(V, O)'
<1>1. status = "running" /\ Top.at = "to_json_string"
  BY DEF StartWriting, At
<1>2. Top \in Writes
  BY <1>1, TopType, FrameType
<1>3. PICK t : t = Top /\ t \in Writes /\ t.class \in Classes /\ t.at = "to_json_string"
  BY <1>1, <1>2 DEF Writes
<1>4. PICK order \in SetToSeqs(Known(t.class)) :
          Replace(Frame("names", t.class, t.path, [i \in DOMAIN order |-> <<order[i]>>]))
  BY <1>3, Zenon DEF StartWriting
<1>5. K[t.class] = Known(t.class) /\ IsFiniteSet(Known(t.class)) /\ Known(t.class) \subseteq Names
  BY <1>3, KnownsType DEF Plainly, Standing
<1>6. PICK f : f = Frame("names", t.class, t.path, [i \in DOMAIN order |-> <<order[i]>>])
  OBVIOUS
<1>7. f \in NameLists(S, K)
  BY <1>3, <1>5, <1>6, NamesOfMap
<1>8. f \in Frames(S, B, V, K, O)
  BY <1>7 DEF Frames
<1>9. Writing(Top)
  BY <1>1 DEF Writing
<1>10. Go /\ UNCHANGED <<registered, result, object, text>>
  BY DEF StartWriting
<1> QED BY <1>1, <1>4, <1>6, <1>8, <1>9, <1>10, ReplaceGoesOn

\* A member that is written is a member of the object.
LEMMA NamesTopType ==
    ASSUME NEW S, NEW B, NEW V, NEW K, NEW O, Standing(S, B, V, K, O), Plainly, At("names")
    PROVE  /\ calls # <<>> /\ Top \in NameLists(S, K) /\ Top.out \in Seq(Names \X S)
           /\ JsonSet(S) /\ Top.at = "names" /\ status = "running"
           /\ Top.rest # <<>> =>
                  /\ Link \in LinkSet /\ <<Path, Link>> \in Members /\ Path \in Seq(Names)
                  /\ LinkAt(Path) = Link
                  /\ Link.kind \notin Classes => Path \in Paths /\ Link.kind \in Scalars
<1>1. status = "running" /\ Top.at = "names"
  BY DEF At
<1>2. calls # <<>> /\ Top \in NameLists(S, K) /\ JsonSet(S)
  BY <1>1, TopType, FrameType
<1>3. Top.out \in Seq(Names \X S) /\ Top.class \in Classes /\ AtMember(Top)
  BY <1>2 DEF NameLists
<1>4. ASSUME Top.rest # <<>>
      PROVE  /\ Link \in LinkSet /\ <<Path, Link>> \in Members /\ Path \in Seq(Names)
             /\ LinkAt(Path) = Link
             /\ Link.kind \notin Classes => Path \in Paths /\ Link.kind \in Scalars
  <2>1. Name \in Known(Top.class)
    <3>1. Name \in K[Top.class]
      BY <1>2, <1>4, NamesAdvance DEF Name
    <3> QED BY <1>3, <3>1, KnownsType DEF Plainly, Standing
  <2>2. PICK m \in Members : m[1] = Top.path /\ m[2].kind = Top.class
    BY <1>3 DEF AtMember
  <2>3. Link \in Range(Links[Top.class]) /\ Link.name = Name
    BY <1>3, <2>1, KnownsType DEF Link, Plainly
  <2>4. Link \in LinkSet
    BY <1>3, <2>3, LinkType
  <2>5. <<Path, Link>> \in Members
    BY <1>3, <2>2, <2>3, LinkedIsMember DEF Path
  <2>6. PICK n \in Members : n = <<Path, Link>> /\ n[1] = Path /\ n[2] = Link
    BY <2>5
  <2>7. LinkAt(Path) = Link /\ Path \in Seq(Names) /\ (Link.kind \notin Classes => Path \in Paths)
    BY <2>6, MemberType
  <2>8. Link.kind \notin Classes => Link.kind \in Scalars
    BY <2>4 DEF LinkSet, Kinds
  <2> QED BY <2>4, <2>5, <2>7, <2>8
<1> QED BY <1>1, <1>2, <1>3, <1>4

\* A value is written as the next member of the frame f, which is on top then.
LEMMA WroteGoesOn ==
    ASSUME NEW S, NEW B, NEW V, NEW K, NEW O, Standing(S, B, V, K, O), status = "running",
           NEW T, S \subseteq T, JsonSet(T), NEW v \in T,
           NEW f \in Frames(S, B, V, K, O), f.at = "names", f.rest # <<>>,
           NEW cs, StackOf(cs, Frames(S, B, V, K, O)), cs # <<>>, Writing(Last(cs)),
           calls' = Append(Front(cs), Wrote(f, v)),
           Go, UNCHANGED <<registered, result, object, text>>
    PROVE  GoesOn(V, O)'
<1>1. PICK F, H : F = Frames(S, B, V, K, O) /\ H = Frames(T, B, V, K, O)
  OBVIOUS
<1>2. F \subseteq H
  <2>1. B \subseteq B /\ \A c \in Classes : K[c] \subseteq K[c]
    OBVIOUS
  <2> QED BY <1>1, <2>1, FramesMore
<1>3. f \in NameLists(T, K)
  <2>1. f \in H
    BY <1>1, <1>2
  <2> QED BY <1>1, <2>1, FrameType
<1>4. PICK g : g = Wrote(f, v) /\ g \in NameLists(T, K)
  BY <1>3, NamesAdvance
<1>5. g \in H
  BY <1>1, <1>4 DEF Frames
<1>6. StackOf(cs, H)
  BY <1>1, <1>2, StackMore
<1>7. StackOf(calls', H) /\ calls' # <<>>
  BY <1>4, <1>5, <1>6, StackReplaces
<1>8. /\ UNCHANGED <<op, json, registered>> /\ status' = "running"
      /\ object' = object /\ result' = result /\ list' = list /\ text' = text
  BY DEF Go
<1>9. /\ B \subseteq B /\ (\A o \in B : Holds(o))
      /\ object' \in B /\ result' \in B /\ list' \in Seq(B) /\ text'.json \in T \cup {None}
  BY <1>8 DEF Standing
<1> QED BY <1>1, <1>7, <1>8, <1>9, KeepsMaps

LEMMA WriteMemberGoesOn ==
    ASSUME NEW S, NEW B, NEW V, NEW K, NEW O, Standing(S, B, V, K, O), Plainly, WriteMember
    PROVE  GoesOn(V, O)'
<1>1. /\ At("names") /\ Top.rest # <<>> /\ Link.kind \notin Classes
      /\ Replace(Wrote(Top, Printed(Link, object[Path])))
      /\ Go /\ UNCHANGED <<registered, result, object, text>>
  BY DEF WriteMember
<1>2. /\ calls # <<>> /\ Top \in Frames(S, B, V, K, O) /\ JsonSet(S) /\ Top.at = "names"
      /\ status = "running"
      /\ Link \in LinkSet /\ LinkAt(Path) = Link /\ Path \in Paths /\ Link.kind \in Scalars
  <2>1. status = "running"
    BY <1>1 DEF At
  <2> QED BY <1>1, <2>1, NamesTopType, TopType
<1>3. Link.array \in BOOLEAN
  BY <1>2 DEF LinkSet
<1>4. Holds(object)
  BY DEF Standing
<1>5. PICK l, p : p \in Paths /\ l = Link /\ p = Path /\ l = LinkAt(p)
  BY <1>2
<1>6. object[p] \in HeldFor(l)
  BY <1>4, <1>5, HoldsIs
<1>7. PICK T : S \subseteq T /\ JsonSet(T) /\ Printed(l, object[p]) \in T
  BY <1>2, <1>3, <1>5, <1>6, PrintedType
<1>8. PICK v \in T : v = Printed(l, object[p])
  BY <1>7
<1>9. calls' = Append(Front(calls), Wrote(Top, v))
  BY <1>1, <1>5, <1>8 DEF Replace
<1>10. StackOf(calls, Frames(S, B, V, K, O))
  BY DEF Standing
<1>11. Writing(Last(calls))
  BY <1>2 DEF Writing, Top
<1> QED BY <1>1, <1>2, <1>7, <1>9, <1>10, <1>11, WroteGoesOn

LEMMA WriteNestedGoesOn ==
    ASSUME NEW S, NEW B, NEW V, NEW K, NEW O, Standing(S, B, V, K, O), Plainly, WriteNested
    PROVE  GoesOn(V, O)'
<1>1. /\ At("names") /\ Top.rest # <<>> /\ Link.kind \in Classes
      /\ calls' = Append(calls, Frame("to_json_string", Link.kind, Path, <<>>))
      /\ Go /\ UNCHANGED <<registered, result, object, text>>
  BY DEF WriteNested
<1>2. /\ calls # <<>> /\ Top.at = "names" /\ status = "running"
      /\ Link \in LinkSet /\ <<Path, Link>> \in Members /\ Path \in Seq(Names)
  BY <1>1, NamesTopType
<1>3. PICK f : f = Frame("to_json_string", Link.kind, Path, <<>>)
  OBVIOUS
<1>4. /\ f.at = "to_json_string" /\ f.class = Link.kind /\ f.path = Path /\ f.rest = <<>>
      /\ f.out = <<>>
  BY <1>3 DEF Frame
<1>5. AtMember(f)
  <2>1. PICK n \in Members : n = <<Path, Link>> /\ n[1] = Path /\ n[2] = Link
    BY <1>2
  <2> QED BY <1>4, <2>1 DEF AtMember
<1>6. f \in Writes
  BY <1>1, <1>2, <1>3, <1>5 DEF Writes, Frame
<1>7. PICK F : F = Frames(S, B, V, K, O)
  OBVIOUS
<1>8. f \in F
  BY <1>6, <1>7 DEF Frames
<1>9. StackOf(calls, F)
  BY <1>7 DEF Standing
<1>10. Last(calls).at = "names" /\ Last(calls).rest # <<>>
  BY <1>1, <1>2 DEF Top
<1>11. StackOf(calls', F) /\ calls' # <<>>
  BY <1>1, <1>3, <1>8, <1>9, <1>10, StackPushes
<1> QED BY <1>1, <1>2, <1>7, <1>11, KeepsAll

LEMMA EndNestedTextGoesOn ==
    ASSUME NEW S, NEW B, NEW V, NEW K, NEW O, Standing(S, B, V, K, O), Plainly, EndNestedText
    PROVE  GoesOn(V, O)'
<1>1. /\ At("names") /\ Len(calls) > 1
      /\ calls' = Append(Front(Front(calls)), Wrote(Last(Front(calls)), <<"object", Top.out>>))
      /\ Go /\ UNCHANGED <<registered, result, object, text>>
  BY DEF EndNestedText
<1>2. calls # <<>> /\ Top.out \in Seq(Names \X S) /\ JsonSet(S) /\ Top.at = "names" /\ status = "running"
  BY <1>1, NamesTopType
<1>3. PICK F : F = Frames(S, B, V, K, O) /\ StackOf(calls, F)
  BY DEF Standing
<1>4. PICK cs : cs = Front(calls) /\ StackOf(cs, F)
  BY <1>2, <1>3, StackPops
<1>5. cs # <<>>
  <2>1. Len(Front(calls)) = Len(calls) - 1
    BY <1>2, <1>3, PopTop DEF StackOf
  <2> QED BY <1>1, <1>4, <2>1, EmptySeq
<1>6. Writing(Last(calls))
  BY <1>2 DEF Writing, Top
<1>7. PICK f : f = Last(cs) /\ f.at = "names" /\ f.rest # <<>>
  BY <1>2, <1>3, <1>4, <1>5, <1>6, StackPops
<1>8. f \in F
  BY <1>4, <1>5, <1>7, LastInSeq DEF StackOf
<1>9. PICK v, T : v = <<"object", Top.out>> /\ T = S \cup {v}
  OBVIOUS
<1>10. S \subseteq T /\ JsonSet(T) /\ v \in T
  BY <1>2, <1>9, ObjectIsJson
<1>11. calls' = Append(Front(cs), Wrote(f, v))
  BY <1>1, <1>4, <1>7, <1>9
<1>12. Writing(Last(cs))
  BY <1>7 DEF Writing
<1> QED BY <1>1, <1>2, <1>3, <1>4, <1>5, <1>7, <1>8, <1>10, <1>11, <1>12, WroteGoesOn

LEMMA EndWritingGoesOn ==
    ASSUME NEW S, NEW B, NEW V, NEW K, NEW O, Standing(S, B, V, K, O), Plainly, EndWriting
    PROVE  GoesOn(V, O)'
<1>1. At("names") /\ Stop("returned") /\ UNCHANGED <<registered, result, object>>
  BY DEF EndWriting
<1>2. Top.out \in Seq(Names \X S) /\ JsonSet(S) /\ status = "running"
  BY <1>1, NamesTopType
<1>3. PICK v, T : v = <<"object", Top.out>> /\ T = S \cup {v}
  OBVIOUS
<1>4. S \subseteq T /\ JsonSet(T) /\ v \in T
  BY <1>2, <1>3, ObjectIsJson
<1>5. text'.json = Null \/ text'.json = v
  BY <1>3 DEF EndWriting, Null
<1>6. text'.json \in T \cup {None}
  BY <1>4, <1>5 DEF Standing
<1>7. UNCHANGED <<op, json, registered>> /\ status' = "returned" /\ calls' = <<>> /\ list' = list
      /\ object' = object /\ result' = result
  BY <1>1 DEF Stop
<1>8. /\ B \subseteq B /\ (\A o \in B : Holds(o))
      /\ object' \in B /\ result' \in B /\ list' \in Seq(B)
  BY <1>7 DEF Standing
<1>9. PICK F : F = Frames(T, B, V, K, O)
  OBVIOUS
<1>10. StackOf(calls', F)
  BY <1>7, EmptySeq DEF StackOf, Under
<1> QED BY <1>2, <1>4, <1>6, <1>7, <1>8, <1>9, <1>10, KeepsMaps

\* Every step of a call keeps the values, objects and calls there are.
LEMMA ProceedGoesOn ==
    ASSUME NEW S, NEW B, NEW V, NEW K, NEW O, Standing(S, B, V, K, O), Plainly, Proceed
    PROVE  GoesOn(V, O)'
  BY RegisterGoesOn, StartReadingGoesOn, SkipGoesOn, ReadMemberGoesOn, ReadNestedGoesOn,
     RefuseMemberGoesOn, StopGoesOn, EndNestedGoesOn, EndReadingGoesOn, ReadElementGoesOn,
     EndElementGoesOn, EndElementsGoesOn, StartWritingGoesOn, WriteMemberGoesOn,
     WriteNestedGoesOn, EndNestedTextGoesOn, EndWritingGoesOn DEF Proceed
-----------------------------------------------------------------------------
\* The beginning of the program, and of a call.

LEMMA InitStands ==
    ASSUME Init
    PROVE  Plainly /\ \E S, B, V, K, O : Standing(S, B, V, K, O)
<1>1. PICK S : S = Values \cup {Null}
  OBVIOUS
<1>2. JsonSet(S)
  <2>1. JsonSet(Values)
    BY ValuesAssumption DEF JsonSet
  <2> QED BY <1>1, <2>1, NullIsJson DEF Null
<1>3. PICK B : B = {Fresh, object}
  OBVIOUS
<1>4. \A o \in B : Holds(o)
  BY <1>3, ObjectsAssumption DEF Init
<1>5. PICK V, K, O : V = Sources /\ K = Knowns /\ O = op
  OBVIOUS
<1>6. PICK F : F = Frames(S, B, V, K, O)
  OBVIOUS
<1>7. calls = <<>> /\ status = "returned" /\ op = "none" /\ made = 0
      /\ list = <<>> /\ text.json = None /\ result = Fresh
  BY DEF Init, None
<1>8. StackOf(calls, F) /\ list \in Seq(B)
  BY <1>7, EmptySeq DEF StackOf, Under
<1>9. Standing(S, B, V, K, O)
  <2>1. status # "running" /\ text.json \in S \cup {None} /\ Values \subseteq S /\ Null \in S
        /\ Fresh \in B /\ object \in B /\ result \in B
    BY <1>1, <1>3, <1>7
  <2> QED BY <1>2, <1>4, <1>5, <1>6, <1>8, <2>1 DEF Standing
<1>10. Plainly
  <2>1. MapsInRange /\ 0 \in 0 .. Len(Inputs)
    BY InitMaps, BoundAssumption
  <2> QED BY <1>7, <2>1 DEF Plainly, Operations
<1> QED BY <1>9, <1>10

\* A call of the function name, which reads v.
LEMMA CallStands ==
    ASSUME NEW S, NEW B, NEW V, NEW K, NEW O, Standing(S, B, V, K, O),
           NEW name, NEW v, NEW frame, Call(name, v, frame),
           NEW W, W = Sources', W \subseteq S, frame \in Frames(S, B, W, K, name)
    PROVE  GoesOn(W, name)'
<1>1. /\ op' = name /\ calls' = <<frame>> /\ result' = Fresh /\ status' = "running"
      /\ registered' = registered /\ object' = object /\ list' = list /\ text' = text
  BY DEF Call
<1>2. K = Knowns'
  BY <1>1 DEF Standing, Knowns, Known
<1>3. PICK F : F = Frames(S, B, W, K, name)
  OBVIOUS
<1>4. StackOf(calls', F) /\ calls' # <<>>
  BY <1>1, <1>3, StackOfOne
<1>5. /\ JsonSet(S) /\ Values \subseteq S /\ Null \in S /\ \A o \in B : Holds(o)
      /\ Fresh \in B /\ object' \in B /\ result' \in B /\ list' \in Seq(B)
      /\ text'.json \in S \cup {None}
  BY <1>1 DEF Standing
<1>6. Standing(S, B, W, K, name)'
  BY <1>1, <1>2, <1>3, <1>4, <1>5 DEF Standing
<1> QED BY <1>1, <1>4, <1>6 DEF GoesOn

\* What may be given to a call is JSON.
LEMMA InputType ==
    ASSUME NEW S, NEW B, NEW V, NEW K, NEW O, Standing(S, B, V, K, O), Plainly, Idle,
           NEW v \in Inputs[made + 1]
    PROVE  v \in S
<1>1. made + 1 \in 1 .. Len(Inputs)
  BY BoundAssumption DEF Idle, Plainly
<1> QED BY <1>1, ValuesAssumption DEF Standing

LEMMA ReadingStands ==
    ASSUME NEW S, NEW B, NEW V, NEW K, NEW O, Standing(S, B, V, K, O),
           NEW name, name # "array_from_json_value", NEW v \in S, Call(name, v, Reading(v))
    PROVE  \E W : GoesOn(W, name)'
<1>1. PICK W : W = {v}
  OBVIOUS
<1>2. W = Sources'
  BY <1>1 DEF Call, Sources
<1>3. PICK f : f = Reading(v) /\ f \in Reads(W)
  BY <1>1 DEF Reads
<1>4. f \in Frames(S, B, W, K, name)
  BY <1>3 DEF Frames
<1>5. Call(name, v, f) /\ W \subseteq S
  BY <1>1, <1>3
<1> QED BY <1>2, <1>4, <1>5, CallStands

LEMMA FromJsonObjectStands ==
    ASSUME NEW S, NEW B, NEW V, NEW K, NEW O, Standing(S, B, V, K, O), Plainly, Idle, FromJsonObject
    PROVE  \E W, P : GoesOn(W, P)'
<1>1. PICK v \in Inputs[made + 1] :
          v[1] = "object" /\ Call("from_json_object", v, Frame("items", Root, <<>>, v[2]))
  BY DEF FromJsonObject
<1>2. v \in S /\ JsonSet(S)
  BY <1>1, InputType DEF Standing
<1>3. PICK W : W = {v} /\ W \subseteq S /\ v \in W
  BY <1>2
<1>4. W = Sources'
  BY <1>1, <1>3 DEF Call, Sources
<1>5. PICK e : e = <<>> /\ e \in Seq(Names)
  BY EmptySeq
<1>6. PICK m \in Members : m[1] = e /\ m[2].kind = Root
  <2>1. PICK n : n = <<e, RootLink>> /\ n \in Members
    BY <1>5, RootIsMember
  <2> QED BY <2>1 DEF RootLink
<1>7. v \in Range(Mentions(v, m[1]))
  <2>1. Mentions(v, e) = <<v>>
    BY <1>5, MentionsUnfolds
  <2> QED BY <1>6, <2>1 DEF Range
<1>8. Frame("items", m[2].kind, m[1], v[2]) \in Items(S, W, K)
  BY <1>1, <1>2, <1>3, <1>6, <1>7, ItemsOfObject, LinksAssumption
<1>9. PICK f : f = Frame("items", Root, <<>>, v[2])
  OBVIOUS
<1>10. PICK name : name = "from_json_object"
  OBVIOUS
<1>11. f \in Frames(S, B, W, K, name)
  BY <1>5, <1>6, <1>8, <1>9 DEF Frames
<1>12. Call(name, v, f)
  BY <1>1, <1>9, <1>10
<1>13. GoesOn(W, name)'
  BY <1>3, <1>4, <1>11, <1>12, CallStands
<1> QED BY <1>13

LEMMA ToJsonStringStands ==
    ASSUME NEW S, NEW B, NEW V, NEW K, NEW O, Standing(S, B, V, K, O), ToJsonString
    PROVE  \E W, P : GoesOn(W, P)'
<1>1. PICK v, name, f : /\ v = Null /\ name = "to_json_string"
                        /\ f = Frame("to_json_string", Root, <<>>, <<>>) /\ Call(name, v, f)
  BY DEF ToJsonString, Null
<1>2. PICK W : W = {v}
  OBVIOUS
<1>3. W = Sources' /\ W \subseteq S
  BY <1>1, <1>2 DEF Call, Sources, Standing
<1>4. PICK e : e = <<>> /\ e \in Seq(Names)
  BY EmptySeq
<1>5. f.class = Root /\ f.path = e /\ f.at = "to_json_string" /\ f.rest = <<>> /\ f.out = <<>>
  BY <1>1, <1>4 DEF Frame
<1>6. AtMember(f)
  <2>1. PICK m : m = <<e, RootLink>> /\ m \in Members
    BY <1>4, RootIsMember
  <2> QED BY <1>5, <2>1 DEF AtMember, RootLink
<1>7. f \in Writes
  BY <1>1, <1>4, <1>6, LinksAssumption DEF Writes, Frame
<1>8. f \in Frames(S, B, W, K, name)
  BY <1>7 DEF Frames
<1>9. GoesOn(W, name)'
  BY <1>1, <1>3, <1>8, CallStands
<1> QED BY <1>9

LEMMA ArrayFromJsonValueStands ==
    ASSUME NEW S, NEW B, NEW V, NEW K, NEW O, Standing(S, B, V, K, O), Plainly, Idle,
           ArrayFromJsonValue
    PROVE  \E W, P : GoesOn(W, P)'
<1>1. PICK name : name = "array_from_json_value"
  OBVIOUS
<1>2. PICK v \in Inputs[made + 1] :
          Call(name, v, Frame("elements", Root, <<>>, IF v[1] = "array" THEN v[2] ELSE <<>>))
  BY <1>1 DEF ArrayFromJsonValue
<1>3. v \in S /\ JsonSet(S)
  BY <1>2, InputType DEF Standing
<1>4. PICK rest, W : /\ rest = IF v[1] = "array" THEN v[2] ELSE <<>>
                     /\ W = IF v[1] = "array" THEN Range(v[2]) ELSE {v}
  OBVIOUS
<1>5. W = Sources'
  BY <1>1, <1>2, <1>4 DEF Call, Sources
<1>6. W \subseteq S /\ rest \in Seq(W)
  <2>1. CASE v[1] = "array"
    <3>1. v[2] \in Seq(S)
      BY <1>3, <2>1, ContentType
    <3>2. \A i \in 1 .. Len(v[2]) : v[2][i] \in Range(v[2])
      BY <3>1, LenProperties DEF Range
    <3>3. v[2] \in Seq(Range(v[2]))
      BY <3>1, <3>2, SeqOfRange
    <3> QED BY <1>4, <2>1, <3>1, <3>3, RangeOfSeq
  <2>2. CASE v[1] # "array"
    BY <1>3, <1>4, <2>2, EmptySeq
  <2> QED BY <2>1, <2>2
<1>7. PICK f : f = Frame("elements", Root, <<>>, rest)
  OBVIOUS
<1>8. f \in Elements(B, W, name)
  <2>1. <<>> \in Seq(B)
    BY EmptySeq
  <2> QED BY <1>1, <1>6, <1>7, <2>1 DEF Elements, Frame
<1>9. f \in Frames(S, B, W, K, name)
  BY <1>8 DEF Frames
<1>10. Call(name, v, f)
  BY <1>2, <1>4, <1>7
<1>11. GoesOn(W, name)'
  BY <1>5, <1>6, <1>9, <1>10, CallStands
<1> QED BY <1>11

LEMMA MissingFileStands ==
    ASSUME NEW S, NEW B, NEW V, NEW K, NEW O, Standing(S, B, V, K, O),
           FromMissingFile \/ ArrayFromMissingFile
    PROVE  \E W, P : GoesOn(W, P)'
<1>1. /\ calls' = <<>> /\ result' = Fresh /\ status' # "running"
      /\ registered' = registered /\ text' = text
      /\ object' \in {object, Fresh} /\ list' \in {list, <<>>}
  BY DEF FromMissingFile, ArrayFromMissingFile, MissingFile
<1>2. PICK W, P, F : W = Sources' /\ P = op' /\ F = Frames(S, B, W, K, P)
  OBVIOUS
<1>3. K = Knowns'
  BY <1>1 DEF Standing, Knowns, Known
<1>4. StackOf(calls', F)
  BY <1>1, EmptySeq DEF StackOf, Under
<1>5. /\ JsonSet(S) /\ Values \subseteq S /\ Null \in S /\ (\A o \in B : Holds(o))
      /\ Fresh \in B /\ object' \in B /\ result' \in B /\ text'.json \in S \cup {None}
  BY <1>1 DEF Standing
<1>6. list' \in Seq(B)
  BY <1>1, EmptySeq DEF Standing
<1>7. Standing(S, B, W, K, P)'
  BY <1>1, <1>2, <1>3, <1>4, <1>5, <1>6 DEF Standing
<1>8. GoesOn(W, P)'
  BY <1>1, <1>7 DEF GoesOn
<1> QED BY <1>8

LEMMA StartStands ==
    ASSUME NEW S, NEW B, NEW V, NEW K, NEW O, Standing(S, B, V, K, O), Plainly, Start
    PROVE  \E W, P : GoesOn(W, P)'
<1>1. Idle
  BY DEF Start
<1>2. CASE FromJsonValue \/ ReadStream
  <2>1. PICK name, v : /\ name # "array_from_json_value" /\ v \in Inputs[made + 1]
                       /\ Call(name, v, Reading(v))
    BY <1>2 DEF FromJsonValue, ReadStream
  <2>2. v \in S
    BY <1>1, <2>1, InputType
  <2> QED BY <2>1, <2>2, ReadingStands
<1>3. CASE FromJsonString
  <2>1. PICK name, v : /\ name # "array_from_json_value" /\ v = text.json /\ v[1] # "none"
                       /\ Call(name, v, Reading(v))
    BY <1>3 DEF FromJsonString
  <2>2. None[1] = "none"
    BY DEF None
  <2>3. v \in S
    BY <2>1, <2>2 DEF Standing
  <2> QED BY <2>1, <2>3, ReadingStands
<1>4. CASE FromJsonObject
  BY <1>1, <1>4, FromJsonObjectStands
<1>5. CASE ToJsonString
  BY <1>5, ToJsonStringStands
<1>6. CASE ArrayFromJsonValue
  BY <1>1, <1>6, ArrayFromJsonValueStands
<1>7. CASE FromMissingFile \/ ArrayFromMissingFile
  BY <1>7, MissingFileStands
<1> QED BY <1>2, <1>3, <1>4, <1>5, <1>6, <1>7 DEF Start
-----------------------------------------------------------------------------
\* Types.

Inv == Plainly /\ \E S, B, V, K, O : Standing(S, B, V, K, O)

Statuses == {"running", "returned", "threw", "aborted", "undefined"}

LEMMA StartIsPlain ==
    ASSUME Plainly, Start
    PROVE  op' \in Operations /\ made' \in 0 .. Len(Inputs) /\ status' \in Statuses
<1>1. made \in 0 .. Len(Inputs) /\ made < Len(Inputs) /\ Len(Inputs) \in Nat
  BY BoundAssumption DEF Plainly, Start, Idle
<1>2. made + 1 \in 0 .. Len(Inputs)
  BY <1>1
<1>3. made' = made + 1 /\ op' \in Operations /\ status' \in Statuses
  BY DEF Start, FromJsonValue, FromJsonString, ReadStream, FromJsonObject, ToJsonString, Call,
         ArrayFromJsonValue, MissingFile, FromMissingFile, ArrayFromMissingFile, Operations, Statuses
<1> QED BY <1>2, <1>3

\* A call goes on, or ends for good.
LEMMA ProceedIsPlain ==
    ASSUME Proceed
    PROVE  op' = op /\ json' = json /\ made' = made /\ before' = before /\ status = "running"
           /\ status' \in Statuses
<1>1. CASE Register \/ StartReading \/ SkipUnlinked \/ ReadMember \/ ReadNested \/ EndNested
           \/ ReadElement \/ EndElement \/ StartWriting \/ WriteMember \/ WriteNested
           \/ EndNestedText
  BY <1>1 DEF Register, StartReading, SkipUnlinked, ReadMember, ReadNested, EndNested,
              ReadElement, EndElement, StartWriting, WriteMember, WriteNested, EndNestedText,
              Go, AsksForMap, AtLinked, AtItem, At, Statuses
<1>2. CASE RegisterThrows \/ NotAnObject \/ UseMissing \/ FailAssertion \/ RefuseMember
           \/ RefuseNested \/ NotAnArray \/ EndReading \/ EndWriting
  BY <1>2 DEF RegisterThrows, NotAnObject, UseMissing, FailAssertion, RefuseMember,
              RefuseNested, NotAnArray, EndReading, EndWriting,
              Stop, AsksForMap, AtLinked, AtItem, At, Statuses
<1>3. CASE EndElements
  BY <1>3 DEF EndElements, At, Statuses
<1> QED BY <1>1, <1>2, <1>3 DEF Proceed

LEMMA InvStep == Inv /\ [Next]_vars => Inv'
<1> SUFFICES ASSUME Inv, [Next]_vars PROVE Inv'
  OBVIOUS
<1>1. Plainly /\ MapsInRange'
  BY StepMaps DEF Inv, Plainly
<1>2. PICK S, B, V, K, O : Standing(S, B, V, K, O)
  BY DEF Inv
<1>3. CASE Start
  <2>1. PICK W, P : GoesOn(W, P)'
    BY <1>1, <1>2, <1>3, StartStands
  <2>2. op' \in Operations /\ made' \in 0 .. Len(Inputs) /\ status' \in Statuses
    BY <1>1, <1>3, StartIsPlain
  <2> QED BY <1>1, <2>1, <2>2 DEF Inv, Plainly, GoesOn, Statuses
<1>4. CASE Proceed
  <2>1. GoesOn(V, O)'
    BY <1>1, <1>2, <1>4, ProceedGoesOn
  <2>2. op' = op /\ made' = made /\ status' \in Statuses
    BY <1>4, ProceedIsPlain
  <2> QED BY <1>1, <2>1, <2>2 DEF Inv, Plainly, GoesOn, Statuses
<1>5. CASE UNCHANGED vars
  <2>1. Sources' = Sources /\ Knowns' = Knowns /\ op' = op
    BY <1>5 DEF vars, Sources, Knowns, Known
  <2>2. Standing(S, B, V, K, O)'
    BY <1>2, <1>5, <2>1 DEF vars, program, Standing
  <2>3. Plainly'
    BY <1>1, <1>5 DEF vars, Plainly
  <2> QED BY <2>2, <2>3 DEF Inv
<1> QED BY <1>3, <1>4, <1>5 DEF Next

LEMMA InvImpliesTypeOK == Inv => TypeOK
<1> SUFFICES ASSUME Inv PROVE TypeOK
  OBVIOUS
<1>1. PICK S, B, V, K, O : Standing(S, B, V, K, O)
  BY DEF Inv
<1>2. calls \in Seq(Frames(S, B, V, K, O))
  BY <1>1 DEF Standing, StackOf
<1>3. \A i \in DOMAIN calls : calls[i] \in Frames(S, B, V, K, O)
  BY <1>2, ElementOfSeq, LenProperties
<1>4. \A i \in DOMAIN calls : calls[i].at \in Places /\ calls[i].class \in Classes
  BY <1>3, FrameType
<1>5. Holds(object) /\ Holds(result) /\ \A o \in B : Holds(o)
  BY <1>1 DEF Standing
<1>6. list \in Seq(B)
  BY <1>1 DEF Standing
<1>7. \A i \in DOMAIN list : list[i] \in B
  BY <1>6, ElementOfSeq, LenProperties
<1> QED BY <1>4, <1>5, <1>7 DEF Inv, Plainly, MapsInRange, TypeOK

\* Every variable stays in its set, whatever JSON the calls are given: each
\* member of the program's object, and of the objects in its list, holds a
\* value of the member's type and width, and an active call is at a member of
\* the object.
THEOREM TypesHold == Spec => []TypeOK
<1>1. Init => Inv
  BY InitStands DEF Inv
<1> QED BY <1>1, InvStep, InvImpliesTypeOK, PTL DEF Spec
-----------------------------------------------------------------------------
\* What a from_json_object that fails leaves.

\* A member of from_json_object's object has what it had, or what it makes of
\* a value that it is given.
Touched ==
    op = "from_json_object" =>
        \A p \in Paths :
            \/ object[p] = before[p]
            \/ \E i \in DOMAIN Mentions(json, p) :
                   object[p] = Held(LinkAt(p), Mentions(json, p)[i])

LEMMA AssignTouches ==
    ASSUME Inv, Touched, ReadMember \/ RefuseMember
    PROVE  Touched'
<1>1. AtLinked /\ Link.kind \notin Classes
  BY DEF ReadMember, RefuseMember
<1>2. op' = op /\ json' = json /\ before' = before
  BY ProceedIsPlain DEF Proceed
<1> SUFFICES ASSUME op = "from_json_object" PROVE Touched'
  BY <1>2 DEF Touched
<1>3. PICK S, B, V, K, O : Standing(S, B, V, K, O) /\ Plainly
  BY DEF Inv
<1>4. V = {json}
  BY <1>3 DEF Standing, Sources
<1>5. PICK q \in Paths, x \in S : q = Path /\ x = Value /\ LinkAt(q) = Link
  BY <1>1, <1>3, AtLinkedType
<1>6. x \in Range(Mentions(json, q))
  BY <1>1, <1>3, <1>4, <1>5, AtLinkedType
<1>7. PICK k \in DOMAIN Mentions(json, q) : x = Mentions(json, q)[k]
  BY <1>6 DEF Range
<1>8. DOMAIN object = Paths
  BY <1>3, HoldsIs DEF Standing
<1>9. object' = object \/ object' = [object EXCEPT ![q] = Held(LinkAt(q), x)]
  BY <1>5 DEF ReadMember, RefuseMember, Assign, Held
<1>10. \A p \in Paths : object'[p] = object[p] \/ (p = q /\ object'[p] = Held(LinkAt(q), x))
  BY <1>8, <1>9
<1> QED BY <1>2, <1>7, <1>10 DEF Touched

LEMMA TouchedStep == Inv /\ Touched /\ [Next]_vars => Touched'
<1> SUFFICES ASSUME Inv, Touched, [Next]_vars PROVE Touched'
  OBVIOUS
<1>1. CASE Start
  BY <1>1 DEF Start, FromJsonValue, FromJsonString, ReadStream, FromJsonObject, ToJsonString, Call,
         ArrayFromJsonValue, MissingFile, FromMissingFile, ArrayFromMissingFile, Touched
<1>2. CASE ReadMember \/ RefuseMember
  BY <1>2, AssignTouches
<1>3. CASE Proceed /\ ~(ReadMember \/ RefuseMember)
  <2>1. op' = op /\ json' = json /\ before' = before
    BY <1>3, ProceedIsPlain
  <2>2. op = "from_json_object" => object' = object
    BY <1>3 DEF Proceed, Register, RegisterThrows, StartReading, NotAnObject, SkipUnlinked,
       UseMissing, ReadNested, FailAssertion, RefuseNested, EndNested, EndReading, NotAnArray,
       ReadElement, EndElement, EndElements, StartWriting, WriteMember, WriteNested,
       EndNestedText, EndWriting
  <2> QED BY <2>1, <2>2 DEF Touched
<1>4. CASE UNCHANGED vars
  BY <1>4 DEF vars, program, Touched
<1> QED BY <1>1, <1>2, <1>3, <1>4 DEF Next

\* When from_json_object fails, for whatever reason and however deep in the
\* object, each member has what it had, or what it makes of a value that the
\* text gives it: for every class and every JSON.
THEOREM FailureLeaves == Spec => []FailureLeavesMembers
<1>1. Init => Inv /\ Touched
  BY InitStands DEF Inv, Init, Touched
<1>2. Touched => FailureLeavesMembers
  BY DEF Touched, FailureLeavesMembers
<1> QED BY <1>1, <1>2, InvStep, TouchedStep, PTL DEF Spec
-----------------------------------------------------------------------------
\* Why a call runs into end( ).

LEMMA UndefinedForReason ==
    ASSUME NEW S, NEW B, NEW V, NEW K, NEW O, Standing(S, B, V, K, O), Plainly, Proceed,
           status' = "undefined"
    PROVE  registered' = registered /\ \E v \in V, name \in Known(Root) : Mentions(v, <<name>>) = <<>>
<1>1. UseMissing
  <2>1. status = "running"
    BY ProceedIsPlain
  <2> QED BY <2>1 DEF Proceed, Register, RegisterThrows, StartReading, NotAnObject, SkipUnlinked,
       ReadMember, ReadNested, FailAssertion, RefuseMember, RefuseNested, EndNested, EndReading,
       NotAnArray, ReadElement, EndElement, EndElements, StartWriting, WriteMember, WriteNested,
       EndNestedText, EndWriting, Go, Stop
<1>2. AtItem /\ Value[1] = "missing" /\ registered' = registered
  BY <1>1 DEF UseMissing
<1>3. /\ Value \in S \cup {Missing} /\ JsonSet(S)
      /\ \E v \in V : ItemOf(v, Top.path, Head(Top.rest), K)
  BY <1>2, AtItemType
<1>4. Value = Missing
  BY <1>2, <1>3, ContentType
<1>5. PICK v \in V : ItemOf(v, Top.path, Head(Top.rest), K)
  BY <1>3
<1>6. PICK name : name = Name
  OBVIOUS
<1>7. name \in K[Root] /\ Mentions(v, <<name>>) = <<>>
  BY <1>4, <1>5, <1>6 DEF ItemOf, Value, Name
<1>8. K[Root] = Known(Root)
  BY KnownsType, LinksAssumption DEF Plainly, Standing
<1> QED BY <1>2, <1>7, <1>8
-----------------------------------------------------------------------------
\* Mentions, from the front of a path.  The values vs, which stand for the
\* first a names of p, are carried through the names that are left: g[k] is
\* what they give for the first k names.

Carries(g, vs, p, a, n) ==
    g[a] = vs /\ \A k \in a + 1 .. n : g[k] = Onward(g[k - 1], p[k])
CarryFrom(vs, p, a) == (CHOOSE g : Carries(g, vs, p, a, Len(p)))[Len(p)]

LEMMA CarryGrows ==
    ASSUME NEW vs, NEW p, NEW a \in Nat, NEW n \in Nat, a <= n, NEW g, Carries(g, vs, p, a, n)
    PROVE  \E h : Carries(h, vs, p, a, n + 1)
<1> DEFINE h == [k \in a .. n + 1 |-> IF k = n + 1 THEN Onward(g[n], p[n + 1]) ELSE g[k]]
<1>1. (\A k \in a .. n : h[k] = g[k]) /\ h[n + 1] = Onward(g[n], p[n + 1])
  OBVIOUS
<1> HIDE DEF h
<1>2. h[a] = vs
  BY <1>1 DEF Carries
<1>3. ASSUME NEW k \in a + 1 .. n + 1 PROVE h[k] = Onward(h[k - 1], p[k])
  <2>1. CASE k = n + 1
    <3>1. k - 1 = n /\ n \in a .. n
      BY <2>1
    <3> QED BY <1>1, <2>1, <3>1
  <2>2. CASE k # n + 1
    <3>1. k \in a + 1 .. n /\ k \in a .. n /\ k - 1 \in a .. n
      BY <2>2
    <3>2. g[k] = Onward(g[k - 1], p[k])
      BY <3>1, Zenon DEF Carries
    <3> QED BY <1>1, <3>1, <3>2, Zenon
  <2> QED BY <2>1, <2>2
<1> QED BY <1>2, <1>3 DEF Carries

LEMMA CarryExists ==
    ASSUME NEW vs, NEW p, NEW a \in Nat, NEW n \in Nat, a <= n
    PROVE  \E g : Carries(g, vs, p, a, n)
<1> DEFINE P == {i \in Nat : \E g : Carries(g, vs, p, a, a + i)}
<1>1. 0 \in P
  <2>1. PICK g : g = [k \in {a} |-> vs]
    OBVIOUS
  <2>2. g[a] = vs /\ a + 1 .. a + 0 = {}
    BY <2>1
  <2>3. Carries(g, vs, p, a, a + 0)
    BY <2>2, Zenon DEF Carries
  <2> QED BY <2>3
<1>2. ASSUME NEW i \in Nat, i \in P PROVE i + 1 \in P
  <2>1. PICK g : Carries(g, vs, p, a, a + i)
    BY <1>2
  <2>2. PICK m \in Nat : m = a + i /\ a <= m /\ m + 1 = a + (i + 1)
    OBVIOUS
  <2>3. \E h : Carries(h, vs, p, a, m + 1)
    BY <2>1, <2>2, CarryGrows, Zenon
  <2> QED BY <2>2, <2>3
<1> HIDE DEF P
<1>3. n - a \in P /\ a + (n - a) = n
  BY <1>1, <1>2, NumberInduction
<1> QED BY <1>3 DEF P

LEMMA CarryAgrees ==
    ASSUME NEW vs, NEW p, NEW a \in Nat, NEW n \in Nat, a <= n,
           NEW g, Carries(g, vs, p, a, n), NEW h, Carries(h, vs, p, a, n)
    PROVE  g[n] = h[n]
<1> DEFINE P == {i \in Nat : a + i <= n => g[a + i] = h[a + i]}
<1>1. 0 \in P
  BY DEF Carries
<1>2. ASSUME NEW i \in Nat, i \in P PROVE i + 1 \in P
  <2> SUFFICES ASSUME a + (i + 1) <= n PROVE g[a + (i + 1)] = h[a + (i + 1)]
    OBVIOUS
  <2>1. PICK k : k = a + (i + 1)
    OBVIOUS
  <2>2. k \in a + 1 .. n /\ k - 1 = a + i
    BY <2>1
  <2>3. g[k - 1] = h[k - 1]
    BY <1>2, <2>2
  <2>4. g[k] = Onward(g[k - 1], p[k]) /\ h[k] = Onward(h[k - 1], p[k])
    BY <2>2, Zenon DEF Carries
  <2> QED BY <2>1, <2>3, <2>4
<1> HIDE DEF P
<1>3. n - a \in P /\ a + (n - a) = n
  BY <1>1, <1>2, NumberInduction
<1> QED BY <1>3 DEF P

LEMMA CarryIs ==
    ASSUME NEW p \in Seq(Names), NEW a \in 0 .. Len(p), NEW vs, NEW g, Carries(g, vs, p, a, Len(p))
    PROVE  CarryFrom(vs, p, a) = g[Len(p)]
<1>1. a \in Nat /\ Len(p) \in Nat /\ a <= Len(p)
  BY LenProperties
<1> DEFINE h == CHOOSE h : Carries(h, vs, p, a, Len(p))
<1>2. Carries(h, vs, p, a, Len(p))
  BY Zenon
<1>3. CarryFrom(vs, p, a) = h[Len(p)]
  BY Zenon DEF CarryFrom
<1> HIDE DEF h
<1>4. h[Len(p)] = g[Len(p)]
  <2>1. PICK n \in Nat : n = Len(p)
    BY <1>1
  <2>2. Carries(h, vs, p, a, n) /\ Carries(g, vs, p, a, n) /\ a <= n
    BY <1>1, <1>2, <2>1
  <2>3. h[n] = g[n]
    BY <1>1, <2>2, CarryAgrees
  <2> QED BY <2>1, <2>3
<1> QED BY <1>3, <1>4

LEMMA CarryEnds ==
    ASSUME NEW p \in Seq(Names), NEW vs
    PROVE  CarryFrom(vs, p, Len(p)) = vs
<1>1. Len(p) \in Nat /\ Len(p) \in 0 .. Len(p) /\ Len(p) <= Len(p)
  BY LenProperties
<1>2. PICK g : Carries(g, vs, p, Len(p), Len(p))
  BY <1>1, CarryExists
<1>3. g[Len(p)] = vs
  BY <1>2 DEF Carries
<1> QED BY <1>1, <1>2, <1>3, CarryIs

LEMMA CarrySteps ==
    ASSUME NEW p \in Seq(Names), NEW a \in Nat, a + 1 <= Len(p), NEW vs
    PROVE  CarryFrom(vs, p, a) = CarryFrom(Onward(vs, p[a + 1]), p, a + 1)
<1>1. Len(p) \in Nat /\ a \in 0 .. Len(p) /\ a + 1 \in 0 .. Len(p) /\ a <= Len(p) /\ a + 1 \in Nat
  BY LenProperties
<1>2. PICK g : Carries(g, vs, p, a, Len(p))
  BY <1>1, CarryExists
<1>3. Carries(g, Onward(vs, p[a + 1]), p, a + 1, Len(p))
  <2>1. PICK b : b = a + 1
    OBVIOUS
  <2>2. b \in a + 1 .. Len(p) /\ b - 1 = a /\ \A k \in b + 1 .. Len(p) : k \in a + 1 .. Len(p)
    BY <1>1, <2>1
  <2>3. g[a] = vs /\ \A k \in a + 1 .. Len(p) : g[k] = Onward(g[k - 1], p[k])
    BY <1>2, Zenon DEF Carries
  <2>4. g[b] = Onward(vs, p[b])
    BY <2>2, <2>3, Zenon
  <2>5. \A k \in b + 1 .. Len(p) : g[k] = Onward(g[k - 1], p[k])
    BY <2>2, <2>3, Zenon
  <2>6. Carries(g, Onward(vs, p[b]), p, b, Len(p))
    BY <2>4, <2>5, Zenon DEF Carries
  <2> QED BY <2>1, <2>6
<1>4. CarryFrom(vs, p, a) = g[Len(p)]
  BY <1>1, <1>2, CarryIs, Zenon
<1>5. CarryFrom(Onward(vs, p[a + 1]), p, a + 1) = g[Len(p)]
  BY <1>1, <1>3, CarryIs, Zenon
<1> QED BY <1>4, <1>5

\* All of a path is before v.
LEMMA MentionsCarried ==
    ASSUME NEW v, NEW p \in Seq(Names)
    PROVE  Mentions(v, p) = CarryFrom(<<v>>, p, 0)
<1>1. Len(p) \in Nat /\ 0 \in 0 .. Len(p)
  BY LenProperties
<1>2. PICK f : IsUpto(f, v, p, Len(p)) /\ Mentions(v, p) = f[Len(p)]
  BY <1>1, MentionsIs
<1>3. \A k \in 0 .. Len(p) : f[k] = IF k = 0 THEN <<v>> ELSE Onward(f[k - 1], p[k])
  BY <1>2, Zenon DEF IsUpto
<1>4. 0 + 1 = 1 /\ \A k \in 1 .. Len(p) : k \in 0 .. Len(p) /\ k # 0
  BY <1>1
<1>5. Carries(f, <<v>>, p, 0, Len(p))
  <2>1. f[0] = <<v>>
    BY <1>1, <1>3, Zenon
  <2>2. \A k \in 1 .. Len(p) : f[k] = Onward(f[k - 1], p[k])
    BY <1>3, <1>4, Zenon
  <2> QED BY <1>4, <2>1, <2>2, Zenon DEF Carries
<1> QED BY <1>1, <1>2, <1>5, CarryIs, Zenon

LEMMA FlattenNone == FlattenSeq(<<>>) = <<>>
  BY EmptySeq DEF FlattenSeq

LEMMA FlattenOne ==
    ASSUME NEW S, NEW x \in Seq(S)
    PROVE  FlattenSeq(<<x>>) = x
<1>1. PICK T : T = Seq(S)
  OBVIOUS
<1>2. PICK ss : ss = <<x>>
  OBVIOUS
<1>3. ss \in Seq(T) /\ ss # <<>> /\ Head(ss) = x /\ Tail(ss) = <<>>
  BY <1>1, <1>2
<1>4. FlattenSeq(ss) = x \o FlattenSeq(<<>>)
  BY <1>1, <1>3, FlattenHead
<1>5. x \o <<>> = x
  BY ConcatEmptySeq
<1> QED BY <1>2, <1>4, <1>5, FlattenNone

Each(vs, name) == [i \in DOMAIN vs |-> Named(vs[i], name)]

LEMMA EachType ==
    ASSUME NEW S, JsonSet(S), NEW vs \in Seq(S), NEW name
    PROVE  /\ Each(vs, name) \in Seq(Seq(S)) /\ Len(Each(vs, name)) = Len(vs)
           /\ \A i \in 1 .. Len(vs) : Each(vs, name)[i] = Named(vs[i], name)
           /\ Onward(vs, name) = FlattenSeq(Each(vs, name))
<1>1. PICK n \in Nat : n = Len(vs) /\ DOMAIN vs = 1 .. n /\ \A i \in 1 .. n : vs[i] \in S
  BY LenProperties, ElementOfSeq
<1>2. \A i \in 1 .. n : Named(vs[i], name) \in Seq(S)
  BY <1>1, NamedType
<1>3. PICK ss : ss = Each(vs, name)
  OBVIOUS
<1>4. ss = [i \in 1 .. n |-> Named(vs[i], name)]
  BY <1>1, <1>3 DEF Each
<1>5. ss \in Seq(Seq(S)) /\ Len(ss) = n
  BY <1>2, <1>4
<1>6. \A i \in 1 .. n : ss[i] = Named(vs[i], name)
  BY <1>4
<1>7. Onward(vs, name) = FlattenSeq(ss)
  BY <1>3 DEF Each, Onward
<1> QED BY <1>1, <1>3, <1>5, <1>6, <1>7

LEMMA OnwardNone == ASSUME NEW name PROVE Onward(<<>>, name) = <<>>
<1>1. [i \in DOMAIN <<>> |-> Named(<<>>[i], name)] = <<>>
  OBVIOUS
<1> QED BY <1>1, FlattenNone DEF Onward

LEMMA OnwardOne ==
    ASSUME NEW S, JsonSet(S), NEW v \in S, NEW name
    PROVE  Onward(<<v>>, name) = Named(v, name)
<1>1. PICK x : x = Named(v, name) /\ x \in Seq(S)
  BY NamedType
<1>2. Each(<<v>>, name) = <<x>>
  BY <1>1 DEF Each
<1>3. FlattenSeq(<<x>>) = x
  BY <1>1, FlattenOne
<1> QED BY <1>1, <1>2, <1>3 DEF Onward, Each

LEMMA OnwardConcat ==
    ASSUME NEW S, JsonSet(S), NEW name
    PROVE  \A vs, ws \in Seq(S) : Onward(vs \o ws, name) = Onward(vs, name) \o Onward(ws, name)
<1> SUFFICES ASSUME NEW vs \in Seq(S), NEW ws \in Seq(S)
             PROVE  Onward(vs \o ws, name) = Onward(vs, name) \o Onward(ws, name)
  OBVIOUS
<1>1. PICK n \in Nat, m \in Nat : n = Len(vs) /\ m = Len(ws)
  BY LenProperties
<1>2. IsConcat(vs \o ws, vs, ws, S)
  BY ConcatIs
<1>3. PICK us : us = vs \o ws
  OBVIOUS
<1>4. /\ us \in Seq(S) /\ Len(us) = n + m
      /\ \A i \in 1 .. n : us[i] = vs[i]
      /\ \A i \in 1 .. m : us[n + i] = ws[i]
  BY <1>1, <1>2, <1>3, Zenon DEF IsConcat
<1> DEFINE e(s) == Each(s, name)
<1>5. /\ e(us) \in Seq(Seq(S)) /\ Len(e(us)) = n + m /\ \A i \in 1 .. n + m : e(us)[i] = Named(us[i], name)
  <2>1. /\ e(us) \in Seq(Seq(S)) /\ Len(e(us)) = Len(us)
        /\ \A i \in 1 .. Len(us) : e(us)[i] = Named(us[i], name)
    BY <1>4, EachType
  <2> QED BY <1>4, <2>1
<1>6. e(vs) \in Seq(Seq(S)) /\ Len(e(vs)) = n /\ \A i \in 1 .. n : e(vs)[i] = Named(vs[i], name)
  BY <1>1, EachType, Zenon
<1>7. e(ws) \in Seq(Seq(S)) /\ Len(e(ws)) = m /\ \A i \in 1 .. m : e(ws)[i] = Named(ws[i], name)
  BY <1>1, EachType, Zenon
<1>8. Onward(us, name) = FlattenSeq(e(us)) /\ Onward(vs, name) = FlattenSeq(e(vs)) /\ Onward(ws, name) = FlattenSeq(e(ws))
  BY DEF Onward, Each
<1> HIDE DEF e
<1>9. IsConcat(e(vs) \o e(ws), e(vs), e(ws), Seq(S))
  BY <1>6, <1>7, ConcatIs, Zenon
<1>10. /\ e(vs) \o e(ws) \in Seq(Seq(S)) /\ Len(e(vs) \o e(ws)) = n + m
       /\ \A i \in 1 .. n : (e(vs) \o e(ws))[i] = e(vs)[i]
       /\ \A i \in 1 .. m : (e(vs) \o e(ws))[n + i] = e(ws)[i]
  BY <1>6, <1>7, <1>9, Zenon DEF IsConcat
<1>11. (\A i \in 1 .. n : i \in 1 .. n + m) /\ (\A i \in 1 .. m : n + i \in 1 .. n + m)
       /\ \A i \in 1 .. n + m : i \in 1 .. n \/ \E k \in 1 .. m : i = n + k
  <2>1. \A i \in 1 .. n + m : i \in 1 .. n \/ (i - n \in 1 .. m /\ i = n + (i - n))
    OBVIOUS
  <2>2. (\A i \in 1 .. n : i \in 1 .. n + m) /\ (\A i \in 1 .. m : n + i \in 1 .. n + m)
    OBVIOUS
  <2> QED BY <2>1, <2>2, Zenon
<1>12. \A i \in 1 .. n + m : e(us)[i] = (e(vs) \o e(ws))[i]
  <2>1. ASSUME NEW i \in 1 .. n PROVE e(us)[i] = (e(vs) \o e(ws))[i]
    <3>1. i \in 1 .. n + m
      BY <1>11, Zenon
    <3>2. e(us)[i] = Named(us[i], name)
      BY <1>5, <3>1, Zenon
    <3>3. us[i] = vs[i]
      BY <1>4, Zenon
    <3>4. e(vs)[i] = Named(vs[i], name)
      BY <1>6, Zenon
    <3>5. (e(vs) \o e(ws))[i] = e(vs)[i]
      BY <1>10, Zenon
    <3> QED BY <3>2, <3>3, <3>4, <3>5, Zenon
  <2>2. ASSUME NEW i \in 1 .. m PROVE e(us)[n + i] = (e(vs) \o e(ws))[n + i]
    <3>1. n + i \in 1 .. n + m
      BY <1>11, Zenon
    <3>2. e(us)[n + i] = Named(us[n + i], name)
      BY <1>5, <3>1, Zenon
    <3>3. us[n + i] = ws[i]
      BY <1>4, Zenon
    <3>4. e(ws)[i] = Named(ws[i], name)
      BY <1>7, Zenon
    <3>5. (e(vs) \o e(ws))[n + i] = e(ws)[i]
      BY <1>10, Zenon
    <3> QED BY <3>2, <3>3, <3>4, <3>5, Zenon
  <2> QED BY <1>11, <2>1, <2>2, Zenon
<1>13. e(us) = e(vs) \o e(ws)
  BY <1>5, <1>10, <1>12, SameElements, Zenon
<1>14. FlattenSeq(e(vs) \o e(ws)) = FlattenSeq(e(vs)) \o FlattenSeq(e(ws))
  BY <1>6, <1>7, FlattenConcat, Zenon
<1> QED BY <1>3, <1>8, <1>13, <1>14, Zenon

\* What is carried from the values of two sequences, and from none.
CarriesBoth(S, p, a) ==
    /\ CarryFrom(<<>>, p, a) = <<>>
    /\ \A vs \in Seq(S) : CarryFrom(vs, p, a) \in Seq(S)
    /\ \A vs, ws \in Seq(S) : CarryFrom(vs \o ws, p, a) = CarryFrom(vs, p, a) \o CarryFrom(ws, p, a)

LEMMA CarryBoth ==
    ASSUME NEW S, JsonSet(S), NEW p \in Seq(Names)
    PROVE  \A a \in 0 .. Len(p) : CarriesBoth(S, p, a)
<1> DEFINE P == {n \in Nat : n <= Len(p) => CarriesBoth(S, p, Len(p) - n)}
<1>1. Len(p) \in Nat
  BY LenProperties
<1>2. CarriesBoth(S, p, Len(p))
  BY CarryEnds, Zenon DEF CarriesBoth
<1>3. ASSUME NEW a \in Nat, a + 1 <= Len(p), CarriesBoth(S, p, a + 1) PROVE CarriesBoth(S, p, a)
  <2> DEFINE name == p[a + 1]
  <2>1. \A vs : CarryFrom(vs, p, a) = CarryFrom(Onward(vs, name), p, a + 1)
    BY <1>3, CarrySteps, Zenon
  <2>2. Onward(<<>>, name) = <<>>
    BY OnwardNone
  <2>3. \A vs \in Seq(S) : Onward(vs, name) \in Seq(S)
    BY OnwardType, Zenon
  <2>4. \A vs, ws \in Seq(S) : Onward(vs \o ws, name) = Onward(vs, name) \o Onward(ws, name)
    BY OnwardConcat, Zenon
  <2> HIDE DEF name
  <2>5. CarryFrom(<<>>, p, a) = <<>>
    BY <1>3, <2>1, <2>2, Zenon DEF CarriesBoth
  <2>6. ASSUME NEW vs \in Seq(S) PROVE CarryFrom(vs, p, a) \in Seq(S)
    BY <1>3, <2>1, <2>3, Zenon DEF CarriesBoth
  <2>7. ASSUME NEW vs \in Seq(S), NEW ws \in Seq(S)
        PROVE  CarryFrom(vs \o ws, p, a) = CarryFrom(vs, p, a) \o CarryFrom(ws, p, a)
    <3>1. CarryFrom(Onward(vs, name) \o Onward(ws, name), p, a + 1)
          = CarryFrom(Onward(vs, name), p, a + 1) \o CarryFrom(Onward(ws, name), p, a + 1)
      BY <1>3, <2>3, Zenon DEF CarriesBoth
    <3>2. Onward(vs \o ws, name) = Onward(vs, name) \o Onward(ws, name)
      BY <2>4, Zenon
    <3>3. CarryFrom(vs \o ws, p, a) = CarryFrom(Onward(vs \o ws, name), p, a + 1)
      BY <2>1, Zenon
    <3>4. CarryFrom(vs, p, a) = CarryFrom(Onward(vs, name), p, a + 1)
          /\ CarryFrom(ws, p, a) = CarryFrom(Onward(ws, name), p, a + 1)
      BY <2>1, Zenon
    <3> QED BY <3>1, <3>2, <3>3, <3>4, Zenon
  <2> QED BY <2>5, <2>6, <2>7, Zenon DEF CarriesBoth
<1>4. 0 \in P
  BY <1>1, <1>2
<1>5. ASSUME NEW n \in Nat, n \in P PROVE n + 1 \in P
  <2> SUFFICES ASSUME n + 1 <= Len(p) PROVE CarriesBoth(S, p, Len(p) - (n + 1))
    OBVIOUS
  <2>1. PICK a \in Nat : a = Len(p) - (n + 1) /\ a + 1 <= Len(p) /\ a + 1 = Len(p) - n /\ n <= Len(p)
    BY <1>1
  <2>2. CarriesBoth(S, p, a + 1)
    BY <1>5, <2>1
  <2> QED BY <1>3, <2>1, <2>2
<1> HIDE DEF P
<1>6. \A n \in Nat : n \in P
  BY <1>4, <1>5, NumberInduction
<1>7. ASSUME NEW a \in 0 .. Len(p) PROVE CarriesBoth(S, p, a)
  <2>1. Len(p) - a \in Nat /\ Len(p) - a <= Len(p) /\ Len(p) - (Len(p) - a) = a
    BY <1>1
  <2>2. Len(p) - a \in P
    BY <1>6, <2>1
  <2> QED BY <2>1, <2>2 DEF P
<1> QED BY <1>7

LEMMA CarryNone ==
    ASSUME NEW p \in Seq(Names), NEW a \in 0 .. Len(p)
    PROVE  CarryFrom(<<>>, p, a) = <<>>
<1>1. JsonSet({})
  BY DEF JsonSet
<1>2. CarriesBoth({}, p, a)
  BY <1>1, CarryBoth
<1> QED BY <1>2, Zenon DEF CarriesBoth

LEMMA CarryType ==
    ASSUME NEW S, JsonSet(S), NEW p \in Seq(Names), NEW a \in 0 .. Len(p), NEW vs \in Seq(S)
    PROVE  CarryFrom(vs, p, a) \in Seq(S)
<1>1. CarriesBoth(S, p, a)
  BY CarryBoth
<1> QED BY <1>1, Zenon DEF CarriesBoth

-----------------------------------------------------------------------------
\* What the frames of a read have still to say of a member.

\* The path is that of an object around the member at p.
Begins(path, p) == Len(path) < Len(p) /\ \A i \in 1 .. Len(path) : path[i] = p[i]

\* The values for p among the items that the frame f has still to look at, and
\* those of the item x of an object at path.
Left(f, p) ==
    IF f.at = "items" /\ Begins(f.path, p)
    THEN CarryFrom(FlattenSeq(Picked(f.rest, p[Len(f.path) + 1])), p, Len(f.path) + 1)
    ELSE <<>>
Due(path, x, p) ==
    IF Begins(path, p) /\ p[Len(path) + 1] = x[1]
    THEN CarryFrom(<<x[2]>>, p, Len(path) + 1)
    ELSE <<>>

\* What an item says for a name.
Given(x, name) == IF x[1] = name THEN <<x[2]>> ELSE <<>>

LEMMA PickedTail ==
    ASSUME NEW S, NEW ms \in Seq(Names \X S), ms # <<>>, NEW name
    PROVE  /\ FlattenSeq(Picked(Tail(ms), name)) \in Seq(S)
           /\ Head(ms) \in Names \X S /\ Tail(ms) \in Seq(Names \X S)
<1>1. PICK T : T = Names \X S
  OBVIOUS
<1>2. Tail(ms) \in Seq(T) /\ Head(ms) \in T
  BY <1>1
<1>3. PICK t : t = Tail(ms) /\ t \in Seq(Names \X S)
  BY <1>1, <1>2
<1>4. Picked(t, name) \in Seq(Seq(S))
  BY <1>3, PickedType
<1>5. FlattenSeq(Picked(t, name)) \in Seq(S)
  BY <1>4, FlattenType, Zenon
<1> QED BY <1>1, <1>2, <1>3, <1>5

LEMMA PickedHead ==
    ASSUME NEW S, NEW ms \in Seq(Names \X S), ms # <<>>, NEW name
    PROVE  FlattenSeq(Picked(ms, name)) = Given(Head(ms), name) \o FlattenSeq(Picked(Tail(ms), name))
<1>1. PICK T : T = Names \X S
  OBVIOUS
<1>2. ms \in Seq(T)
  BY <1>1
<1>3. PICK t : t = Tail(ms)
  OBVIOUS
<1>4. t \in Seq(T) /\ Head(ms) \in T /\ Head(ms) = ms[1] /\ Len(ms) = Len(t) + 1 /\ Len(t) \in Nat
      /\ DOMAIN t = 1 .. Len(t) /\ \A i \in 1 .. Len(t) : t[i] = ms[i + 1]
  BY <1>2, <1>3
<1>5. PICK n \in Nat : n = Len(t)
  BY <1>4
<1>6. PICK U : U = Seq(S)
  OBVIOUS
<1>7. Picked(ms, name) \in Seq(U) /\ Len(Picked(ms, name)) = n + 1
  BY <1>1, <1>2, <1>4, <1>5, <1>6, PickedType
<1>8. Picked(t, name) \in Seq(U) /\ Len(Picked(t, name)) = n
  BY <1>1, <1>4, <1>5, <1>6, PickedType
<1>9. PICK ss : ss = Picked(ms, name)
  OBVIOUS
<1>10. PICK tt : tt = Picked(t, name)
  OBVIOUS
<1>11. \A i \in 1 .. n + 1 : ss[i] = IF ms[i][1] = name THEN <<ms[i][2]>> ELSE <<>>
  <2>1. DOMAIN ms = 1 .. n + 1
    BY <1>2, <1>4, <1>5, LenProperties
  <2> QED BY <1>9, <2>1, Zenon DEF Picked
<1>12. \A i \in 1 .. n : tt[i] = IF ms[i + 1][1] = name THEN <<ms[i + 1][2]>> ELSE <<>>
  <2>1. \A i \in 1 .. n : tt[i] = IF t[i][1] = name THEN <<t[i][2]>> ELSE <<>>
    BY <1>4, <1>5, <1>10, Zenon DEF Picked
  <2> QED BY <1>4, <1>5, <2>1
<1>13. ss # <<>> /\ Head(ss) = ss[1]
  BY <1>7, <1>9, EmptySeq
<1>14. Tail(ss) = tt
  <2>1. Tail(ss) \in Seq(U) /\ Len(Tail(ss)) = n /\ \A i \in 1 .. n : Tail(ss)[i] = ss[i + 1]
    BY <1>7, <1>9, <1>13
  <2>2. \A i \in 1 .. n : i + 1 \in 1 .. n + 1
    OBVIOUS
  <2>3. \A i \in 1 .. n : Tail(ss)[i] = tt[i]
    BY <1>11, <1>12, <2>1, <2>2, Zenon
  <2> QED BY <1>8, <1>10, <2>1, <2>3, SameElements
<1>15. ss[1] = Given(Head(ms), name)
  <2>1. 1 \in 1 .. n + 1
    OBVIOUS
  <2> QED BY <1>4, <1>11, <2>1, Zenon DEF Given
<1>16. FlattenSeq(ss) = Head(ss) \o FlattenSeq(Tail(ss))
  BY <1>6, <1>7, <1>9, <1>13, FlattenHead
<1> QED BY <1>3, <1>9, <1>10, <1>13, <1>14, <1>15, <1>16, Zenon

LEMMA PickedSkips ==
    ASSUME NEW S, NEW ms \in Seq(Names \X S), ms # <<>>, NEW name, Head(ms)[1] # name
    PROVE  FlattenSeq(Picked(ms, name)) = FlattenSeq(Picked(Tail(ms), name))
<1>1. PICK ws : ws = FlattenSeq(Picked(Tail(ms), name)) /\ ws \in Seq(S)
  BY PickedTail
<1>2. FlattenSeq(Picked(ms, name)) = Given(Head(ms), name) \o ws
  BY <1>1, PickedHead, Zenon
<1>3. Given(Head(ms), name) = <<>>
  BY DEF Given
<1>4. <<>> \o ws = ws
  BY <1>1, ConcatEmptySeq
<1> QED BY <1>1, <1>2, <1>3, <1>4, Zenon

\* The path p goes through the member of that name, or ends there.
Through(path, name, p) == Begins(path, p) /\ p[Len(path) + 1] = name

LEMMA BeginsShorter ==
    ASSUME NEW path \in Seq(Names), NEW p \in Seq(Names), Begins(path, p)
    PROVE  Len(path) \in Nat /\ Len(path) + 1 \in 0 .. Len(p) /\ Len(path) + 1 <= Len(p)
  BY LenProperties DEF Begins

LEMMA BeginsNext ==
    ASSUME NEW path \in Seq(Names), NEW name \in Names, NEW p \in Seq(Names),
           NEW q, q = Append(path, name)
    PROVE  Through(path, name, p) <=> (Begins(q, p) \/ p = q)
<1>1. PICK a \in Nat, n \in Nat : a = Len(path) /\ n = Len(p)
  BY LenProperties
<1>2. q \in Seq(Names) /\ Len(q) = a + 1 /\ q[a + 1] = name /\ \A i \in 1 .. a : q[i] = path[i]
  BY <1>1, AppendProperties
<1>3. ASSUME Through(path, name, p) PROVE Begins(q, p) \/ p = q
  <2>1. a < n /\ \A i \in 1 .. a + 1 : q[i] = p[i]
    BY <1>1, <1>2, <1>3 DEF Begins, Through
  <2>2. CASE n = a + 1
    BY <1>1, <1>2, <2>1, <2>2, SameElements
  <2>3. CASE n # a + 1
    BY <1>1, <1>2, <2>1, <2>3 DEF Begins
  <2> QED BY <2>2, <2>3
<1>4. ASSUME Begins(q, p) \/ p = q PROVE Through(path, name, p)
  BY <1>1, <1>2, <1>4 DEF Begins, Through
<1> QED BY <1>3, <1>4

Splits(S, z, x, y) == z = x \o y /\ x \in Seq(S) /\ y \in Seq(S)

\* Looking at an item takes what is due for it from what is left.
LEMMA LeftAdvances ==
    ASSUME NEW S, JsonSet(S), NEW p \in Seq(Names), NEW path \in Seq(Names),
           NEW ms \in Seq(Names \X S), ms # <<>>,
           NEW f, f.at = "items", f.path = path, f.rest = ms,
           NEW g, g.at = "items", g.path = path, g.rest = Tail(ms)
    PROVE  Splits(S, Left(f, p), Due(path, Head(ms), p), Left(g, p))
<1>1. PICK v : v = Head(ms)[2] /\ v \in S /\ Tail(ms) \in Seq(Names \X S)
  BY PickedTail
<1>2. <<>> \in Seq(S) /\ <<v>> \in Seq(S) /\ <<>> \o <<>> = <<>>
  BY <1>1, EmptySeq, ConcatEmptySeq
<1>3. CASE ~Begins(path, p)
  BY <1>2, <1>3 DEF Left, Due, Splits
<1>4. CASE Begins(path, p)
  <2>1. PICK a : a = Len(path) + 1 /\ a \in 0 .. Len(p)
    BY <1>4, BeginsShorter
  <2>2. PICK name : name = p[a]
    OBVIOUS
  <2>3. PICK ws : ws = FlattenSeq(Picked(Tail(ms), name)) /\ ws \in Seq(S)
    BY PickedTail
  <2>4. Left(g, p) = CarryFrom(ws, p, a)
    BY <1>4, <2>1, <2>2, <2>3 DEF Left
  <2>5. Left(f, p) = CarryFrom(FlattenSeq(Picked(ms, name)), p, a)
    BY <1>4, <2>1, <2>2 DEF Left
  <2>6. CarryFrom(ws, p, a) \in Seq(S) /\ CarryFrom(<<v>>, p, a) \in Seq(S)
    BY <1>2, <2>1, <2>3, CarryType, Zenon
  <2>7. CASE Head(ms)[1] = name
    <3>1. Due(path, Head(ms), p) = CarryFrom(<<v>>, p, a)
      BY <1>1, <1>4, <2>1, <2>2, <2>7 DEF Due
    <3>2. FlattenSeq(Picked(ms, name)) = <<v>> \o ws
      <4>1. Given(Head(ms), name) = <<v>>
        BY <1>1, <2>7 DEF Given
      <4> QED BY <2>3, <4>1, PickedHead, Zenon
    <3>3. CarryFrom(<<v>> \o ws, p, a) = CarryFrom(<<v>>, p, a) \o CarryFrom(ws, p, a)
      <4>1. CarriesBoth(S, p, a)
        BY <2>1, CarryBoth
      <4> QED BY <1>2, <2>3, <4>1, Zenon DEF CarriesBoth
    <3> QED BY <2>4, <2>5, <2>6, <3>1, <3>2, <3>3, Zenon DEF Splits
  <2>8. CASE Head(ms)[1] # name
    <3>1. Due(path, Head(ms), p) = <<>>
      BY <2>1, <2>2, <2>8 DEF Due
    <3>2. FlattenSeq(Picked(ms, name)) = ws
      BY <2>3, <2>8, PickedSkips, Zenon
    <3>3. <<>> \o CarryFrom(ws, p, a) = CarryFrom(ws, p, a)
      BY <2>6, ConcatEmptySeq
    <3> QED BY <1>2, <2>4, <2>5, <2>6, <3>1, <3>2, <3>3, Zenon DEF Splits
  <2> QED BY <2>7, <2>8
<1> QED BY <1>3, <1>4

\* An item that is an object leaves its own items to say.
LEMMA DueNested ==
    ASSUME NEW S, JsonSet(S), NEW p \in Seq(Names), NEW path \in Seq(Names), NEW name \in Names,
           NEW x, x[1] = name, x[2] \in S, x[2][1] = "object", p # Append(path, name),
           NEW g, g.at = "items", g.path = Append(path, name), g.rest = x[2][2]
    PROVE  Due(path, x, p) = Left(g, p)
<1>1. PICK q : q = Append(path, name)
  OBVIOUS
<1>0. q \in Seq(Names) /\ Len(q) = Len(path) + 1
  BY <1>1, PushTop
<1>2. CASE ~Begins(q, p)
  <2>1. ~Through(path, name, p)
    BY <1>1, <1>2, BeginsNext, Zenon
  <2> QED BY <1>1, <1>2, <2>1, Zenon DEF Due, Left, Through
<1>3. CASE Begins(q, p)
  <2>1. PICK a \in Nat : a = Len(q) /\ a + 1 <= Len(p)
    BY <1>0, <1>3, LenProperties DEF Begins
  <2>2. PICK v : v = x[2]
    OBVIOUS
  <2>3. Due(path, x, p) = CarryFrom(<<v>>, p, a)
    <3>1. Through(path, name, p)
      BY <1>1, <1>3, BeginsNext, Zenon
    <3> QED BY <1>0, <2>1, <2>2, <3>1 DEF Due, Through
  <2>4. CarryFrom(<<v>>, p, a) = CarryFrom(Onward(<<v>>, p[a + 1]), p, a + 1)
    BY <2>1, CarrySteps
  <2>5. Onward(<<v>>, p[a + 1]) = Named(v, p[a + 1])
    BY <2>2, OnwardOne
  <2>6. Named(v, p[a + 1]) = FlattenSeq(Picked(v[2], p[a + 1]))
    BY <2>2 DEF Named, Picked
  <2>7. Left(g, p) = CarryFrom(FlattenSeq(Picked(v[2], p[a + 1])), p, a + 1)
    BY <1>1, <1>3, <2>1, <2>2, Zenon DEF Left
  <2> QED BY <2>3, <2>4, <2>5, <2>6, <2>7, Zenon
<1> QED BY <1>2, <1>3

\* One that is none says itself, for its own path.
LEMMA DueMember ==
    ASSUME NEW S, JsonSet(S), NEW p \in Seq(Names), NEW path \in Seq(Names), NEW name \in Names,
           NEW x, x[1] = name, x[2] \in S, x[2][1] # "object"
    PROVE  Due(path, x, p) = IF p = Append(path, name) THEN <<x[2]>> ELSE <<>>
<1>1. PICK q : q = Append(path, name)
  OBVIOUS
<1>0. q \in Seq(Names) /\ Len(q) = Len(path) + 1
  BY <1>1, PushTop
<1>2. CASE p = q
  <2>1. Due(path, x, p) = CarryFrom(<<x[2]>>, p, Len(p))
    <3>1. Through(path, name, p)
      BY <1>1, <1>2, BeginsNext, Zenon
    <3> QED BY <1>0, <1>2, <3>1 DEF Due, Through
  <2> QED BY <1>1, <1>2, <2>1, CarryEnds
<1>3. CASE p # q /\ ~Begins(q, p)
  <2>1. ~Through(path, name, p)
    BY <1>1, <1>3, BeginsNext, Zenon
  <2> QED BY <1>1, <1>3, <2>1, Zenon DEF Due, Through
<1>4. CASE p # q /\ Begins(q, p)
  <2>1. PICK a \in Nat : a = Len(q) /\ a + 1 <= Len(p) /\ a + 1 \in 0 .. Len(p)
    BY <1>0, <1>4, LenProperties DEF Begins
  <2>2. PICK v : v = x[2]
    OBVIOUS
  <2>3. Due(path, x, p) = CarryFrom(<<v>>, p, a)
    <3>1. Through(path, name, p)
      BY <1>1, <1>4, BeginsNext, Zenon
    <3> QED BY <1>0, <2>1, <2>2, <3>1 DEF Due, Through
  <2>4. CarryFrom(<<v>>, p, a) = CarryFrom(Onward(<<v>>, p[a + 1]), p, a + 1)
    BY <2>1, CarrySteps
  <2>5. Onward(<<v>>, p[a + 1]) = Named(v, p[a + 1])
    BY <2>2, OnwardOne
  <2>6. Named(v, p[a + 1]) = <<>>
    BY <2>2 DEF Named
  <2>7. CarryFrom(<<>>, p, a + 1) = <<>>
    BY <2>1, CarryNone, Zenon
  <2> QED BY <1>1, <1>4, <2>3, <2>4, <2>5, <2>6, <2>7, Zenon
<1> QED BY <1>2, <1>3, <1>4

\* What an object says for a path, from its items.
LEMMA ObjectSays ==
    ASSUME NEW S, JsonSet(S), NEW v \in S, v[1] = "object", NEW p \in Seq(Names), p # <<>>
    PROVE  Mentions(v, p) = CarryFrom(FlattenSeq(Picked(v[2], p[1])), p, 1)
<1>1. Len(p) \in Nat /\ 0 + 1 = 1 /\ 0 + 1 <= Len(p)
  BY LenProperties, EmptySeq
<1>2. Mentions(v, p) = CarryFrom(<<v>>, p, 0)
  BY MentionsCarried
<1>3. CarryFrom(<<v>>, p, 0) = CarryFrom(Onward(<<v>>, p[0 + 1]), p, 0 + 1)
  BY <1>1, CarrySteps
<1>4. Onward(<<v>>, p[1]) = Named(v, p[1])
  BY OnwardOne
<1>5. Named(v, p[1]) = FlattenSeq(Picked(v[2], p[1]))
  BY DEF Named, Picked
<1> QED BY <1>1, <1>2, <1>3, <1>4, <1>5, Zenon

LEMMA LeftOfObject ==
    ASSUME NEW S, JsonSet(S), NEW v \in S, v[1] = "object", NEW p \in Seq(Names), p # <<>>,
           NEW f, f.at = "items", f.path = <<>>, f.rest = v[2]
    PROVE  Left(f, p) = Mentions(v, p)
<1>1. Len(f.path) = 0 /\ 0 + 1 = 1 /\ Begins(f.path, p)
  BY LenProperties, EmptySeq DEF Begins
<1> QED BY <1>1, ObjectSays, Zenon DEF Left

\* An order has each name once.
HasOnce(order, name) ==
    \E i \in DOMAIN order : order[i] = name /\ \A j \in DOMAIN order : order[j] = name => j = i

LEMMA OrderHasAll ==
    ASSUME NEW K, IsFiniteSet(K), NEW order \in SetToSeqs(K), NEW name \in K
    PROVE  HasOnce(order, name)
<1>1. PICK n \in Nat : n = Cardinality(K)
  BY FS_CardinalityType
<1>2. order \in [1 .. n -> K] /\ \A i, j \in 1 .. n : i # j => order[i] # order[j]
  BY <1>1 DEF SetToSeqs
<1>3. order \in Injection(1 .. n, K)
  BY <1>2 DEF Injection, IsInjective
<1>4. Cardinality(1 .. n) = n
  BY FS_Interval
<1>5. order \in Surjection(1 .. n, K)
  BY <1>1, <1>3, <1>4, FS_Injection
<1>6. PICK i \in 1 .. n : order[i] = name
  BY <1>5 DEF Surjection
<1> QED BY <1>2, <1>6 DEF HasOnce

LEMMA FirstOfIsJson ==
    ASSUME NEW S, JsonSet(S), NEW v \in S, v[1] = "object", NEW name
    PROVE  LET w == FirstOf(v, name)
           IN  w[1] = "object" /\ \E T : S \subseteq T /\ JsonSet(T) /\ w \in T
<1>1. PICK ms : ms = v[2] /\ ms \in Seq(Names \X S)
  BY ContentType
<1>2. PICK w : w = FirstOf(v, name)
  OBVIOUS
<1> DEFINE named == {i \in DOMAIN ms : ms[i][1] = name}
<1>3. w = <<"object", IF named = {} THEN <<>> ELSE <<ms[Min(named)]>>>>
  BY <1>1, <1>2 DEF FirstOf
<1>4. PICK U : U = Names \X S
  OBVIOUS
<1>5. w[2] \in Seq(U)
  <2>1. CASE named = {}
    BY <1>3, <2>1, EmptySeq
  <2>2. CASE named # {}
    <3>1. DOMAIN ms \subseteq Nat
      BY <1>1, LenProperties
    <3>2. Min(named) \in DOMAIN ms
      BY <2>2, <3>1, MinIsLeast
    <3>3. ms[Min(named)] \in U
      BY <1>1, <1>4, <3>2, ElementOfSeq, LenProperties
    <3> QED BY <1>3, <2>2, <3>3
  <2> QED BY <2>1, <2>2
<1>6. w = <<"object", w[2]>> /\ w[1] = "object"
  BY <1>3
<1>7. JsonSet(S \cup {w}) /\ S \subseteq S \cup {w} /\ w \in S \cup {w}
  BY <1>4, <1>5, <1>6, ObjectIsJson
<1> QED BY <1>2, <1>6, <1>7

\* The items that from_json_value begins with say what the first members of
\* the object say.
LEMMA StartSays ==
    ASSUME NEW S, JsonSet(S), NEW v \in S, v[1] = "object", NEW K, IsFiniteSet(K), K \subseteq Names,
           NEW order \in SetToSeqs(K), NEW p \in Seq(Names), p # <<>>, p[1] \in K,
           NEW f, f.at = "items", f.path = <<>>,
           f.rest = [i \in DOMAIN order |-> <<order[i], Find(v[2], order[i])>>],
           \A i \in DOMAIN f.rest : f.rest[i][2] # Missing
    PROVE  Left(f, p) = Mentions(FirstOf(v, p[1]), p)
<1>1. PICK name : name = p[1]
  OBVIOUS
<1>2. PICK ms : ms = v[2] /\ ms \in Seq(Names \X S)
  BY ContentType
<1>3. PICK n \in Nat : DOMAIN order = 1 .. n /\ \A i \in 1 .. n : order[i] \in Names
  <2>1. order \in Seq(K) /\ DOMAIN order = 1 .. Cardinality(K) /\ Cardinality(K) \in Nat
    BY OrderType
  <2> QED BY <2>1
<1>4. PICK is : is = [i \in 1 .. n |-> <<order[i], Find(ms, order[i])>>] /\ is = f.rest
  BY <1>2, <1>3
<1>5. \A i \in 1 .. n : Find(ms, order[i]) \in S /\ is[i][1] = order[i] /\ is[i][2] = Find(ms, order[i])
  <2> TAKE i \in 1 .. n
  <2>1. is[i] = <<order[i], Find(ms, order[i])>> /\ i \in DOMAIN is
    BY <1>4
  <2>2. Find(ms, order[i]) # Missing
    BY <1>4, <2>1
  <2>3. PICK k \in DOMAIN ms : Find(ms, order[i]) = ms[k][2]
    BY <1>2, <2>2, FindType
  <2>4. ms[k] \in Names \X S
    BY <1>2, ElementOfSeq, LenProperties
  <2> QED BY <2>1, <2>3, <2>4
<1>6. PICK U : U = Names \X S
  OBVIOUS
<1>7. is \in Seq(U) /\ Len(is) = n /\ DOMAIN is = 1 .. n
  BY <1>3, <1>4, <1>5, <1>6
<1>8. PICK j \in 1 .. n : order[j] = name /\ \A i \in 1 .. n : order[i] = name => i = j
  <2>1. name \in K
    BY <1>1
  <2>2. \E j \in DOMAIN order : order[j] = name /\ \A i \in DOMAIN order : order[i] = name => i = j
    BY <2>1, OrderHasAll DEF HasOnce
  <2> QED BY <1>3, <2>2
<1>9. PICK x : x = Find(ms, name) /\ x \in S /\ x # Missing
  BY <1>4, <1>5, <1>7, <1>8
<1>10. FlattenSeq(Picked(is, name)) = <<x>>
  <2>1. PICK ss : ss = Picked(is, name)
    OBVIOUS
  <2>2. PICK V : V = Seq(S)
    OBVIOUS
  <2>3. ss \in Seq(V) /\ Len(ss) = n
    BY <1>6, <1>7, <2>1, <2>2, PickedType
  <2>4. \A i \in 1 .. n : ss[i] = IF is[i][1] = name THEN <<is[i][2]>> ELSE <<>>
    BY <1>7, <2>1, Zenon DEF Picked
  <2>5. \A i \in 1 .. n : i # j => ss[i] = <<>>
    BY <1>5, <1>8, <2>4, Zenon
  <2>6. ss[j] = <<x>>
    BY <1>5, <1>8, <1>9, <2>4, Zenon
  <2>7. FlattenSeq(ss) = ss[j]
    BY <2>2, <2>3, <2>5, FlattenSole
  <2> QED BY <2>1, <2>6, <2>7
<1>11. Left(f, p) = CarryFrom(<<x>>, p, 1)
  <2>1. Len(f.path) = 0 /\ 0 + 1 = 1 /\ Begins(f.path, p)
    BY LenProperties, EmptySeq DEF Begins
  <2> QED BY <1>1, <1>4, <1>10, <2>1, Zenon DEF Left
<1>12. PICK w : w = FirstOf(v, name)
  OBVIOUS
<1>13. PICK T : S \subseteq T /\ JsonSet(T) /\ w \in T /\ w[1] = "object"
  BY <1>12, FirstOfIsJson
<1>14. Mentions(w, p) = CarryFrom(FlattenSeq(Picked(w[2], name)), p, 1)
  BY <1>1, <1>13, ObjectSays
<1>15. FlattenSeq(Picked(w[2], name)) = <<x>>
  <2> DEFINE named == {i \in DOMAIN ms : ms[i][1] = name}
  <2>1. named # {}
    <3>1. PICK k \in DOMAIN ms : ms[k][1] = name
      BY <1>2, <1>9, FindType
    <3> QED BY <3>1
  <2>2. DOMAIN ms \subseteq Nat
    BY <1>2, LenProperties
  <2>3. PICK k : k = Min(named) /\ k \in named
    BY <2>1, <2>2, MinIsLeast
  <2>4. w[2] = <<ms[k]>> /\ ms[k][1] = name
    BY <1>2, <1>12, <2>1, <2>3 DEF FirstOf
  <2>5. x = ms[k][2]
    BY <1>9, <2>1, <2>3 DEF Find
  <2>6. PICK us : us = w[2]
    OBVIOUS
  <2>7. Picked(us, name) = <<<<x>>>>
    <3>1. DOMAIN us = {1} /\ us[1] = ms[k]
      BY <2>4, <2>6
    <3>2. Picked(us, name) = [i \in {1} |-> <<x>>]
      BY <2>4, <2>5, <3>1 DEF Picked
    <3> QED BY <3>2
  <2>8. <<x>> \in Seq(S)
    BY <1>9
  <2>9. FlattenSeq(<<<<x>>>>) = <<x>>
    BY <2>8, FlattenOne
  <2> QED BY <2>6, <2>7, <2>9
<1> QED BY <1>1, <1>11, <1>12, <1>14, <1>15

-----------------------------------------------------------------------------
\* What a member holds, and the values for it that are left: L[k] are those of
\* the k-th of n loops, of which the innermost goes on first, and M are all
\* that there are.

Final(link, M, old) == IF M # <<>> THEN Held(link, Last(M)) ELSE old
Agreed(L, n, M, now, old, link) ==
    /\ (\A k \in 1 .. n : L[k] = <<>>) => now = Final(link, M, old)
    /\ \A k \in 1 .. n :
          L[k] # <<>> /\ (\A j \in 1 .. k - 1 : L[j] = <<>>) => M # <<>> /\ Last(M) = Last(L[k])

\* The innermost loop hands the values x to the member.
LEMMA AgreedAdvances ==
    ASSUME NEW T, NEW n \in Nat \ {0}, NEW L, NEW H, NEW x \in Seq(T), NEW y \in Seq(T),
           L[n] = x \o y, H[n] = y, \A k \in 1 .. n - 1 : H[k] = L[k],
           NEW M, NEW now, NEW new, NEW old, NEW link, Agreed(L, n, M, now, old, link),
           IF x = <<>> THEN new = now ELSE new = Held(link, Last(x))
    PROVE  Agreed(H, n, M, new, old, link)
<1>1. /\ L[n] = <<>> <=> x = <<>> /\ y = <<>>
      /\ y # <<>> => Last(L[n]) = Last(y)
      /\ y = <<>> => L[n] = x
  BY LastOfConcat
<1>2. n \in 1 .. n /\ \A k \in 1 .. n : k = n \/ k \in 1 .. n - 1
  OBVIOUS
<1>3. \A k \in 1 .. n - 1 : k \in 1 .. n /\ \A j \in 1 .. k - 1 : j \in 1 .. n - 1
  OBVIOUS
<1>4. ASSUME \A k \in 1 .. n : H[k] = <<>> PROVE new = Final(link, M, old)
  <2>1. \A k \in 1 .. n - 1 : L[k] = <<>>
    BY <1>3, <1>4
  <2>2. L[n] = x
    BY <1>1, <1>2, <1>4
  <2>3. CASE x = <<>>
    <3>1. \A k \in 1 .. n : L[k] = <<>>
      BY <1>2, <2>1, <2>2, <2>3
    <3> QED BY <2>3, <3>1 DEF Agreed
  <2>4. CASE x # <<>>
    <3>1. M # <<>> /\ Last(M) = Last(L[n])
      BY <1>2, <2>1, <2>2, <2>4, Zenon DEF Agreed
    <3> QED BY <2>2, <2>4, <3>1 DEF Final
  <2> QED BY <2>3, <2>4
<1>5. ASSUME NEW k \in 1 .. n, H[k] # <<>>, \A j \in 1 .. k - 1 : H[j] = <<>>
      PROVE  M # <<>> /\ Last(M) = Last(H[k])
  <2>1. CASE k \in 1 .. n - 1
    <3>1. L[k] = H[k] /\ L[k] # <<>> /\ k \in 1 .. n /\ \A j \in 1 .. k - 1 : L[j] = <<>>
      BY <1>3, <1>5, <2>1
    <3>2. M # <<>> /\ Last(M) = Last(L[k])
      BY <3>1, Zenon DEF Agreed
    <3> QED BY <3>1, <3>2
  <2>2. CASE k = n
    <3>1. L[n] # <<>> /\ Last(L[n]) = Last(H[k]) /\ \A j \in 1 .. n - 1 : L[j] = <<>>
      BY <1>1, <1>5, <2>2
    <3> QED BY <1>2, <3>1, Zenon DEF Agreed
  <2> QED BY <1>2, <2>1, <2>2
<1> QED BY <1>4, <1>5, Zenon DEF Agreed

\* It hands them to a loop within it.
LEMMA AgreedNests ==
    ASSUME NEW T, NEW n \in Nat \ {0}, NEW L, NEW H, NEW x \in Seq(T), NEW y \in Seq(T),
           L[n] = x \o y, H[n + 1] = x, H[n] = y, \A k \in 1 .. n - 1 : H[k] = L[k],
           NEW M, NEW now, NEW old, NEW link, Agreed(L, n, M, now, old, link)
    PROVE  Agreed(H, n + 1, M, now, old, link)
<1>1. /\ L[n] = <<>> <=> x = <<>> /\ y = <<>>
      /\ y # <<>> => Last(L[n]) = Last(y)
      /\ y = <<>> => L[n] = x
  BY LastOfConcat
<1>2. n \in 1 .. n /\ n \in 1 .. n + 1 /\ n + 1 \in 1 .. n + 1 /\ (n + 1) - 1 = n
      /\ (\A k \in 1 .. n : k = n \/ k \in 1 .. n - 1)
      /\ \A k \in 1 .. n + 1 : k = n + 1 \/ k \in 1 .. n
  OBVIOUS
<1>3. \A k \in 1 .. n - 1 : k \in 1 .. n /\ k \in 1 .. n + 1 /\ \A j \in 1 .. k - 1 : j \in 1 .. n - 1
  OBVIOUS
<1>4. ASSUME \A k \in 1 .. n + 1 : H[k] = <<>> PROVE now = Final(link, M, old)
  <2>1. \A k \in 1 .. n - 1 : L[k] = <<>>
    BY <1>3, <1>4
  <2>2. L[n] = <<>>
    BY <1>1, <1>2, <1>4
  <2>3. \A k \in 1 .. n : L[k] = <<>>
    BY <1>2, <2>1, <2>2
  <2> QED BY <2>3 DEF Agreed
<1>5. ASSUME NEW k \in 1 .. n + 1, H[k] # <<>>, \A j \in 1 .. k - 1 : H[j] = <<>>
      PROVE  M # <<>> /\ Last(M) = Last(H[k])
  <2>1. CASE k \in 1 .. n - 1
    <3>1. L[k] = H[k] /\ L[k] # <<>> /\ k \in 1 .. n /\ \A j \in 1 .. k - 1 : L[j] = <<>>
      BY <1>3, <1>5, <2>1
    <3>2. M # <<>> /\ Last(M) = Last(L[k])
      BY <3>1, Zenon DEF Agreed
    <3> QED BY <3>1, <3>2
  <2>2. CASE k = n
    <3>1. L[n] # <<>> /\ Last(L[n]) = Last(H[k]) /\ \A j \in 1 .. n - 1 : L[j] = <<>>
      BY <1>1, <1>5, <2>2
    <3> QED BY <1>2, <3>1, Zenon DEF Agreed
  <2>3. CASE k = n + 1
    <3>1. \A j \in 1 .. n : H[j] = <<>>
      BY <1>2, <1>5, <2>3
    <3>2. y = <<>> /\ x # <<>> /\ \A j \in 1 .. n - 1 : L[j] = <<>>
      BY <1>2, <1>3, <1>5, <2>3, <3>1
    <3>3. L[n] # <<>> /\ Last(L[n]) = Last(H[k])
      BY <1>1, <2>3, <3>2
    <3> QED BY <1>2, <3>2, <3>3, Zenon DEF Agreed
  <2> QED BY <1>2, <2>1, <2>2, <2>3
<1> QED BY <1>4, <1>5, Zenon DEF Agreed

\* It ends.
LEMMA AgreedPops ==
    ASSUME NEW n \in Nat \ {0}, NEW L, NEW H, L[n] = <<>>, \A k \in 1 .. n - 1 : H[k] = L[k],
           NEW M, NEW now, NEW old, NEW link, Agreed(L, n, M, now, old, link)
    PROVE  Agreed(H, n - 1, M, now, old, link)
<1>1. \A k \in 1 .. n : k = n \/ k \in 1 .. n - 1
  OBVIOUS
<1>2. \A k \in 1 .. n - 1 : k \in 1 .. n /\ \A j \in 1 .. k - 1 : j \in 1 .. n - 1
  OBVIOUS
<1>3. ASSUME \A k \in 1 .. n - 1 : H[k] = <<>> PROVE now = Final(link, M, old)
  <2>1. \A k \in 1 .. n : L[k] = <<>>
    BY <1>1, <1>3
  <2> QED BY <2>1 DEF Agreed
<1>4. ASSUME NEW k \in 1 .. n - 1, H[k] # <<>>, \A j \in 1 .. k - 1 : H[j] = <<>>
      PROVE  M # <<>> /\ Last(M) = Last(H[k])
  <2>1. L[k] = H[k] /\ L[k] # <<>> /\ k \in 1 .. n /\ \A j \in 1 .. k - 1 : L[j] = <<>>
    BY <1>2, <1>4
  <2>2. M # <<>> /\ Last(M) = Last(L[k])
    BY <2>1, Zenon DEF Agreed
  <2> QED BY <2>1, <2>2
<1> QED BY <1>3, <1>4, Zenon DEF Agreed

\* It begins with all that there are.
LEMMA AgreedBegins ==
    ASSUME NEW n \in Nat \ {0}, NEW L, NEW M, L[n] = M, \A k \in 1 .. n - 1 : L[k] = <<>>,
           NEW old, NEW link
    PROVE  Agreed(L, n, M, old, old, link)
<1>1. n \in 1 .. n /\ \A k \in 1 .. n : k = n \/ k \in 1 .. n - 1
  OBVIOUS
<1>2. ASSUME \A k \in 1 .. n : L[k] = <<>> PROVE old = Final(link, M, old)
  BY <1>1, <1>2 DEF Final
<1>3. ASSUME NEW k \in 1 .. n, L[k] # <<>>, \A j \in 1 .. k - 1 : L[j] = <<>>
      PROVE  M # <<>> /\ Last(M) = Last(L[k])
  BY <1>1, <1>3
<1> QED BY <1>2, <1>3, Zenon DEF Agreed

-----------------------------------------------------------------------------
\* The classes along a path, and what their maps have of it.

ClassAt(p, i) == LinkAt(SubSeq(p, 1, i - 1)).kind

LEMMA MemberClasses ==
    ASSUME NEW w \in Members, NEW p, p = w[1]
    PROVE  \A i \in DOMAIN p : ClassAt(p, i) \in Classes
<1> DEFINE Good(k) == \A i \in 1 .. Len(k[1]) : ClassAt(k[1], i) \in Classes
           P == {d \in Nat : d <= Depth => \A k \in Inside[d] : Good(k)}
<1>1. 0 \in P
  <2>1. \A m \in Inside[0] : Len(m[1]) = 0
    BY InsideType, DepthIsNat
  <2> QED BY <2>1
<1>2. ASSUME NEW d \in Nat, d \in P PROVE d + 1 \in P
  <2> SUFFICES ASSUME d + 1 <= Depth, NEW m \in Inside[d + 1], NEW i \in 1 .. Len(m[1])
               PROVE  ClassAt(m[1], i) \in Classes
    OBVIOUS
  <2>1. Inside[d + 1] = Within(Inside[d]) /\ d \in 0 .. Depth
    BY InsideUnfolds, DepthIsNat
  <2>2. PICK o, l : /\ o \in Inside[d] /\ o[2].kind \in Classes /\ l \in Range(Links[o[2].kind])
                   /\ m = <<Append(o[1], l.name), l>>
    BY <2>1 DEF Within, MembersOf
  <2>3. o \in Members /\ o[1] \in Seq(Names) /\ Len(o[1]) = d /\ LinkAt(o[1]) = o[2]
    <3>1. o \in Members
      BY <2>1, <2>2 DEF Members, Depth
    <3> QED BY <2>1, <2>2, <3>1, InsideType, MemberType
  <2>4. l.name \in Names
    BY <2>2, LinkType DEF LinkSet
  <2>5. PICK q, r : q = o[1] /\ r = m[1]
    OBVIOUS
  <2>6. r \in Seq(Names) /\ Len(r) = d + 1 /\ \A j \in 1 .. d : r[j] = q[j]
    BY <2>2, <2>3, <2>4, <2>5, AppendProperties
  <2>7. q \in Seq(Names) /\ Len(q) = d
    BY <2>3, <2>5
  <2>8. SubSeq(r, 1, i - 1) = SubSeq(q, 1, i - 1)
    <3>1. i - 1 \in 0 .. d + 1 /\ i - 1 \in 0 .. d /\ \A j \in 1 .. i - 1 : j \in 1 .. d
      BY <2>5, <2>6
    <3> QED BY <2>6, <2>7, <3>1, BeginningSame
  <2>9. CASE i \in 1 .. d
    <3>1. ClassAt(q, i) \in Classes
      <4>1. \A k \in Inside[d] : Good(k)
        BY <1>2, <2>1, DepthIsNat
      <4>2. Good(o)
        BY <2>2, <4>1
      <4> QED BY <2>5, <2>7, <2>9, <4>2
    <3> QED BY <2>5, <2>8, <3>1 DEF ClassAt
  <2>10. CASE i = d + 1
    <3>1. SubSeq(q, 1, i - 1) = q
      <4>1. i - 1 = Len(q)
        BY <2>7, <2>10
      <4> QED BY <2>7, <4>1, BeginningAll, Zenon
    <3> QED BY <2>2, <2>3, <2>5, <2>8, <3>1 DEF ClassAt
  <2> QED BY <2>5, <2>6, <2>9, <2>10
<1> HIDE DEF P
<1>3. Nat \subseteq P
  BY <1>1, <1>2, NumberInduction
<1>4. p \in Seq(Names)
  BY MemberType
<1>5. PICK d \in 0 .. Depth : w \in Inside[d]
  BY DEF Members, Depth
<1>6. d \in P /\ d <= Depth
  BY <1>3, DepthIsNat
<1>7. Good(w)
  BY <1>5, <1>6 DEF P
<1> QED BY <1>4, <1>7, LenProperties

\* The class has been asked for its map since map_to_json ran, or has no links.
Asked(c) == registered[c] # 0 \/ Links[c] = <<>>

\* Some name on the path is not linked, and will not be.
Dead(p) == \E i \in DOMAIN p : Asked(ClassAt(p, i)) /\ p[i] \notin Known(ClassAt(p, i))

LEMMA LinkedIs ==
    ASSUME NEW p
    PROVE  Linked(p) <=> \A i \in DOMAIN p : p[i] \in Known(ClassAt(p, i))
  BY DEF Linked, ClassAt

LEMMA LinkedLives == ASSUME NEW p, Linked(p) PROVE ~Dead(p)
  BY LinkedIs DEF Dead

LEMMA MapsGrow ==
    ASSUME MapsInRange, registered' = registered \/ Register, NEW m \in Members, NEW p, p = m[1]
    PROVE  (Linked(p) => Linked(p)') /\ (Dead(p) => Dead(p)')
<1>1. ASSUME NEW c \in Classes
      PROVE  Known(c) \subseteq Known(c)' /\ (Asked(c) => Asked(c)' /\ Known(c)' = Known(c))
  <2>1. CASE registered'[c] = registered[c]
    BY <2>1 DEF Known, Asked
  <2>2. CASE registered'[c] # registered[c]
    <3>1. c = Top.class /\ registered[c] = 0 /\ Links[c] # <<>>
      BY <2>2 DEF Register, Unregistered, MapsInRange
    <3>2. Known(c) = {}
      BY <3>1 DEF Known
    <3> QED BY <3>1, <3>2 DEF Asked
  <2> QED BY <2>1, <2>2
<1>2. \A i \in DOMAIN p : ClassAt(p, i) \in Classes
  BY MemberClasses
<1>3. Linked(p) => Linked(p)'
  BY <1>1, <1>2 DEF Linked, ClassAt
<1>4. Dead(p) => Dead(p)'
  BY <1>1, <1>2 DEF Dead
<1> QED BY <1>3, <1>4

LEMMA PathsGrow ==
    ASSUME MapsInRange, registered' = registered \/ Register, NEW p \in Paths
    PROVE  (Linked(p) => Linked(p)') /\ (Dead(p) => Dead(p)')
<1>1. PICK m \in Members : p = m[1]
  BY DEF Paths
<1> QED BY <1>1, MapsGrow

\* A path that goes through the member of that name of an object at path.
LEMMA ThroughClass ==
    ASSUME NEW path \in Seq(Names), NEW name, NEW p \in Seq(Names), Through(path, name, p)
    PROVE  LET i == Len(path) + 1
           IN  i \in DOMAIN p /\ p[i] = name /\ ClassAt(p, i) = LinkAt(path).kind
<1>1. PICK n \in Nat, m \in Nat : n = Len(path) /\ m = Len(p)
  BY LenProperties
<1>2. n < m /\ (\A j \in 1 .. n : p[j] = path[j]) /\ p[n + 1] = name
  BY <1>1 DEF Through, Begins
<1>3. SubSeq(p, 1, n) = SubSeq(path, 1, n)
  BY <1>1, <1>2, BeginningSame
<1>4. SubSeq(path, 1, n) = path
  BY <1>1, BeginningAll
<1>5. n + 1 \in DOMAIN p
  BY <1>1, <1>2, LenProperties
<1>6. (n + 1) - 1 = n
  OBVIOUS
<1> QED BY <1>1, <1>2, <1>3, <1>4, <1>5, <1>6 DEF ClassAt

LEMMA LinkedNext ==
    ASSUME NEW path \in Seq(Names), NEW name \in Names, Linked(path), name \in Known(LinkAt(path).kind)
    PROVE  Linked(Append(path, name))
<1>1. PICK n \in Nat : n = Len(path)
  BY LenProperties
<1>2. PICK p : p = Append(path, name)
  OBVIOUS
<1>3. p \in Seq(Names) /\ Len(p) = n + 1 /\ p[n + 1] = name /\ \A i \in 1 .. n : p[i] = path[i]
  BY <1>1, <1>2, AppendProperties
<1>4. DOMAIN p = 1 .. n + 1 /\ DOMAIN path = 1 .. n
  BY <1>1, <1>3, LenProperties
<1>5. \A i \in 0 .. n : SubSeq(p, 1, i) = SubSeq(path, 1, i)
  <2> TAKE i \in 0 .. n
  <2>1. i \in 0 .. n + 1 /\ \A j \in 1 .. i : j \in 1 .. n
    OBVIOUS
  <2> QED BY <1>1, <1>3, <2>1, BeginningSame
<1>6. ASSUME NEW i \in 1 .. n PROVE p[i] \in Known(ClassAt(p, i))
  <2>1. i - 1 \in 0 .. n
    OBVIOUS
  <2>2. ClassAt(p, i) = ClassAt(path, i)
    BY <1>5, <2>1 DEF ClassAt
  <2> QED BY <1>3, <1>4, <2>2, LinkedIs
<1>7. p[n + 1] \in Known(ClassAt(p, n + 1))
  <2>1. (n + 1) - 1 = n /\ n \in 0 .. n
    OBVIOUS
  <2>2. SubSeq(path, 1, n) = path
    BY <1>1, BeginningAll
  <2>3. ClassAt(p, n + 1) = LinkAt(path).kind
    BY <1>5, <2>1, <2>2 DEF ClassAt
  <2> QED BY <1>3, <2>3
<1>8. \A i \in 1 .. n + 1 : i \in 1 .. n \/ i = n + 1
  OBVIOUS
<1>9. Linked(p)
  BY <1>4, <1>6, <1>7, <1>8, LinkedIs
<1> QED BY <1>2, <1>9

LEMMA NoneIsLinked == Linked(<<>>)
  BY DEF Linked
-----------------------------------------------------------------------------
\* What a read has said so far.

Says(o, v, p, old) ==
    /\ ~Linked(p) => o[p] = old[p]
    /\ ~Dead(p) => o[p] = Final(LinkAt(p), Mentions(v, p), old[p])

LEMMA SaysMeaning ==
    ASSUME NEW o, NEW v, NEW p, NEW old, Says(o, v, p, old)
    PROVE  o[p] = Meaning(v, p, old)
  BY LinkedLives DEF Says, Meaning, Final

\* The functions that read an object in place or into the result.
ReadOps == {"from_json_value", "from_json_string", "operator>>", "from_json_object",
            "array_from_json_value"}

\* The value that is read, what is read of it for p, and into what.
Base == IF op = "array_from_json_value" THEN 1 ELSE 0
Current == IF op = "array_from_json_value" THEN json[2][Len(calls[1].out) + 1] ELSE json
Source(p) == IF op = "from_json_object" THEN json ELSE FirstOf(Current, p[1])
Target == IF op = "from_json_object" THEN object ELSE result
Found == IF op = "from_json_object" THEN before ELSE Fresh

\* The loop has no item that find did not find.
Whole(f) == f.at = "items" => \A i \in DOMAIN f.rest : f.rest[i][2] # Missing
AllWhole(cs) == \A k \in 1 .. Len(cs) : Whole(cs[k])
Lefts(cs, p) == [k \in 1 .. Len(cs) |-> Left(cs[k], p)]

Progress(p) ==
    /\ ~Linked(p) => Target[p] = Found[p]
    /\ ~Dead(p) =>
           Agreed(Lefts(calls, p), Len(calls), Mentions(Source(p), p), Target[p], Found[p], LinkAt(p))

\* Before the object is looked at, within it, and between two elements.
Beginning ==
    /\ Len(calls) = Base + 1 /\ calls[Base + 1] = Reading(Current)
    /\ result = Fresh /\ op # "from_json_object"
InObject ==
    /\ Len(calls) > Base
    /\ \A k \in Base + 1 .. Len(calls) : calls[k].at = "items" /\ Linked(calls[k].path)
    /\ AllWhole(calls) => \A p \in Paths : Progress(p)
Between == Len(calls) = Base

\* The objects say what the first elements do.
SaidOf(out) == \A i \in DOMAIN out : \A p \in Paths : Says(out[i], FirstOf(json[2][i], p[1]), p, Fresh)

\* The elements that are left, and the objects that were made of the others.
Collected ==
    op = "array_from_json_value" =>
        /\ calls[1].at = "elements"
        /\ json[1] # "array" => Len(calls) = 1 /\ calls[1].rest = <<>>
        /\ json[1] = "array" =>
              /\ Len(calls[1].out) + Len(calls[1].rest) + (IF Len(calls) > 1 THEN 1 ELSE 0) = Len(json[2])
              /\ \A i \in DOMAIN calls[1].rest :
                    calls[1].rest[i] = json[2][Len(json[2]) - Len(calls[1].rest) + i]
              /\ SaidOf(calls[1].out)

SaidSoFar ==
    status = "running" /\ op \in ReadOps => Collected /\ (Beginning \/ InObject \/ Between)
ListSaid ==
    status = "returned" /\ op = "array_from_json_value" =>
        json[1] = "array" /\ Len(list) = Len(json[2]) /\ SaidOf(list)

LEMMA SaysGrows ==
    ASSUME MapsInRange, registered' = registered \/ Register,
           NEW p \in Paths, NEW o, NEW v, NEW old, Says(o, v, p, old)
    PROVE  Says(o, v, p, old)'
<1>1. (Linked(p) => Linked(p)') /\ (Dead(p) => Dead(p)')
  BY PathsGrow, Zenon
<1> QED BY <1>1 DEF Says

LEMMA SaidStays ==
    ASSUME MapsInRange, registered' = registered \/ Register, json' = json, NEW out, SaidOf(out)
    PROVE  SaidOf(out)'
<1>1. PICK w : w = json[2]
  OBVIOUS
<1>2. ASSUME NEW i \in DOMAIN out, NEW p \in Paths PROVE Says(out[i], FirstOf(w[i], p[1]), p, Fresh)'
  <2>1. PICK o, v : o = out[i] /\ v = FirstOf(w[i], p[1])
    OBVIOUS
  <2>2. Says(o, v, p, Fresh)
    BY <1>1, <2>1 DEF SaidOf
  <2>3. Says(o, v, p, Fresh)'
    BY <2>2, SaysGrows
  <2> QED BY <2>1, <2>3
<1>3. json'[2] = w
  BY <1>1
<1> QED BY <1>2, <1>3 DEF SaidOf

\* The steps within an element leave those before it.
LEMMA CollectedStays ==
    ASSUME MapsInRange, registered' = registered \/ Register, Collected, UNCHANGED <<op, json>>,
           op = "array_from_json_value" =>
               calls'[1] = calls[1] /\ (Len(calls') > 1 <=> Len(calls) > 1)
               /\ (Len(calls') = 1 <=> Len(calls) = 1)
    PROVE  Collected'
<1> SUFFICES ASSUME op = "array_from_json_value" PROVE Collected'
  BY DEF Collected
<1>1. PICK f : f = calls[1] /\ f = calls'[1]
  OBVIOUS
<1>2. json[1] = "array" => SaidOf(f.out)
  BY <1>1 DEF Collected
<1>3. json[1] = "array" => SaidOf(f.out)'
  BY <1>2, SaidStays
<1>4. f.at = "elements" /\ (json[1] # "array" => Len(calls) = 1 /\ f.rest = <<>>)
  BY <1>1 DEF Collected
<1>5. json[1] = "array" =>
          /\ Len(f.out) + Len(f.rest) + (IF Len(calls) > 1 THEN 1 ELSE 0) = Len(json[2])
          /\ \A i \in DOMAIN f.rest : f.rest[i] = json[2][Len(json[2]) - Len(f.rest) + i]
  BY <1>1 DEF Collected
<1>6. json[1] = "array" => SaidOf(calls[1].out)'
  BY <1>1, <1>3
<1> QED BY <1>1, <1>4, <1>5, <1>6, Zenon DEF Collected

-----------------------------------------------------------------------------
\* The steps of a read.

LEMMA ReplacedTop ==
    ASSUME NEW F, NEW cs \in Seq(F), cs # <<>>, NEW f \in F, NEW t, t = Append(Front(cs), f)
    PROVE  /\ Len(cs) \in Nat \ {0} /\ Len(t) = Len(cs) /\ t[Len(cs)] = f
           /\ \A k \in 1 .. Len(cs) - 1 : t[k] = cs[k]
<1>1. PICK n \in Nat : Len(cs) = n + 1 /\ Len(cs) - 1 = n
  <2>1. Len(cs) \in Nat \ {0}
    BY LastInSeq
  <2>2. \A k \in Nat \ {0} : k - 1 \in Nat /\ k = (k - 1) + 1
    OBVIOUS
  <2> QED BY <2>1, <2>2
<1>2. PICK u : u = Front(cs)
  OBVIOUS
<1>3. u \in Seq(F) /\ Len(u) = n /\ \A k \in 1 .. n : u[k] = cs[k]
  BY <1>1, <1>2, PopTop
<1>4. Len(t) = n + 1 /\ t[n + 1] = f /\ \A k \in 1 .. n : t[k] = u[k]
  <2>1. t = Append(u, f)
    BY <1>2
  <2> QED BY <1>3, <2>1, AppendProperties
<1> QED BY <1>1, <1>3, <1>4

LEMMA BaseIs == Base \in {0, 1} /\ (Base = 1 <=> op = "array_from_json_value")
  BY DEF Base

\* Where the innermost call is tells how far the read is.
LEMMA Phase ==
    ASSUME NEW S, NEW B, NEW V, NEW K, NEW O, Standing(S, B, V, K, O), Plainly, status = "running",
           op \in ReadOps, SaidSoFar
    PROVE  /\ calls \in Seq(Frames(S, B, V, K, O)) /\ Len(calls) \in Nat \ {0}
           /\ Top = calls[Len(calls)] /\ Collected
           /\ Top.at \in {"items", "from_json_value", "elements"}
           /\ Top.at = "items" => InObject
           /\ Top.at = "from_json_value" => Beginning
           /\ Top.at = "elements" => Len(calls) = 1 /\ op = "array_from_json_value"
<1>1. calls \in Seq(Frames(S, B, V, K, O)) /\ calls # <<>>
  BY DEF Standing, StackOf, Plainly
<1>2. Len(calls) \in Nat \ {0} /\ Top = calls[Len(calls)]
  BY <1>1, LastInSeq DEF Top
<1>3. Collected /\ (Beginning \/ InObject \/ Between)
  BY DEF SaidSoFar
<1>4. Base \in {0, 1} /\ (Base = 1 <=> op = "array_from_json_value")
  BY BaseIs
<1>5. CASE Beginning
  <2>1. Top.at = "from_json_value"
    BY <1>2, <1>5 DEF Beginning, Reading, Frame
  <2> QED BY <1>1, <1>2, <1>3, <1>5, <2>1
<1>6. CASE InObject
  <2>1. Len(calls) \in Base + 1 .. Len(calls)
    BY <1>2, <1>4, <1>6 DEF InObject
  <2>2. Top.at = "items"
    BY <1>2, <1>6, <2>1 DEF InObject
  <2> QED BY <1>1, <1>2, <1>3, <1>6, <2>2
<1>7. CASE Between
  <2>1. Len(calls) = 1 /\ op = "array_from_json_value"
    BY <1>2, <1>4, <1>7 DEF Between
  <2>2. Top.at = "elements"
    BY <1>2, <1>3, <2>1 DEF Collected
  <2> QED BY <1>1, <1>2, <1>3, <2>1, <2>2
<1> QED BY <1>3, <1>5, <1>6, <1>7

LEMMA LinkedStays ==
    ASSUME registered' = registered, NEW p
    PROVE  (Linked(p)' <=> Linked(p)) /\ (Dead(p)' <=> Dead(p))
<1>1. \A c : (Known(c)' = Known(c)) /\ (Asked(c)' <=> Asked(c))
  BY DEF Known, Asked
<1>2. Linked(p)' <=> Linked(p)
  BY <1>1 DEF Linked
<1>3. Dead(p)' <=> Dead(p)
  BY <1>1 DEF Dead
<1> QED BY <1>2, <1>3

LEMMA InObjectIs ==
    ASSUME NEW cs, calls' = cs, Len(cs) > Base',
           \A k \in Base' + 1 .. Len(cs) : cs[k].at = "items" /\ Linked(cs[k].path)',
           AllWhole(cs) => \A p \in Paths : Progress(p)'
    PROVE  InObject'
<1>1. \A k \in Base' + 1 .. Len(cs) : calls'[k].at = "items" /\ Linked(calls[k].path)'
  BY DEF Linked
<1> QED BY <1>1 DEF InObject, AllWhole, Whole

LEMMA SourceStays ==
    ASSUME UNCHANGED <<op, json, before>>, op = "array_from_json_value" => calls'[1] = calls[1]
    PROVE  Base' = Base /\ Current' = Current /\ Found' = Found /\ \A p : Source(p)' = Source(p)
  BY DEF Base, Current, Found, Source

LEMMA ProgressIs ==
    ASSUME registered' = registered \/ Register, MapsInRange, NEW p \in Paths, NEW cs, calls' = cs,
           Source(p)' = Source(p), Found' = Found,
           ~Linked(p) => Target'[p] = Found[p],
           ~Dead(p) => Agreed(Lefts(cs, p), Len(cs), Mentions(Source(p), p), Target'[p], Found[p], LinkAt(p))
    PROVE  Progress(p)'
<1>1. (~Linked(p)' => ~Linked(p)) /\ (~Dead(p)' => ~Dead(p))
  BY PathsGrow, Zenon
<1>2. PICK now, found, M : now = Target'[p] /\ found = Found' /\ M = Source(p)'
  OBVIOUS
<1>3. ~Dead(p)' => Agreed(Lefts(cs, p), Len(cs), Mentions(M, p), now, found[p], LinkAt(p))
  BY <1>1, <1>2
<1>4. ~Linked(p)' => now = found[p]
  BY <1>1, <1>2
<1> QED BY <1>2, <1>3, <1>4 DEF Progress

LEMMA LeftsAt ==
    ASSUME NEW cs, NEW p, NEW k \in 1 .. Len(cs)
    PROVE  Lefts(cs, p)[k] = Left(cs[k], p)
  BY DEF Lefts

\* The fields of a frame that is at items.
LEMMA ItemsFields ==
    ASSUME NEW S, NEW V, NEW K, NEW f \in Items(S, V, K)
    PROVE  /\ f.at = "items" /\ f.path \in Seq(Names) /\ f.rest \in Seq(Names \X (S \cup {Missing}))
           /\ f.class \in Classes /\ LinkAt(f.path).kind = f.class
           /\ LET g == Advanced(f) IN g.at = "items" /\ g.path = f.path /\ g.rest = Tail(f.rest)
<1>1. f \in ItemShape(S) /\ AtMember(f)
  BY DEF Items
<1>2. PICK m \in Members : m[1] = f.path /\ m[2].kind = f.class
  BY <1>1 DEF AtMember
<1>3. LinkAt(f.path) = m[2]
  BY <1>2, MemberType
<1>4. PICK g : g = Advanced(f)
  OBVIOUS
<1>5. g.at = "items" /\ g.path = f.path /\ g.rest = Tail(f.rest)
  BY <1>1, <1>4 DEF Advanced, ItemShape
<1> QED BY <1>1, <1>2, <1>3, <1>4, <1>5 DEF ItemShape

LEMMA ItemsPlace ==
    ASSUME NEW S, NEW V, NEW K, NEW f \in Items(S, V, K)
    PROVE  f.path \in Seq(Names) /\ LinkAt(f.path).kind = f.class
  BY ItemsFields

\* Items that are all there.
LEMMA WholeRest ==
    ASSUME NEW S, NEW ms \in Seq(Names \X (S \cup {Missing})), \A i \in DOMAIN ms : ms[i][2] # Missing
    PROVE  ms \in Seq(Names \X S)
<1>1. PICK T, U : T = Names \X (S \cup {Missing}) /\ U = Names \X S
  OBVIOUS
<1>2. PICK n \in Nat : n = Len(ms) /\ DOMAIN ms = 1 .. n /\ \A i \in 1 .. n : ms[i] \in T
  BY <1>1, LenProperties, ElementOfSeq
<1>3. \A i \in 1 .. n : ms[i] \in U
  BY <1>1, <1>2
<1>4. ms = [i \in 1 .. n |-> ms[i]]
  BY <1>1, <1>2
<1>5. ms \in Seq(U)
  BY <1>3, <1>4
<1> QED BY <1>1, <1>5

\* What a member makes of the values that an item gives it, if any.
Took(p, x) == IF x = <<>> THEN Target'[p] = Target[p] ELSE Target'[p] = Held(LinkAt(p), Last(x))

LEMMA WholeBefore ==
    ASSUME NEW X, NEW f, NEW g, f.rest \in Seq(X), f.rest # <<>>, g.at = f.at, g.rest = Tail(f.rest),
           Head(f.rest)[2] # Missing, Whole(g)
    PROVE  Whole(f)
<1>1. ASSUME f.at = "items", NEW i \in DOMAIN f.rest PROVE f.rest[i][2] # Missing
  <2>1. PICK ms, ns : ms = f.rest /\ ns = g.rest
    OBVIOUS
  <2>2. ms \in Seq(X) /\ Head(ms) = ms[1] /\ ns = Tail(ms) /\ i \in 1 .. Len(ms) /\ ms # <<>>
    BY <1>1, <2>1, LenProperties
  <2>3. i # 1 => i - 1 \in DOMAIN ns /\ ns[i - 1] = ms[i]
    BY <2>2
  <2> QED BY <1>1, <2>1, <2>2, <2>3 DEF Whole
<1> QED BY <1>1 DEF Whole

\* The innermost loop has looked at an item.
LEMMA ItemStep ==
    ASSUME NEW S, NEW B, NEW V, NEW K, NEW O, Standing(S, B, V, K, O), Plainly, SaidSoFar,
           status = "running", op \in ReadOps, AtItem, Value # Missing,
           registered' = registered, Go, Replace(Advanced(Top)),
           \A p \in Paths : ~Linked(p) => Target'[p] = Target[p],
           AllWhole(calls) =>
               \A p \in Paths : ~Dead(p) => Took(p, Due(Top.path, Head(Top.rest), p))
    PROVE  SaidSoFar'
<1>1. /\ Top.rest # <<>> /\ Top \in Items(S, V, K) /\ Advanced(Top) \in Items(S, V, K)
      /\ JsonSet(S) /\ MapsInRange /\ Head(Top.rest)[2] # Missing /\ calls # <<>>
  BY AtItemType DEF AtItem, Plainly, Value
<1>2. PICK F : F = Frames(S, B, V, K, O)
  OBVIOUS
<1>3. PICK n \in Nat \ {0} : n = Len(calls)
  BY Phase
<1>4. calls \in Seq(F) /\ Top = calls[n] /\ Collected /\ InObject
  <2>1. Top.at = "items"
    BY DEF AtItem, At
  <2> QED BY <1>2, <1>3, <2>1, Phase
<1>5. PICK f, g, cs, path, ms : f = Top /\ g = Advanced(Top) /\ cs = calls' /\ path = f.path /\ ms = f.rest
  OBVIOUS
<1>6. /\ f.at = "items" /\ path \in Seq(Names) /\ ms \in Seq(Names \X (S \cup {Missing}))
      /\ g.at = "items" /\ g.path = path /\ g.rest = Tail(ms) /\ f.path = path /\ f.rest = ms
  <2>1. f \in Items(S, V, K)
    BY <1>1, <1>5
  <2>2. /\ f.at = "items" /\ f.path \in Seq(Names) /\ f.rest \in Seq(Names \X (S \cup {Missing}))
        /\ Advanced(f).at = "items" /\ Advanced(f).path = f.path /\ Advanced(f).rest = Tail(f.rest)
    BY <2>1, ItemsFields
  <2> QED BY <1>5, <2>2
<1>7. g \in F /\ cs = Append(Front(calls), g)
  BY <1>1, <1>2, <1>5 DEF Frames, Replace
<1>8. Len(cs) = n /\ cs[n] = g /\ \A k \in 1 .. n - 1 : cs[k] = calls[k]
  BY <1>1, <1>3, <1>4, <1>7, ReplacedTop
<1>9. UNCHANGED <<op, json, before>> /\ status' = "running"
  BY DEF Go
<1>10. op = "array_from_json_value" => cs[1] = calls[1] /\ n > 1
  <2>1. op = "array_from_json_value" => n > 1
    BY <1>3, <1>4, BaseIs DEF InObject
  <2> QED BY <1>8, <2>1
<1>11. Base' = Base /\ Found' = Found /\ \A p : Source(p)' = Source(p)
  BY <1>5, <1>9, <1>10, SourceStays
<1>12. Collected'
  BY <1>1, <1>3, <1>4, <1>5, <1>8, <1>9, <1>10, CollectedStays
<1>13. AllWhole(cs) => AllWhole(calls)
  <2>1. f.rest # <<>> /\ Head(f.rest)[2] # Missing /\ f = calls[n] /\ g = cs[n]
    BY <1>1, <1>4, <1>5, <1>8
  <2>2. PICK T : T = S \cup {Missing}
    OBVIOUS
  <2>3. f.rest \in Seq(Names \X T) /\ g.at = f.at /\ g.rest = Tail(f.rest)
    BY <1>6, <2>2
  <2>4. PICK us : us = calls
    OBVIOUS
  <2>5. Whole(g) => Whole(f)
    BY <2>1, <2>3, WholeBefore
  <2>6. \A k \in 1 .. n : k \in 1 .. n - 1 \/ k = n
    OBVIOUS
  <2>7. \A k \in 1 .. n : Whole(cs[k]) => Whole(us[k])
    BY <1>8, <2>1, <2>4, <2>5, <2>6
  <2>8. AllWhole(cs) => AllWhole(us)
    BY <1>3, <1>8, <2>4, <2>7 DEF AllWhole
  <2> QED BY <2>4, <2>8
<1>14. ASSUME AllWhole(cs), NEW p \in Paths PROVE Progress(p)'
  <2>1. Progress(p) /\ AllWhole(calls)
    BY <1>4, <1>13, <1>14 DEF InObject
  <2>2. ms \in Seq(Names \X S) /\ ms # <<>> /\ p \in Seq(Names)
    <3>1. n \in 1 .. Len(calls) /\ Whole(f)
      BY <1>3, <1>4, <1>5, <2>1 DEF AllWhole
    <3>2. \A i \in DOMAIN ms : ms[i][2] # Missing
      BY <1>5, <1>6, <3>1 DEF Whole
    <3> QED BY <1>1, <1>5, <1>6, <3>2, WholeRest, PathType
  <2>3. PICK x, y : x = Due(path, Head(ms), p) /\ y = Left(g, p)
    OBVIOUS
  <2>4. Left(f, p) = x \o y /\ x \in Seq(S) /\ y \in Seq(S)
    <3>1. Splits(S, Left(f, p), Due(path, Head(ms), p), Left(g, p))
      BY <1>1, <1>6, <2>2, LeftAdvances
    <3> QED BY <2>3, <3>1, Zenon DEF Splits
  <2>5. PICK L, H : L = Lefts(calls, p) /\ H = Lefts(cs, p)
    OBVIOUS
  <2>6. L[n] = x \o y /\ H[n] = y /\ \A k \in 1 .. n - 1 : H[k] = L[k]
    <3>1. \A k \in 1 .. n : L[k] = Left(calls[k], p) /\ H[k] = Left(cs[k], p)
      BY <1>3, <1>8, <2>5, LeftsAt
    <3>2. n \in 1 .. n /\ \A k \in 1 .. n - 1 : k \in 1 .. n
      OBVIOUS
    <3>3. calls[n] = f
      BY <1>4, <1>5
    <3>4. L[n] = Left(f, p) /\ H[n] = Left(g, p)
      BY <1>8, <3>1, <3>2, <3>3, Zenon
    <3>5. \A k \in 1 .. n - 1 : H[k] = L[k]
      BY <1>8, <3>1, <3>2, Zenon
    <3> QED BY <2>3, <2>4, <3>4, <3>5, Zenon
  <2>7. ASSUME ~Dead(p) PROVE Agreed(H, n, Mentions(Source(p), p), Target'[p], Found[p], LinkAt(p))
    <3>1. Agreed(L, n, Mentions(Source(p), p), Target[p], Found[p], LinkAt(p))
      BY <1>3, <2>1, <2>5, <2>7 DEF Progress
    <3>2. Took(p, x)
      BY <1>5, <2>1, <2>3, <2>7
    <3>3. PICK now, new, old, link, M : now = Target[p] /\ new = Target'[p] /\ old = Found[p]
                                        /\ link = LinkAt(p) /\ M = Mentions(Source(p), p)
      OBVIOUS
    <3>4. IF x = <<>> THEN new = now ELSE new = Held(link, Last(x))
      BY <3>2, <3>3, Zenon DEF Took
    <3>5. Agreed(L, n, M, now, old, link)
      BY <3>1, <3>3
    <3>6. Agreed(H, n, M, new, old, link)
      BY <2>4, <2>6, <3>4, <3>5, AgreedAdvances
    <3> QED BY <3>3, <3>6
  <2>8. ~Linked(p) => Target'[p] = Found[p]
    BY <2>1 DEF Progress
  <2>9. ~Dead(p) => Agreed(Lefts(cs, p), Len(cs), Mentions(Source(p), p), Target'[p], Found[p], LinkAt(p))
    BY <1>8, <2>5, <2>7
  <2> QED BY <1>1, <1>5, <1>11, <2>8, <2>9, ProgressIs
<1>15. \A k \in Base' + 1 .. Len(cs) : cs[k].at = "items" /\ Linked(cs[k].path)'
  <2>1. \A k \in Base + 1 .. n : calls[k].at = "items" /\ Linked(calls[k].path)
    BY <1>3, <1>4 DEF InObject
  <2>2. ASSUME NEW k \in Base + 1 .. n PROVE cs[k].at = "items" /\ cs[k].path = calls[k].path
    <3>1. Base \in {0, 1}
      BY BaseIs
    <3>2. k \in 1 .. n - 1 \/ k = n
      BY <3>1
    <3> QED BY <1>4, <1>5, <1>6, <1>8, <2>1, <3>2
  <2>3. ASSUME NEW k \in Base + 1 .. n PROVE Linked(cs[k].path)'
    <3>1. PICK q : q = cs[k].path
      OBVIOUS
    <3>2. Linked(q)
      BY <2>1, <2>2, <3>1
    <3>3. Linked(q)'
      BY <3>2, LinkedStays
    <3> QED BY <3>1, <3>3
  <2> QED BY <1>8, <1>11, <2>2, <2>3
<1>16. Len(cs) > Base'
  BY <1>3, <1>4, <1>8, <1>11 DEF InObject
<1>17. InObject'
  BY <1>5, <1>14, <1>15, <1>16, InObjectIs
<1> QED BY <1>9, <1>12, <1>17 DEF SaidSoFar

LEMMA RootIs == LinkAt(<<>>).kind = Root
<1>1. PICK m \in Members : m[1] = <<>> /\ m[2] = RootLink
  BY RootIsMember
<1>2. LinkAt(<<>>) = RootLink
  BY <1>1, MemberType
<1>3. RootLink.kind = Root
  BY DEF RootLink
<1> QED BY <1>2, <1>3

\* A name that the class does not link is not missing: the map gave the others.
LEMMA SkipsGiven ==
    ASSUME NEW S, NEW B, NEW V, NEW K, NEW O, Standing(S, B, V, K, O), Plainly,
           AtItem, Name \notin Known(Top.class)
    PROVE  Value # Missing
<1>1. Top \in Items(S, V, K) /\ \E v \in V : ItemOf(v, Top.path, Head(Top.rest), K)
  BY AtItemType
<1>2. PICK v \in V : ItemOf(v, Top.path, Head(Top.rest), K)
  BY <1>1
<1>3. PICK f : f = Top /\ f \in Items(S, V, K)
  BY <1>1
<1>4. LinkAt(f.path).kind = f.class
  BY <1>3, ItemsPlace
<1>5. ASSUME Value = Missing PROVE FALSE
  <2>1. f.path = <<>> /\ Name \in K[Root]
    BY <1>2, <1>3, <1>5 DEF ItemOf, Value, Name
  <2>2. f.class = Root
    BY <1>4, <2>1, RootIs
  <2>3. K[Root] = Known(Root)
    BY KnownsType, LinksAssumption DEF Standing, Plainly
  <2> QED BY <1>3, <2>1, <2>2, <2>3
<1> QED BY <1>5

LEMMA SkipSays ==
    ASSUME NEW S, NEW B, NEW V, NEW K, NEW O, Standing(S, B, V, K, O), Plainly, SaidSoFar,
           op \in ReadOps, SkipUnlinked
    PROVE  SaidSoFar'
<1>1. /\ AtItem /\ status = "running" /\ Name \notin Known(Top.class) /\ registered' = registered
      /\ Go /\ Replace(Advanced(Top)) /\ ~Unregistered /\ UNCHANGED <<result, object, op>>
  BY DEF SkipUnlinked, AtItem, At, HasMap, Go
<1>2. Value # Missing
  BY <1>1, SkipsGiven
<1>3. Target' = Target
  BY <1>1 DEF Target
<1>4. \A p \in Paths : ~Linked(p) => Target'[p] = Target[p]
  BY <1>3
<1>5. PICK f, x : f = Top /\ f \in Items(S, V, K) /\ x = Head(Top.rest) /\ x[1] = Name
  BY <1>1, AtItemType DEF Name
<1>6. f.path \in Seq(Names) /\ LinkAt(f.path).kind = f.class
  BY <1>5, ItemsPlace
<1>7. ASSUME NEW p \in Paths, ~Dead(p) PROVE Took(p, Due(f.path, x, p))
  <2>1. p \in Seq(Names)
    BY PathType
  <2>2. ~Through(f.path, x[1], p)
    <3>1. ASSUME Through(f.path, x[1], p) PROVE FALSE
      <4>1. PICK i \in DOMAIN p : p[i] = x[1] /\ ClassAt(p, i) = LinkAt(f.path).kind
        BY <1>6, <2>1, <3>1, ThroughClass
      <4>2. p[i] \notin Known(ClassAt(p, i)) /\ Asked(ClassAt(p, i))
        BY <1>1, <1>5, <1>6, <4>1 DEF Asked, Unregistered
      <4> QED BY <1>7, <4>2 DEF Dead
    <3> QED BY <3>1
  <2>3. Due(f.path, x, p) = <<>>
    BY <2>2 DEF Due, Through
  <2> QED BY <1>3, <2>3 DEF Took
<1>8. \A p \in Paths : ~Dead(p) => Took(p, Due(Top.path, Head(Top.rest), p))
  BY <1>5, <1>7
<1> QED BY <1>1, <1>2, <1>4, <1>8, ItemStep

\* No member that is not linked itself takes an object.
LEMMA TakesNoObject ==
    ASSUME NEW link, link.kind \in Scalars, NEW v, Takes(link, v)
    PROVE  v[1] # "object"
  BY DEF Takes, TakesOne, Scalars

LEMMA AssignIs ==
    ASSUME NEW p, NEW x, Assign(p, x), op' = op, Holds(object), Holds(result)
    PROVE  \A q \in Paths : Target'[q] = IF q = p THEN x ELSE Target[q]
<1>1. PICK t, u : t = Target /\ u = Target'
  OBVIOUS
<1>2. u = [t EXCEPT ![p] = x] /\ DOMAIN t = Paths
  BY <1>1 DEF Assign, Target, Holds
<1> QED BY <1>1, <1>2

LEMMA MemberSays ==
    ASSUME NEW S, NEW B, NEW V, NEW K, NEW O, Standing(S, B, V, K, O), Plainly, SaidSoFar,
           op \in ReadOps, ReadMember
    PROVE  SaidSoFar'
<1>1. /\ AtLinked /\ AtItem /\ Top.at = "items" /\ status = "running" /\ Link.kind \notin Classes
      /\ Takes(Link, Value) /\ Assign(Path, Held(Link, Value)) /\ registered' = registered
      /\ Go /\ Replace(Advanced(Top)) /\ op' = op /\ Name \in Known(Top.class)
      /\ Value[1] # "missing"
  BY DEF ReadMember, AtLinked, AtItem, At, Go
<1>2. Value # Missing
  BY <1>1 DEF Missing
<1>3. Value \in S /\ LinkAt(Path) = Link /\ Path \in Paths /\ Link.kind \in Scalars
  BY <1>1, AtLinkedType
<1>4. PICK q, y : q = Path /\ y = Held(Link, Value)
  OBVIOUS
<1>5. \A p \in Paths : Target'[p] = IF p = q THEN y ELSE Target[p]
  <2>1. Holds(object) /\ Holds(result)
    BY DEF Standing
  <2> QED BY <1>1, <1>4, <2>1, AssignIs
<1>6. PICK f, x : f = Top /\ f \in Items(S, V, K) /\ x = Head(Top.rest) /\ x[1] = Name
                  /\ x[2] = Value /\ x[1] \in Names
  BY <1>1, AtItemType DEF Name, Value
<1>7. f.path \in Seq(Names) /\ LinkAt(f.path).kind = f.class /\ JsonSet(S)
  <2>1. JsonSet(S)
    BY DEF Standing
  <2> QED BY <1>6, <2>1, ItemsPlace
<1>8. Linked(f.path) /\ q = Append(f.path, x[1])
  <2>1. InObject /\ Len(calls) \in Nat \ {0} /\ f = calls[Len(calls)]
    BY <1>1, <1>6, Phase
  <2>2. Len(calls) \in Base + 1 .. Len(calls)
    BY <2>1, BaseIs DEF InObject
  <2> QED BY <1>4, <1>6, <2>1, <2>2 DEF InObject, Path
<1>9. Linked(q)
  BY <1>1, <1>6, <1>7, <1>8, LinkedNext
<1>10. \A p \in Paths : ~Linked(p) => Target'[p] = Target[p]
  BY <1>5, <1>9
<1>11. Value[1] # "object"
  BY <1>1, <1>3, TakesNoObject
<1>12. ASSUME NEW p \in Paths PROVE Took(p, Due(f.path, x, p))
  <2>1. p \in Seq(Names)
    BY PathType
  <2>2. Due(f.path, x, p) = IF p = q THEN <<x[2]>> ELSE <<>>
    <3>1. Due(f.path, x, p) = IF p = Append(f.path, x[1]) THEN <<x[2]>> ELSE <<>>
      <4>1. PICK path, name : path = f.path /\ name = x[1]
        OBVIOUS
      <4>2. x[1] = name /\ name \in Names /\ x[2] \in S /\ x[2][1] # "object" /\ path \in Seq(Names)
        BY <1>3, <1>6, <1>7, <1>11, <4>1
      <4>3. Due(path, x, p) = IF p = Append(path, name) THEN <<x[2]>> ELSE <<>>
        BY <1>7, <2>1, <4>2, DueMember
      <4> QED BY <4>1, <4>3
    <3> QED BY <1>8, <3>1
  <2>3. CASE p = q
    <3>1. Due(f.path, x, p) = <<Value>> /\ Last(<<Value>>) = Value /\ <<Value>> # <<>>
      BY <1>6, <2>2, <2>3 DEF Last
    <3>2. Target'[p] = Held(LinkAt(p), Value)
      BY <1>3, <1>4, <1>5, <2>3
    <3> QED BY <3>1, <3>2, Zenon DEF Took
  <2>4. CASE p # q
    BY <1>5, <2>2, <2>4 DEF Took
  <2> QED BY <2>3, <2>4
<1>13. \A p \in Paths : ~Dead(p) => Took(p, Due(Top.path, Head(Top.rest), p))
  BY <1>6, <1>12
<1> QED BY <1>1, <1>2, <1>10, <1>13, ItemStep

LEMMA WholeStays ==
    ASSUME NEW n \in Nat \ {0}, NEW us, Len(us) = n, NEW cs, Len(cs) \in Nat, n <= Len(cs),
           \A k \in 1 .. n - 1 : cs[k] = us[k], Whole(cs[n]) => Whole(us[n]), AllWhole(cs)
    PROVE  AllWhole(us)
<1>1. \A k \in 1 .. n : k \in 1 .. Len(cs) /\ (k \in 1 .. n - 1 \/ k = n)
  OBVIOUS
<1> QED BY <1>1 DEF AllWhole

\* The innermost loop goes into an object.
LEMMA NestedSays ==
    ASSUME NEW S, NEW B, NEW V, NEW K, NEW O, Standing(S, B, V, K, O), Plainly, SaidSoFar,
           op \in ReadOps, ReadNested
    PROVE  SaidSoFar'
<1>1. /\ AtLinked /\ AtItem /\ Top.at = "items" /\ status = "running" /\ Link.kind \in Classes
      /\ Value[1] = "object" /\ Name \in Known(Top.class) /\ Top.rest # <<>>
      /\ calls' = Front(calls) \o <<Advanced(Top), Frame("items", Link.kind, Path, Value[2])>>
      /\ UNCHANGED <<registered, result, object, op, json, before, status>>
  BY DEF ReadNested, AtLinked, AtItem, At, Go
<1>2. Value \in S /\ LinkAt(Path) = Link /\ JsonSet(S) /\ MapsInRange
  BY <1>1, AtLinkedType DEF Standing, Plainly
<1>3. PICK f, x, g, v, q : f = Top /\ x = Head(Top.rest) /\ g = Advanced(Top) /\ v = Value /\ q = Path
  OBVIOUS
<1>4. f \in Items(S, V, K) /\ g \in Items(S, V, K) /\ x[1] = Name /\ x[2] = v /\ x[1] \in Names
      /\ calls # <<>>
  BY <1>1, <1>3, AtItemType DEF Name, Value
<1>5. PICK path, ms : path = f.path /\ ms = f.rest
  OBVIOUS
<1>6. /\ f.at = "items" /\ path \in Seq(Names) /\ ms \in Seq(Names \X (S \cup {Missing}))
      /\ g.at = "items" /\ g.path = path /\ g.rest = Tail(ms) /\ f.path = path /\ f.rest = ms
      /\ LinkAt(path).kind = f.class
  <2>1. /\ f.at = "items" /\ f.path \in Seq(Names) /\ f.rest \in Seq(Names \X (S \cup {Missing}))
        /\ LinkAt(f.path).kind = f.class
        /\ Advanced(f).at = "items" /\ Advanced(f).path = f.path /\ Advanced(f).rest = Tail(f.rest)
    BY <1>4, ItemsFields
  <2> QED BY <1>3, <1>5, <2>1
<1>7. q = Append(path, x[1]) /\ ms # <<>> /\ Head(ms) = x /\ v \in S /\ v[1] = "object"
  BY <1>1, <1>2, <1>3, <1>4, <1>5 DEF Path
<1>0. PICK h : h = Frame("items", Link.kind, Path, Value[2])
  OBVIOUS
<1>8. h.at = "items" /\ h.path = q /\ h.rest = v[2]
  BY <1>0, <1>3, FrameFields
<1>9. PICK F : F = Frames(S, B, V, K, O) /\ g \in F
  BY <1>4 DEF Frames
<1>10. PICK n \in Nat \ {0} : n = Len(calls)
  BY <1>1, Phase
<1>11. calls \in Seq(F) /\ f = calls[n] /\ Collected /\ InObject
  BY <1>1, <1>3, <1>9, <1>10, Phase
<1>12. PICK cs : cs = calls'
  OBVIOUS
<1>13. Len(cs) = n + 1 /\ cs[n] = g /\ cs[n + 1] = h /\ \A k \in 1 .. n - 1 : cs[k] = calls[k]
  <2>1. PICK G : G = F \cup {h}
    OBVIOUS
  <2>2. calls \in Seq(G) /\ g \in G /\ h \in G
    BY <1>9, <1>11, <2>1, SeqMonotonic
  <2>3. PICK u, t : t = Front(calls) /\ u = Append(t, g)
    OBVIOUS
  <2>4. t \in Seq(G)
    <3>1. n - 1 \in Nat /\ Len(calls) = (n - 1) + 1
      BY <1>10
    <3> QED BY <2>2, <2>3, <3>1, PopTop
  <2>5. cs = Append(u, h) /\ u \in Seq(G)
    BY <1>0, <1>1, <1>3, <1>12, <2>2, <2>3, <2>4, AppendTwo
  <2>6. Len(u) = n /\ u[n] = g /\ \A k \in 1 .. n - 1 : u[k] = calls[k]
    <3>1. u = Append(Front(calls), g)
      BY <2>3
    <3> QED BY <1>4, <1>10, <2>2, <3>1, ReplacedTop
  <2>7. Len(cs) = n + 1 /\ cs[n + 1] = h /\ \A k \in 1 .. n : cs[k] = u[k]
    BY <2>2, <2>5, <2>6, AppendProperties
  <2>8. n \in 1 .. n /\ \A k \in 1 .. n - 1 : k \in 1 .. n
    OBVIOUS
  <2> QED BY <2>6, <2>7, <2>8
<1>14. op = "array_from_json_value" => cs[1] = calls[1] /\ n > 1
  <2>1. op = "array_from_json_value" => n > 1
    BY <1>10, <1>11, BaseIs DEF InObject
  <2> QED BY <1>13, <2>1
<1>15. Base' = Base /\ Found' = Found /\ Target' = Target /\ \A p : Source(p)' = Source(p)
  BY <1>1, <1>12, <1>14, SourceStays DEF Target
<1>16. Collected'
  <2>1. op = "array_from_json_value" =>
            calls'[1] = calls[1] /\ (Len(calls') > 1 <=> Len(calls) > 1)
            /\ (Len(calls') = 1 <=> Len(calls) = 1)
    <3>1. PICK m : m = Len(calls') /\ m = n + 1
      BY <1>12, <1>13
    <3>2. n > 1 => m > 1 /\ m # 1 /\ n # 1
      BY <3>1
    <3> QED BY <1>10, <1>12, <1>14, <3>1, <3>2
  <2> QED BY <1>1, <1>2, <1>11, <2>1, CollectedStays
<1>17. AllWhole(cs) => AllWhole(calls) /\ Whole(f)
  <2>1. PICK us, T : us = calls /\ T = Names \X (S \cup {Missing})
    OBVIOUS
  <2>2. Head(f.rest)[2] # Missing /\ f.rest \in Seq(T) /\ f.rest # <<>> /\ g.rest = Tail(f.rest) /\ g.at = f.at
    BY <1>1, <1>2, <1>4, <1>6, <1>7, <2>1, ContentType DEF Missing
  <2>3. Whole(g) => Whole(f)
    BY <2>2, WholeBefore
  <2>4. AllWhole(cs) => AllWhole(us)
    <3>1. Len(us) = n /\ Len(cs) \in Nat /\ n <= Len(cs) /\ (Whole(cs[n]) => Whole(us[n]))
          /\ \A k \in 1 .. n - 1 : cs[k] = us[k]
      BY <1>10, <1>11, <1>13, <2>1, <2>3
    <3> QED BY <3>1, WholeStays
  <2>5. AllWhole(us) => Whole(f)
    <3>1. n \in 1 .. Len(us) /\ us[n] = f
      BY <1>10, <1>11, <2>1
    <3> QED BY <3>1 DEF AllWhole
  <2> QED BY <2>1, <2>4, <2>5
<1>18. Linked(q)
  <2>1. n \in Base + 1 .. Len(calls)
    BY <1>10, <1>11, BaseIs DEF InObject
  <2>2. Linked(path)
    BY <1>6, <1>11, <2>1 DEF InObject
  <2> QED BY <1>1, <1>3, <1>4, <1>6, <1>7, <2>2, LinkedNext
<1>19. ASSUME AllWhole(cs), NEW p \in Paths PROVE Progress(p)'
  <2>1. Progress(p) /\ Whole(f)
    BY <1>11, <1>17, <1>19 DEF InObject
  <2>2. ms \in Seq(Names \X S) /\ p \in Seq(Names)
    <3>1. \A i \in DOMAIN ms : ms[i][2] # Missing
      BY <1>6, <2>1 DEF Whole
    <3> QED BY <1>6, <3>1, WholeRest, PathType
  <2>3. PICK z, y : z = Left(h, p) /\ y = Left(g, p)
    OBVIOUS
  <2>4. Due(path, x, p) = z
    <3>1. p # q
      BY <1>1, <1>2, <1>3, PathType, LinksAssumption
    <3>2. PICK name : name = x[1] /\ name \in Names
      BY <1>4
    <3>3. x[2] \in S /\ x[2][1] = "object" /\ p # Append(path, name) /\ h.path = Append(path, name)
          /\ h.rest = x[2][2]
      BY <1>4, <1>7, <1>8, <3>1, <3>2
    <3>4. Due(path, x, p) = Left(h, p)
      BY <1>2, <1>6, <1>8, <2>2, <3>2, <3>3, DueNested
    <3> QED BY <2>3, <3>4
  <2>5. Left(f, p) = z \o y /\ z \in Seq(S) /\ y \in Seq(S)
    <3>1. Splits(S, Left(f, p), Due(path, Head(ms), p), Left(g, p))
      BY <1>2, <1>6, <1>7, <2>2, LeftAdvances
    <3> QED BY <1>7, <2>3, <2>4, <3>1, Zenon DEF Splits
  <2>6. PICK L, H : L = Lefts(calls, p) /\ H = Lefts(cs, p)
    OBVIOUS
  <2>7. L[n] = z \o y /\ H[n + 1] = z /\ H[n] = y /\ \A k \in 1 .. n - 1 : H[k] = L[k]
    <3>1. \A k \in 1 .. n : L[k] = Left(calls[k], p)
      BY <1>10, <2>6, LeftsAt
    <3>2. \A k \in 1 .. n + 1 : H[k] = Left(cs[k], p)
      BY <1>13, <2>6, LeftsAt
    <3>3. n \in 1 .. n /\ n \in 1 .. n + 1 /\ n + 1 \in 1 .. n + 1
          /\ \A k \in 1 .. n - 1 : k \in 1 .. n /\ k \in 1 .. n + 1
      OBVIOUS
    <3>4. L[n] = Left(f, p) /\ H[n] = Left(g, p) /\ H[n + 1] = Left(h, p)
      BY <1>11, <1>13, <3>1, <3>2, <3>3, Zenon
    <3>5. \A k \in 1 .. n - 1 : H[k] = L[k]
      BY <1>13, <3>1, <3>2, <3>3, Zenon
    <3> QED BY <2>3, <2>5, <3>4, <3>5, Zenon
  <2>8. ASSUME ~Dead(p)
        PROVE  Agreed(H, n + 1, Mentions(Source(p), p), Target[p], Found[p], LinkAt(p))
    <3>1. Agreed(L, n, Mentions(Source(p), p), Target[p], Found[p], LinkAt(p))
      BY <1>10, <2>1, <2>6, <2>8 DEF Progress
    <3> QED BY <2>5, <2>7, <3>1, AgreedNests
  <2>9. ~Linked(p) => Target'[p] = Found[p]
    BY <1>15, <2>1 DEF Progress
  <2>10. ~Dead(p) => Agreed(Lefts(cs, p), Len(cs), Mentions(Source(p), p), Target'[p], Found[p], LinkAt(p))
    BY <1>13, <1>15, <2>6, <2>8
  <2> QED BY <1>1, <1>2, <1>12, <1>15, <2>9, <2>10, ProgressIs
<1>20. ASSUME NEW k \in Base' + 1 .. Len(cs) PROVE cs[k].at = "items" /\ Linked(cs[k].path)'
  <2>1. \A i \in Base + 1 .. n : calls[i].at = "items" /\ Linked(calls[i].path)
    BY <1>10, <1>11 DEF InObject
  <2>2. k \in Base + 1 .. n - 1 \/ k = n \/ k = n + 1
    BY <1>13, <1>15, BaseIs
  <2>3. CASE k \in Base + 1 .. n - 1
    <3>1. k \in Base + 1 .. n /\ k \in 1 .. n - 1
      BY <2>3, BaseIs
    <3> QED BY <1>1, <1>13, <2>1, <3>1, LinkedStays
  <2>4. CASE k = n
    <3>1. n \in Base + 1 .. n
      BY <1>10, <1>11, BaseIs DEF InObject
    <3>2. Linked(path)
      BY <1>6, <1>11, <2>1, <3>1
    <3> QED BY <1>1, <1>6, <1>13, <2>4, <3>2, LinkedStays
  <2>5. CASE k = n + 1
    BY <1>1, <1>8, <1>13, <1>18, <2>5, LinkedStays
  <2> QED BY <2>2, <2>3, <2>4, <2>5
<1>21. Len(cs) > Base'
  BY <1>10, <1>11, <1>13, <1>15, BaseIs DEF InObject
<1>22. InObject'
  BY <1>12, <1>19, <1>20, <1>21, InObjectIs
<1> QED BY <1>16, <1>22 DEF SaidSoFar

\* A loop at its end has nothing left.
LEMMA NoneLeft ==
    ASSUME NEW f, f.at # "items" \/ (f.rest = <<>> /\ f.path \in Seq(Names)), NEW p \in Seq(Names)
    PROVE  Left(f, p) = <<>> /\ Whole(f)
<1>1. Whole(f)
  BY DEF Whole
<1>2. CASE f.at = "items" /\ Begins(f.path, p)
  <2>1. f.rest = <<>> /\ Len(f.path) + 1 \in 0 .. Len(p)
    BY <1>2, BeginsShorter
  <2>2. PICK name, a : name = p[Len(f.path) + 1] /\ a = Len(f.path) + 1
    OBVIOUS
  <2>3. Picked(<<>>, name) = <<>>
    BY DEF Picked
  <2>4. CarryFrom(<<>>, p, a) = <<>>
    BY <2>1, <2>2, CarryNone
  <2> QED BY <1>1, <1>2, <2>1, <2>2, <2>3, <2>4, FlattenNone DEF Left
<1>3. CASE ~(f.at = "items" /\ Begins(f.path, p))
  BY <1>1, <1>3 DEF Left
<1> QED BY <1>2, <1>3

LEMMA EndNestedSays ==
    ASSUME NEW S, NEW B, NEW V, NEW K, NEW O, Standing(S, B, V, K, O), Plainly, SaidSoFar,
           op \in ReadOps, EndNested
    PROVE  SaidSoFar'
<1>1. /\ Top.at = "items" /\ status = "running" /\ Top.rest = <<>> /\ MapsInRange
      /\ Len(calls) > 1 /\ calls[Len(calls) - 1].at = "items" /\ calls' = Front(calls)
      /\ UNCHANGED <<registered, result, object, op, json, before, status>>
  BY DEF EndNested, At, Go, Plainly
<1>2. PICK f, cs : f = Top /\ cs = calls'
  OBVIOUS
<1>3. f \in Items(S, V, K) /\ f.rest = <<>>
  BY <1>1, <1>2, TopType, FrameType
<1>4. f.path \in Seq(Names)
  BY <1>3, ItemsFields
<1>5. PICK F : F = Frames(S, B, V, K, O)
  OBVIOUS
<1>6. PICK n \in Nat \ {0} : n = Len(calls)
  BY <1>1, Phase
<1>7. calls \in Seq(F) /\ f = calls[n] /\ Collected /\ InObject
  BY <1>1, <1>2, <1>5, <1>6, Phase
<1>8. Len(cs) = n - 1 /\ n - 1 \in Nat \ {0} /\ \A k \in 1 .. n - 1 : cs[k] = calls[k]
  <2>1. n - 1 \in Nat \ {0} /\ Len(calls) = (n - 1) + 1
    BY <1>1, <1>6
  <2> QED BY <1>1, <1>2, <1>7, <2>1, PopTop
<1>9. op = "array_from_json_value" => cs[1] = calls[1] /\ n - 1 > 1
  <2>1. op = "array_from_json_value" => calls[1].at = "elements"
    BY <1>7 DEF Collected
  <2>2. op = "array_from_json_value" => n - 1 # 1
    BY <1>1, <1>6, <2>1
  <2> QED BY <1>8, <2>2
<1>10. Base' = Base /\ Found' = Found /\ Target' = Target /\ \A p : Source(p)' = Source(p)
  BY <1>1, <1>2, <1>9, SourceStays DEF Target
<1>11. Collected'
  <2>1. op = "array_from_json_value" =>
            calls'[1] = calls[1] /\ (Len(calls') > 1 <=> Len(calls) > 1)
            /\ (Len(calls') = 1 <=> Len(calls) = 1)
    <3>1. PICK m : m = Len(calls') /\ m = n - 1
      BY <1>2, <1>8
    <3>2. n - 1 > 1 => m > 1 /\ m # 1 /\ n # 1 /\ n > 1
      BY <3>1
    <3> QED BY <1>2, <1>6, <1>9, <3>1, <3>2
  <2> QED BY <1>1, <1>7, <2>1, CollectedStays
<1>12. AllWhole(cs) => AllWhole(calls)
  <2>1. Whole(f)
    BY <1>3 DEF Whole
  <2>2. \A k \in 1 .. n : k \in 1 .. n - 1 \/ k = n
    OBVIOUS
  <2> QED BY <1>6, <1>7, <1>8, <2>1, <2>2 DEF AllWhole
<1>13. ASSUME AllWhole(cs), NEW p \in Paths PROVE Progress(p)'
  <2>1. Progress(p)
    BY <1>7, <1>12, <1>13 DEF InObject
  <2>2. Left(f, p) = <<>>
    BY <1>3, <1>4, PathType, NoneLeft
  <2>3. PICK L, H : L = Lefts(calls, p) /\ H = Lefts(cs, p)
    OBVIOUS
  <2>4. L[n] = <<>> /\ \A k \in 1 .. n - 1 : H[k] = L[k]
    <3>1. \A k \in 1 .. n : L[k] = Left(calls[k], p)
      BY <1>6, <2>3, LeftsAt
    <3>2. \A k \in 1 .. n - 1 : H[k] = Left(cs[k], p)
      BY <1>8, <2>3, LeftsAt
    <3>3. n \in 1 .. n /\ \A k \in 1 .. n - 1 : k \in 1 .. n
      OBVIOUS
    <3>4. L[n] = <<>>
      BY <1>7, <2>2, <3>1, <3>3, Zenon
    <3>5. \A k \in 1 .. n - 1 : H[k] = L[k]
      BY <1>8, <3>1, <3>2, <3>3, Zenon
    <3> QED BY <3>4, <3>5
  <2>5. ASSUME ~Dead(p)
        PROVE  Agreed(H, n - 1, Mentions(Source(p), p), Target[p], Found[p], LinkAt(p))
    <3>1. Agreed(L, n, Mentions(Source(p), p), Target[p], Found[p], LinkAt(p))
      BY <1>6, <2>1, <2>3, <2>5 DEF Progress
    <3> QED BY <2>4, <3>1, AgreedPops
  <2>6. ~Linked(p) => Target'[p] = Found[p]
    BY <1>10, <2>1 DEF Progress
  <2>7. ~Dead(p) => Agreed(Lefts(cs, p), Len(cs), Mentions(Source(p), p), Target'[p], Found[p], LinkAt(p))
    BY <1>8, <1>10, <2>3, <2>5
  <2> QED BY <1>1, <1>2, <1>10, <2>6, <2>7, ProgressIs
<1>14. ASSUME NEW k \in Base' + 1 .. Len(cs) PROVE cs[k].at = "items" /\ Linked(cs[k].path)'
  <2>1. k \in Base + 1 .. n /\ k \in 1 .. n - 1
    BY <1>8, <1>10, BaseIs
  <2>2. calls[k].at = "items" /\ Linked(calls[k].path)
    BY <1>6, <1>7, <2>1 DEF InObject
  <2> QED BY <1>1, <1>8, <2>1, <2>2, LinkedStays
<1>15. Len(cs) > Base'
  BY <1>8, <1>9, <1>10, BaseIs
<1>16. InObject'
  BY <1>2, <1>13, <1>14, <1>15, InObjectIs
<1> QED BY <1>11, <1>16 DEF SaidSoFar

\* The outermost loop ends.
LEMMA EndSays ==
    ASSUME NEW S, NEW B, NEW V, NEW K, NEW O, Standing(S, B, V, K, O), Plainly, SaidSoFar,
           status = "running", op \in ReadOps, At("items"), Top.rest = <<>>, Len(calls) = Base + 1
    PROVE  \A p \in Paths : Says(Target, Source(p), p, Found)
<1>1. Top.at = "items"
  BY DEF At
<1>2. PICK f : f = Top /\ f \in Items(S, V, K) /\ f.rest = <<>>
  BY <1>1, TopType, FrameType
<1>3. f.path \in Seq(Names)
  BY <1>2, ItemsFields
<1>4. PICK n \in Nat \ {0} : n = Len(calls)
  BY Phase
<1>5. f = calls[n] /\ Collected /\ InObject
  BY <1>1, <1>2, <1>4, Phase
<1>6. \A k \in 1 .. n : calls[k] = f \/ calls[k].at # "items"
  <2>1. n = 1 \/ (n = 2 /\ calls[1].at = "elements")
    <3>1. op = "array_from_json_value" => calls[1].at = "elements"
      BY <1>5 DEF Collected
    <3>2. Len(calls) = Base + 1
      OBVIOUS
    <3>3. n = 1 \/ (n = 2 /\ op = "array_from_json_value")
      BY <1>4, <3>2, BaseIs
    <3> QED BY <3>1, <3>3
  <2> QED BY <1>5, <2>1
<1>7. ASSUME NEW p \in Paths PROVE \A k \in 1 .. n : Left(calls[k], p) = <<>> /\ Whole(calls[k])
  <2>1. p \in Seq(Names)
    BY PathType
  <2> TAKE k \in 1 .. n
  <2>2. PICK g : g = calls[k]
    OBVIOUS
  <2>3. g.at # "items" \/ (g.rest = <<>> /\ g.path \in Seq(Names))
    BY <1>2, <1>3, <1>6, <2>2
  <2>4. Left(g, p) = <<>> /\ Whole(g)
    BY <2>1, <2>3, NoneLeft
  <2> QED BY <2>2, <2>4
<1>8. ASSUME NEW p \in Paths PROVE Says(Target, Source(p), p, Found)
  <2>1. AllWhole(calls)
    BY <1>4, <1>7, <1>8 DEF AllWhole
  <2>2. Progress(p)
    BY <1>5, <1>8, <2>1 DEF InObject
  <2>3. ASSUME ~Dead(p) PROVE Target[p] = Final(LinkAt(p), Mentions(Source(p), p), Found[p])
    <3>1. PICK L : L = Lefts(calls, p)
      OBVIOUS
    <3>2. \A k \in 1 .. n : L[k] = <<>>
      BY <1>4, <1>7, <1>8, <3>1, LeftsAt
    <3>3. Agreed(L, n, Mentions(Source(p), p), Target[p], Found[p], LinkAt(p))
      BY <1>4, <2>2, <2>3, <3>1 DEF Progress
    <3> QED BY <3>2, <3>3, Zenon DEF Agreed
  <2> QED BY <2>2, <2>3 DEF Progress, Says
<1> QED BY <1>8

LEMMA EndReadingSays ==
    ASSUME NEW S, NEW B, NEW V, NEW K, NEW O, Standing(S, B, V, K, O), Plainly, SaidSoFar,
           op \in ReadOps \ {"operator>>"}, EndReading
    PROVE  ReadsWhatIsSaid' /\ op # "array_from_json_value"
<1>1. /\ status = "running" /\ At("items") /\ Top.at = "items" /\ Top.rest = <<>> /\ Len(calls) = 1
      /\ UNCHANGED <<registered, op, json, before>>
      /\ object' = IF op \in {"from_json_value", "from_json_string"} THEN result ELSE object
  BY DEF EndReading, At, Stop
<1>2. op # "array_from_json_value" /\ Len(calls) = Base + 1
  <2>1. InObject
    BY <1>1, Phase
  <2>2. op # "array_from_json_value"
    BY <1>1, <2>1, BaseIs DEF InObject
  <2> QED BY <1>1, <2>2, BaseIs
<1>3. \A p \in Paths : Says(Target, Source(p), p, Found)
  BY <1>1, <1>2, EndSays
<1>4. PICK o, ao, d : o = Target /\ ao = Found /\ d = object' /\ d = o
  BY <1>1, <1>2 DEF Target, ReadOps
<1>5. \A p \in Paths : o[p] = Meaning(Source(p), p, ao)
  <2> TAKE p \in Paths
  <2>1. Says(o, Source(p), p, ao)
    BY <1>3, <1>4
  <2> QED BY <2>1, SaysMeaning
<1>6. \A v, p, w : Meaning(v, p, w)' = Meaning(v, p, w)
  <2>1. \A p : Linked(p)' <=> Linked(p)
    BY <1>1, LinkedStays
  <2> QED BY <2>1 DEF Meaning
<1>7. CASE op = "from_json_object"
  <2>1. \A p \in Paths : d[p] = Meaning(json, p, before)
    BY <1>2, <1>4, <1>5, <1>7 DEF Source, Found
  <2>2. PICK j, b : j = json /\ b = before
    OBVIOUS
  <2>3. \A p \in Paths : d[p] = Meaning(j, p, b)'
    BY <1>6, <2>1, <2>2
  <2>4. \A p \in Paths : object'[p] = Meaning(json, p, before)'
    BY <1>1, <1>4, <2>2, <2>3 DEF Meaning
  <2> QED BY <1>1, <1>2, <1>7, <2>4 DEF ReadsWhatIsSaid
<1>8. CASE op # "from_json_object"
  <2>1. op \in {"from_json_value", "from_json_string"}
    BY <1>2, <1>8 DEF ReadOps
  <2>2. \A p \in Paths : d[p] = Meaning(FirstOf(json, p[1]), p, Fresh)
    BY <1>2, <1>4, <1>5, <1>8 DEF Source, Found, Current
  <2>3. PICK j : j = json
    OBVIOUS
  <2>4. \A p \in Paths : d[p] = Meaning(FirstOf(j, p[1]), p, Fresh)'
    BY <1>6, <2>2, <2>3
  <2>5. \A p \in Paths : object'[p] = Meaning(FirstOf(json, p[1]), p, Fresh)'
    BY <1>1, <1>4, <2>3, <2>4 DEF Meaning
  <2> QED BY <1>1, <1>2, <2>1, <2>5 DEF ReadsWhatIsSaid
<1> QED BY <1>2, <1>7, <1>8

\* No path is empty, and each begins in the class of the object.
LEMMA PathBegins ==
    ASSUME NEW p \in Paths
    PROVE  p # <<>> /\ (~Dead(p) /\ Asked(Root) => p[1] \in Known(Root))
<1>1. p \in Seq(Names) /\ LinkAt(p).kind \in Scalars
  BY PathType
<1>2. p # <<>>
  BY <1>1, RootIs, LinksAssumption
<1>3. PICK e : e = <<>> /\ e \in Seq(Names) /\ Len(e) = 0
  BY EmptySeq
<1>4. Through(e, p[1], p)
  BY <1>1, <1>2, <1>3, LenProperties, EmptySeq DEF Through, Begins
<1>5. 1 \in DOMAIN p /\ ClassAt(p, 1) = Root
  <2>1. PICK i : i = Len(e) + 1
    OBVIOUS
  <2>2. i \in DOMAIN p /\ ClassAt(p, i) = LinkAt(e).kind
    BY <1>1, <1>3, <1>4, <2>1, ThroughClass
  <2> QED BY <1>3, <2>1, <2>2, RootIs
<1> QED BY <1>2, <1>5 DEF Dead

LEMMA StartReadingSays ==
    ASSUME NEW S, NEW B, NEW V, NEW K, NEW O, Standing(S, B, V, K, O), Plainly, SaidSoFar,
           op \in ReadOps, StartReading
    PROVE  SaidSoFar'
<1>1. /\ status = "running" /\ Top.at = "from_json_value" /\ ~Unregistered /\ AsksForMap
      /\ UNCHANGED <<registered, result, object, op, json, before, status>>
  BY DEF StartReading, At, Go, HasMap
<1>2. PICK v : v = Current
  OBVIOUS
<1>3. PICK n \in Nat \ {0} : n = Len(calls)
  BY <1>1, Phase
<1>4. PICK F : F = Frames(S, B, V, K, O) /\ calls \in Seq(F) /\ calls # <<>>
  BY <1>1, TopType, Phase
<1>5. Beginning /\ Collected /\ Top = calls[n]
  BY <1>1, <1>3, Phase
<1>6. n = Base + 1 /\ Top = Reading(v) /\ result = Fresh /\ op # "from_json_object"
  BY <1>2, <1>3, <1>5 DEF Beginning
<1>7. Top.class = Root /\ Top.path = <<>> /\ Top.rest = <<v>>
  BY <1>6 DEF Reading, Frame
<1>8. v[1] = "object" /\ v \in S /\ JsonSet(S)
  <2>1. Top \in Reads(V) /\ V \subseteq S /\ JsonSet(S)
    BY <1>1, TopType, FrameType
  <2>2. PICK w \in V : Top = Reading(w)
    BY <2>1 DEF Reads
  <2>3. Top.rest = <<w>>
    BY <2>2 DEF Reading, Frame
  <2>4. w = v
    <3>1. <<w>>[1] = <<v>>[1]
      BY <1>7, <2>3
    <3> QED BY <3>1
  <2>5. Top.rest[1][1] = "object"
    BY <1>1 DEF AsksForMap
  <2>6. Top.rest[1] = v
    BY <1>7
  <2> QED BY <2>1, <2>4, <2>5, <2>6
<1>9. PICK order \in SetToSeqs(Known(Top.class)) :
          Replace(Frame("items", Top.class, Top.path,
                        [i \in DOMAIN order |-> <<order[i], Find(Top.rest[1][2], order[i])>>]))
  BY DEF StartReading
<1>10. PICK h : h = Frame("items", Top.class, Top.path,
                          [i \in DOMAIN order |-> <<order[i], Find(Top.rest[1][2], order[i])>>])
  OBVIOUS
<1>11. /\ h.at = "items" /\ h.path = <<>>
       /\ h.rest = [i \in DOMAIN order |-> <<order[i], Find(v[2], order[i])>>]
  <2>1. Top.rest[1] = v
    BY <1>7
  <2>2. /\ h.at = "items" /\ h.path = Top.path
        /\ h.rest = [i \in DOMAIN order |-> <<order[i], Find(Top.rest[1][2], order[i])>>]
    BY <1>10, FrameFields
  <2> QED BY <1>7, <2>1, <2>2
<1>12. PICK cs : cs = calls' /\ cs = Append(Front(calls), h)
  BY <1>9, <1>10, Zenon DEF Replace
<1>13. Len(cs) = n /\ cs[n] = h /\ \A k \in 1 .. n - 1 : cs[k] = calls[k]
  <2>1. PICK G : G = F \cup {h}
    OBVIOUS
  <2>2. calls \in Seq(G) /\ h \in G
    BY <1>4, <2>1, SeqMonotonic
  <2> QED BY <1>3, <1>4, <1>12, <2>2, ReplacedTop
<1>14. op = "array_from_json_value" => cs[1] = calls[1] /\ n = 2
  BY <1>6, <1>13, BaseIs
<1>15. Base' = Base /\ Found' = Found /\ Target' = Target /\ Current' = Current
       /\ \A p : Source(p)' = Source(p)
  BY <1>1, <1>12, <1>14, SourceStays DEF Target
<1>16. Collected'
  <2>1. MapsInRange
    BY DEF Plainly
  <2>2. op = "array_from_json_value" =>
            calls'[1] = calls[1] /\ (Len(calls') > 1 <=> Len(calls) > 1)
            /\ (Len(calls') = 1 <=> Len(calls) = 1)
    BY <1>3, <1>12, <1>13, <1>14
  <2> QED BY <1>1, <1>5, <2>1, <2>2, CollectedStays
<1>17. Target = Fresh /\ Found = Fresh /\ \A p : Source(p) = FirstOf(v, p[1])
  BY <1>2, <1>6 DEF Target, Found, Source
<1>18. \A k \in 1 .. n - 1 : cs[k].at # "items"
  <2>1. n = 1 \/ (n = 2 /\ op = "array_from_json_value")
    BY <1>6, BaseIs
  <2>2. op = "array_from_json_value" => calls[1].at = "elements"
    BY <1>5 DEF Collected
  <2> QED BY <1>13, <2>1, <2>2
<1>19. ASSUME AllWhole(cs), NEW p \in Paths PROVE Progress(p)'
  <2>1. Whole(h)
    <3>1. n \in 1 .. Len(cs)
      BY <1>13
    <3> QED BY <1>13, <1>19, <3>1 DEF AllWhole
  <2>2. p \in Seq(Names)
    BY PathType
  <2>3. PICK M : M = Mentions(FirstOf(v, p[1]), p)
    OBVIOUS
  <2>4. ASSUME ~Dead(p) PROVE Left(h, p) = M
    <3>1. Asked(Root)
      BY <1>1, <1>7 DEF Unregistered, Asked
    <3>2. p # <<>> /\ p[1] \in Known(Root)
      BY <2>4, <3>1, PathBegins
    <3>3. PICK N : N = Known(Root) /\ IsFiniteSet(N) /\ N \subseteq Names
      BY KnownsType, LinksAssumption DEF Plainly
    <3>4. \A i \in DOMAIN h.rest : h.rest[i][2] # Missing
      BY <1>11, <2>1 DEF Whole
    <3>5. order \in SetToSeqs(N) /\ p[1] \in N
      BY <1>7, <3>2, <3>3
    <3> QED BY <1>8, <1>11, <2>2, <2>3, <3>2, <3>3, <3>4, <3>5, StartSays
  <2>5. ASSUME ~Dead(p) PROVE Agreed(Lefts(cs, p), n, M, Fresh[p], Fresh[p], LinkAt(p))
    <3>1. PICK L : L = Lefts(cs, p)
      OBVIOUS
    <3>2. \A k \in 1 .. n : L[k] = Left(cs[k], p)
      BY <1>13, <3>1, LeftsAt
    <3>3. n \in 1 .. n /\ \A k \in 1 .. n - 1 : k \in 1 .. n
      OBVIOUS
    <3>4. L[n] = M
      BY <1>13, <2>4, <2>5, <3>2, <3>3, Zenon
    <3>5. ASSUME NEW k \in 1 .. n - 1 PROVE L[k] = <<>>
      <4>1. PICK f : f = cs[k] /\ f.at # "items"
        BY <1>18
      <4>2. Left(f, p) = <<>>
        BY <2>2, <4>1, NoneLeft
      <4> QED BY <3>2, <3>3, <4>1, <4>2
    <3> QED BY <3>1, <3>4, <3>5, AgreedBegins
  <2>6. ~Linked(p) => Target'[p] = Found[p]
    BY <1>15, <1>17
  <2>7. ~Dead(p) => Agreed(Lefts(cs, p), Len(cs), Mentions(Source(p), p), Target'[p], Found[p], LinkAt(p))
    BY <1>13, <1>15, <1>17, <2>3, <2>5
  <2>8. MapsInRange
    BY DEF Plainly
  <2> QED BY <1>1, <1>12, <1>15, <2>6, <2>7, <2>8, ProgressIs
<1>20. ASSUME NEW k \in Base' + 1 .. Len(cs) PROVE cs[k].at = "items" /\ Linked(cs[k].path)'
  <2>1. k = n
    BY <1>6, <1>13, <1>15, BaseIs
  <2>2. PICK q : q = <<>>
    OBVIOUS
  <2>3. Linked(q)'
    BY <1>1, <2>2, NoneIsLinked, LinkedStays
  <2> QED BY <1>11, <1>13, <2>1, <2>2, <2>3
<1>21. Len(cs) > Base'
  BY <1>6, <1>13, <1>15, BaseIs
<1>22. InObject'
  BY <1>12, <1>19, <1>20, <1>21, InObjectIs
<1> QED BY <1>16, <1>22 DEF SaidSoFar

\* The next element is the one after those that were read.
LEMMA ElementSays ==
    ASSUME NEW S, NEW B, NEW V, NEW K, NEW O, Standing(S, B, V, K, O), Plainly, SaidSoFar,
           op \in ReadOps, ReadElement
    PROVE  SaidSoFar'
<1>1. /\ status = "running" /\ Top.at = "elements" /\ Top.rest # <<>> /\ result' = Fresh
      /\ calls' = <<Advanced(Top), Reading(Head(Top.rest))>>
      /\ UNCHANGED <<registered, op, json, status>> /\ MapsInRange
  BY DEF ReadElement, At, Go, Plainly
<1>2. PICK f, g, out, rest : f = Top /\ g = Advanced(Top) /\ out = f.out /\ rest = f.rest
  OBVIOUS
<1>3. f \in Elements(B, V, O) /\ rest \in Seq(V) /\ out \in Seq(B)
  BY <1>1, <1>2, ElementType DEF Elements
<1>4. op = "array_from_json_value" /\ Len(calls) = 1 /\ f = calls[1] /\ Collected
  BY <1>1, <1>2, Phase
<1>5. PICK a \in Nat, b \in Nat : a = Len(out) /\ b + 1 = Len(rest) /\ rest # <<>>
  <2>1. Len(out) \in Nat /\ Len(rest) \in Nat /\ rest # <<>> /\ Len(rest) # 0
    BY <1>1, <1>2, <1>3, LenProperties, EmptySeq
  <2>2. Len(rest) - 1 \in Nat /\ (Len(rest) - 1) + 1 = Len(rest)
    BY <2>1
  <2> QED BY <2>1, <2>2
<1>6. PICK w : w = json[2]
  OBVIOUS
<1>7. /\ json[1] = "array" /\ a + (b + 1) = Len(w) /\ SaidOf(out)
      /\ \A i \in DOMAIN rest : rest[i] = w[Len(w) - Len(rest) + i]
  <2>1. json[1] = "array"
    BY <1>1, <1>2, <1>4 DEF Collected
  <2>2. /\ Len(f.out) + Len(f.rest) + (IF Len(calls) > 1 THEN 1 ELSE 0) = Len(w)
        /\ (\A i \in DOMAIN f.rest : f.rest[i] = w[Len(w) - Len(f.rest) + i]) /\ SaidOf(f.out)
    BY <1>4, <1>6, <2>1, Zenon DEF Collected
  <2>3. ~(Len(calls) > 1)
    BY <1>4
  <2>4. a + (b + 1) + (IF Len(calls) > 1 THEN 1 ELSE 0) = Len(w)
    BY <1>2, <1>5, <2>2
  <2>5. a + (b + 1) = Len(w)
    BY <2>3, <2>4
  <2> QED BY <1>2, <2>1, <2>2, <2>5
<1>8. Len(w) - Len(rest) = a /\ Len(w) = a + (b + 1)
  BY <1>5, <1>7
<1>9. PICK t : t = Tail(rest)
  OBVIOUS
<1>10. Len(t) = b /\ DOMAIN t = 1 .. b /\ \A i \in 1 .. b : t[i] = rest[i + 1] /\ i + 1 \in DOMAIN rest
  BY <1>3, <1>5, <1>9, LenProperties
<1>11. Head(rest) = w[a + 1] /\ \A i \in 1 .. b : t[i] = w[a + 1 + i]
  <2>1. 1 \in DOMAIN rest /\ Head(rest) = rest[1]
    BY <1>3, <1>5, LenProperties
  <2>2. \A i \in DOMAIN rest : rest[i] = w[a + i]
    BY <1>7, <1>8
  <2>3. \A i \in 1 .. b : a + (i + 1) = a + 1 + i
    OBVIOUS
  <2>4. \A i \in 1 .. b : t[i] = w[a + (i + 1)]
    BY <1>10, <2>2
  <2> QED BY <2>1, <2>2, <2>3, <2>4
<1>12. g.at = "elements" /\ g.out = out /\ g.rest = t
  BY <1>2, <1>3, <1>9 DEF Advanced, Elements
<1>13. PICK cs, r : cs = calls' /\ cs = <<g, r>> /\ r = Reading(w[a + 1])
  BY <1>1, <1>2, <1>11
<1>14. Len(cs) = 2 /\ cs[1] = g /\ cs[2] = r
  BY <1>13
<1>15. SaidOf(out)'
  BY <1>1, <1>7, SaidStays
<1>16. Collected'
  <2>1. Len(w) - b = a + 1
    BY <1>8
  <2>2. \A i \in 1 .. b : t[i] = w[Len(w) - Len(t) + i]
    BY <1>10, <1>11, <2>1
  <2>3. Len(out) + Len(t) + 1 = Len(w)
    BY <1>5, <1>8, <1>10
  <2>4. Len(cs) > 1
    BY <1>14
  <2>5. Len(calls'[1].out) + Len(calls'[1].rest) + (IF Len(calls') > 1 THEN 1 ELSE 0) = Len(json'[2])
    BY <1>1, <1>6, <1>12, <1>13, <1>14, <2>3, <2>4
  <2>6. \A i \in DOMAIN calls'[1].rest : calls'[1].rest[i] = json'[2][Len(json'[2]) - Len(calls'[1].rest) + i]
    BY <1>1, <1>6, <1>10, <1>12, <1>13, <1>14, <2>2
  <2>7. SaidOf(calls[1].out)'
    <3>1. calls'[1].out = out
      BY <1>12, <1>13, <1>14
    <3> QED BY <1>15, <3>1
  <2>8. calls'[1].at = "elements" /\ json'[1] = "array"
    BY <1>1, <1>7, <1>12, <1>13, <1>14
  <2> QED BY <2>5, <2>6, <2>7, <2>8 DEF Collected
<1>17. Beginning'
  <2>1. Base' = 1 /\ op' # "from_json_object"
    BY <1>1, <1>4 DEF Base
  <2>2. Current' = w[a + 1]
    BY <1>1, <1>4, <1>5, <1>6, <1>12, <1>13, <1>14 DEF Current
  <2>3. Len(calls') = 2 /\ calls'[2] = Reading(w[a + 1])
    BY <1>13, <1>14
  <2> QED BY <1>1, <2>1, <2>2, <2>3 DEF Beginning, Reading
<1> QED BY <1>16, <1>17 DEF SaidSoFar

LEMMA EndElementSays ==
    ASSUME NEW S, NEW B, NEW V, NEW K, NEW O, Standing(S, B, V, K, O), Plainly, SaidSoFar,
           op \in ReadOps, EndElement
    PROVE  SaidSoFar'
<1>1. /\ status = "running" /\ At("items") /\ Top.at = "items" /\ Top.rest = <<>> /\ Len(calls) = 2
      /\ calls[1].at = "elements" /\ calls' = <<[calls[1] EXCEPT !.out = Append(@, result)]>>
      /\ UNCHANGED <<registered, op, json, status>> /\ MapsInRange
  BY DEF EndElement, At, Go, Plainly
<1>2. InObject /\ Collected /\ calls \in Seq(Frames(S, B, V, K, O))
  BY <1>1, Phase
<1>3. op = "array_from_json_value"
  <2>1. Base = 0 => 1 \in Base + 1 .. Len(calls)
    BY <1>1
  <2>2. Base # 0
    BY <1>1, <1>2, <2>1 DEF InObject
  <2> QED BY <2>2, BaseIs
<1>4. PICK f, out, rest, o : f = calls[1] /\ out = f.out /\ rest = f.rest /\ o = result
  OBVIOUS
<1>5. f \in Elements(B, V, O) /\ rest \in Seq(V) /\ out \in Seq(B) /\ o \in B
  <2>3. calls \in Seq(Frames(S, B, V, K, O)) /\ 1 \in 1 .. Len(calls)
    BY <1>1, <1>2
  <2>4. calls[1] \in Frames(S, B, V, K, O)
    BY <2>3, ElementOfSeq
  <2>1. f \in Frames(S, B, V, K, O)
    BY <1>4, <2>4, Zenon
  <2>2. f \in Elements(B, V, O)
    BY <1>1, <1>4, <2>1, FrameType
  <2> QED BY <1>4, <2>2 DEF Elements, Standing
<1>6. PICK a \in Nat, b \in Nat : a = Len(out) /\ b = Len(rest)
  BY <1>5, LenProperties
<1>7. PICK w : w = json[2]
  OBVIOUS
<1>8. /\ json[1] = "array" /\ a + b + 1 = Len(w) /\ SaidOf(out)
      /\ \A i \in DOMAIN rest : rest[i] = w[Len(w) - Len(rest) + i]
  <2>1. json[1] = "array"
    BY <1>1, <1>2, <1>3 DEF Collected
  <2>2. /\ Len(f.out) + Len(f.rest) + (IF Len(calls) > 1 THEN 1 ELSE 0) = Len(w)
        /\ (\A i \in DOMAIN f.rest : f.rest[i] = w[Len(w) - Len(f.rest) + i]) /\ SaidOf(f.out)
    BY <1>2, <1>3, <1>4, <1>7, <2>1, Zenon DEF Collected
  <2>3. a + b + (IF Len(calls) > 1 THEN 1 ELSE 0) = Len(w)
    BY <1>4, <1>6, <2>2
  <2>4. a + b + 1 = Len(w)
    BY <1>1, <2>3
  <2> QED BY <1>4, <2>1, <2>2, <2>4
<1>9. PICK so : so = Append(out, o)
  OBVIOUS
<1>10. /\ Len(so) = a + 1 /\ so[a + 1] = o /\ \A i \in 1 .. a : so[i] = out[i]
       /\ DOMAIN so = 1 .. a + 1 /\ DOMAIN out = 1 .. a
  <2>1. so \in Seq(B) /\ Len(so) = a + 1 /\ so[a + 1] = o /\ \A i \in 1 .. a : so[i] = out[i]
    BY <1>5, <1>6, <1>9, AppendProperties
  <2> QED BY <1>5, <1>6, <2>1, LenProperties
<1>11. PICK g, cs : g = [f EXCEPT !.out = so] /\ cs = <<g>> /\ cs = calls'
  BY <1>1, <1>4, <1>9
<1>12. g.at = "elements" /\ g.out = so /\ g.rest = rest /\ Len(cs) = 1 /\ cs[1] = g
  BY <1>1, <1>4, <1>5, <1>11 DEF Elements
<1>13. SaidOf(so)
  <2>1. ASSUME NEW p \in Paths PROVE Says(o, FirstOf(w[a + 1], p[1]), p, Fresh)
    <3>1. Says(Target, Source(p), p, Found)
      BY <1>1, <1>3, <2>1, BaseIs, EndSays
    <3>2. Target = o /\ Found = Fresh /\ Source(p) = FirstOf(w[a + 1], p[1])
      BY <1>3, <1>4, <1>6, <1>7 DEF Target, Found, Source, Current
    <3> QED BY <3>1, <3>2
  <2>2. ASSUME NEW i \in 1 .. a + 1, NEW p \in Paths PROVE Says(so[i], FirstOf(w[i], p[1]), p, Fresh)
    <3>1. CASE i = a + 1
      BY <1>10, <2>1, <2>2, <3>1
    <3>2. CASE i # a + 1
      <4>1. i \in DOMAIN out
        BY <1>10, <3>2
      <4> QED BY <1>7, <1>8, <1>10, <2>2, <4>1 DEF SaidOf
    <3> QED BY <3>1, <3>2
  <2> QED BY <1>7, <1>10, <2>2 DEF SaidOf
<1>14. SaidOf(so)'
  BY <1>1, <1>13, SaidStays
<1>15. Collected'
  <2>1. Len(so) + Len(rest) + 0 = Len(w) /\ ~(Len(cs) > 1)
    BY <1>6, <1>8, <1>10, <1>12
  <2>2. Len(calls'[1].out) + Len(calls'[1].rest) + (IF Len(calls') > 1 THEN 1 ELSE 0) = Len(json'[2])
    BY <1>1, <1>7, <1>11, <1>12, <2>1
  <2>3. \A i \in DOMAIN calls'[1].rest : calls'[1].rest[i] = json'[2][Len(json'[2]) - Len(calls'[1].rest) + i]
    <3>1. calls'[1].rest = rest /\ json'[2] = w
      BY <1>1, <1>7, <1>11, <1>12
    <3>2. \A i \in DOMAIN rest : rest[i] = w[Len(w) - Len(rest) + i]
      BY <1>8
    <3> QED BY <3>1, <3>2
  <2>4. SaidOf(calls[1].out)'
    <3>1. calls'[1].out = so
      BY <1>11, <1>12
    <3> QED BY <1>14, <3>1
  <2>5. calls'[1].at = "elements" /\ json'[1] = "array"
    BY <1>1, <1>8, <1>11, <1>12
  <2> QED BY <2>2, <2>3, <2>4, <2>5 DEF Collected
<1>16. Between'
  BY <1>1, <1>3, <1>11, <1>12 DEF Between, Base
<1> QED BY <1>15, <1>16 DEF SaidSoFar

LEMMA EndElementsSays ==
    ASSUME NEW S, NEW B, NEW V, NEW K, NEW O, Standing(S, B, V, K, O), Plainly, SaidSoFar,
           op \in ReadOps, EndElements
    PROVE  ListSaid'
<1>1. /\ status = "running" /\ Top.at = "elements" /\ Top.rest = <<>> /\ list' = Top.out
      /\ json[1] = "array" /\ UNCHANGED <<registered, op, json>> /\ MapsInRange
  BY DEF EndElements, At, Plainly
<1>2. PICK f, out : f = Top /\ out = f.out
  OBVIOUS
<1>3. f \in Elements(B, V, O) /\ out \in Seq(B)
  BY <1>1, <1>2, ElementType DEF Elements
<1>4. op = "array_from_json_value" /\ Len(calls) = 1 /\ f = calls[1] /\ Collected
  BY <1>1, <1>2, Phase
<1>5. Len(f.out) + Len(f.rest) + (IF Len(calls) > 1 THEN 1 ELSE 0) = Len(json[2]) /\ SaidOf(f.out)
  BY <1>1, <1>4, Zenon DEF Collected
<1>6. Len(out) \in Nat /\ Len(f.rest) = 0 /\ ~(Len(calls) > 1)
  BY <1>1, <1>2, <1>3, <1>4, LenProperties
<1>7. Len(out) = Len(json[2]) /\ SaidOf(out)
  BY <1>2, <1>5, <1>6
<1>8. SaidOf(out)'
  BY <1>1, <1>7, SaidStays
<1>9. SaidOf(list)'
  <2>1. list' = out
    BY <1>1, <1>2
  <2> QED BY <1>8, <2>1
<1> QED BY <1>1, <1>2, <1>7, <1>9 DEF ListSaid

\* What was said stays so while a map is filled.
LEMMA MapsSay ==
    ASSUME NEW S, NEW B, NEW V, NEW K, NEW O, Standing(S, B, V, K, O), Plainly, SaidSoFar,
           op \in ReadOps, status = "running", registered' = registered \/ Register,
           UNCHANGED <<calls, result, object, op, json, before, status>>
    PROVE  SaidSoFar'
<1>1. MapsInRange
  BY DEF Plainly
<1>2. Collected /\ (Beginning \/ InObject \/ Between)
  BY DEF SaidSoFar
<1>3. Base' = Base /\ Found' = Found /\ Target' = Target /\ Current' = Current
      /\ \A p : Source(p)' = Source(p)
  BY <1>1, SourceStays DEF Target
<1>4. Collected'
  BY <1>1, <1>2, CollectedStays
<1>5. CASE Beginning
  <2>1. Beginning'
    BY <1>1, <1>3, <1>5 DEF Beginning, Reading
  <2> QED BY <1>4, <2>1 DEF SaidSoFar
<1>6. CASE InObject
  <2>1. PICK cs : cs = calls' /\ cs = calls
    BY <1>1
  <2>2. ASSUME AllWhole(cs), NEW p \in Paths PROVE Progress(p)'
    <3>1. Progress(p)
      BY <1>6, <2>1, <2>2 DEF InObject
    <3>2. ~Linked(p) => Target'[p] = Found[p]
      BY <1>3, <3>1 DEF Progress
    <3>3. ~Dead(p) => Agreed(Lefts(cs, p), Len(cs), Mentions(Source(p), p), Target'[p], Found[p], LinkAt(p))
      BY <1>3, <2>1, <3>1 DEF Progress
    <3> QED BY <1>1, <1>3, <2>1, <3>2, <3>3, ProgressIs
  <2>3. calls \in Seq(Frames(S, B, V, K, O))
    BY Phase
  <2>4. ASSUME NEW k \in Base' + 1 .. Len(cs) PROVE cs[k].at = "items" /\ Linked(cs[k].path)'
    <3>1. PICK q : q = cs[k].path
      OBVIOUS
    <3>2. cs[k].at = "items" /\ Linked(q)
      BY <1>3, <1>6, <2>1, <3>1 DEF InObject
    <3>3. k \in DOMAIN calls /\ cs[k] = calls[k]
      <4>1. k \in 1 .. Len(calls) /\ DOMAIN calls = 1 .. Len(calls)
        BY <1>3, <2>3, <2>1, BaseIs, LenProperties
      <4> QED BY <2>1, <4>1
    <3>4. cs[k] \in Items(S, V, K)
      BY <2>3, <3>2, <3>3, ElementOfSeq, FrameType
    <3>5. PICK m \in Members : m[1] = q
      BY <3>1, <3>4 DEF Items, AtMember
    <3>6. Linked(q)'
      BY <1>1, <3>2, <3>5, MapsGrow
    <3> QED BY <3>1, <3>2, <3>6
  <2>5. Len(cs) > Base'
    BY <1>3, <1>6, <2>1 DEF InObject
  <2>6. InObject'
    BY <2>1, <2>2, <2>4, <2>5, InObjectIs
  <2> QED BY <1>4, <2>6 DEF SaidSoFar
<1>7. CASE Between
  <2>1. Between'
    BY <1>1, <1>3, <1>7 DEF Between
  <2> QED BY <1>4, <2>1 DEF SaidSoFar
<1> QED BY <1>2, <1>5, <1>6, <1>7

-----------------------------------------------------------------------------
\* A call begins with all that there is to say, and with nothing said.

\* Reading(v) stands for the object that v is.
LEMMA ReadingSays ==
    ASSUME NEW v, op' \in {"from_json_value", "from_json_string", "operator>>"}, json' = v,
           calls' = <<Reading(v)>>,
           result' = Fresh
    PROVE  SaidSoFar'
<1>1. Base' = 0 /\ Current' = v /\ op' # "from_json_object" /\ op' # "array_from_json_value"
  BY DEF Base, Current
<1>2. PICK cs, r : cs = <<r>> /\ r = Reading(v) /\ cs = calls'
  OBVIOUS
<1>3. Len(cs) = 1 /\ cs[1] = r
  BY <1>2
<1>4. Beginning'
  BY <1>1, <1>2, <1>3 DEF Beginning, Reading
<1>5. Collected'
  BY <1>1 DEF Collected
<1> QED BY <1>4, <1>5 DEF SaidSoFar

LEMMA FromJsonObjectSays ==
    ASSUME NEW S, NEW B, NEW V, NEW K, NEW O, Standing(S, B, V, K, O), Plainly, Idle, FromJsonObject
    PROVE  SaidSoFar'
<1>1. PICK v \in Inputs[made + 1] :
          v[1] = "object" /\ Call("from_json_object", v, Frame("items", Root, <<>>, v[2]))
  BY DEF FromJsonObject
<1>2. v \in S /\ JsonSet(S)
  BY InputType DEF Standing
<1>3. PICK h, cs : h = Frame("items", Root, <<>>, v[2]) /\ cs = <<h>>
  OBVIOUS
<1>4. /\ op' = "from_json_object" /\ json' = v /\ calls' = cs /\ before' = object
      /\ UNCHANGED <<registered, object>>
  BY <1>1, <1>3 DEF Call
<1>5. Len(cs) = 1 /\ cs[1] = h /\ h.at = "items" /\ h.path = <<>> /\ h.rest = v[2]
  <2>1. h.at = "items" /\ h.path = <<>> /\ h.rest = v[2]
    BY <1>3, FrameFields
  <2> QED BY <1>3, <2>1
<1>6. Base' = 0 /\ Target' = object /\ Found' = object /\ (\A p : Source(p)' = v)
  BY <1>4 DEF Base, Target, Found, Source
<1>7. ASSUME NEW p \in Paths PROVE Progress(p)'
  <2>1. PICK L, M, o : L = Lefts(cs, p) /\ M = Mentions(v, p) /\ o = object
    OBVIOUS
  <2>2. L[1] = M
    <3>1. p # <<>> /\ p \in Seq(Names)
      BY PathBegins, PathType
    <3>2. Left(h, p) = M
      BY <1>1, <1>2, <1>5, <2>1, <3>1, LeftOfObject
    <3>3. 1 \in 1 .. Len(cs)
      BY <1>5
    <3>4. L[1] = Left(cs[1], p)
      BY <2>1, <3>3, LeftsAt
    <3> QED BY <1>5, <3>2, <3>4
  <2>3. Agreed(L, 1, M, o[p], o[p], LinkAt(p))
    <3>1. 1 \in Nat \ {0} /\ 1 .. 1 - 1 = {}
      OBVIOUS
    <3> QED BY <2>2, <3>1, AgreedBegins
  <2>4. PICK w : w = Source(p)' /\ w = v
    BY <1>6
  <2>5. Agreed(Lefts(cs, p), Len(cs), Mentions(w, p), o[p], o[p], LinkAt(p))
    BY <1>5, <2>1, <2>3, <2>4
  <2> QED BY <1>4, <1>6, <2>1, <2>4, <2>5 DEF Progress
<1>8. ASSUME NEW k \in Base' + 1 .. Len(cs) PROVE cs[k].at = "items" /\ Linked(cs[k].path)'
  <2>1. k = 1
    BY <1>5, <1>6
  <2>2. PICK q : q = <<>>
    OBVIOUS
  <2>3. Linked(q)'
    BY <1>4, <2>2, NoneIsLinked, LinkedStays
  <2> QED BY <1>5, <2>1, <2>2, <2>3
<1>9. Len(cs) > Base'
  BY <1>5, <1>6
<1>10. InObject'
  BY <1>4, <1>7, <1>8, <1>9, InObjectIs
<1>11. Collected'
  BY <1>4 DEF Collected
<1> QED BY <1>10, <1>11 DEF SaidSoFar

LEMMA ArraySays ==
    ASSUME NEW S, NEW B, NEW V, NEW K, NEW O, Standing(S, B, V, K, O), Plainly, Idle,
           ArrayFromJsonValue
    PROVE  SaidSoFar'
<1>1. PICK v \in Inputs[made + 1] :
          Call("array_from_json_value", v,
               Frame("elements", Root, <<>>, IF v[1] = "array" THEN v[2] ELSE <<>>))
  BY DEF ArrayFromJsonValue
<1>2. v \in S /\ JsonSet(S)
  BY InputType DEF Standing
<1>3. PICK w : w = v[2] /\ (v[1] = "array" => w \in Seq(S))
  BY <1>2, ContentType
<1>4. PICK ws : ws = IF v[1] = "array" THEN w ELSE <<>>
  OBVIOUS
<1>5. PICK f, cs : f = Frame("elements", Root, <<>>, ws) /\ cs = <<f>>
  OBVIOUS
<1>6. op' = "array_from_json_value" /\ json' = v /\ calls' = cs
  BY <1>1, <1>3, <1>4, <1>5 DEF Call
<1>7. Len(cs) = 1 /\ cs[1] = f /\ f.at = "elements" /\ f.rest = ws /\ f.out = <<>>
  <2>1. f.at = "elements" /\ f.rest = ws /\ f.out = <<>>
    BY <1>5, FrameFields
  <2> QED BY <1>5, <2>1
<1>8. PICK e : e = <<>> /\ Len(e) = 0 /\ DOMAIN e = {}
  OBVIOUS
<1>9. f.out = e
  BY <1>7, <1>8
<1>10. SaidOf(e)'
  BY <1>8 DEF SaidOf
<1>11. ASSUME json'[1] = "array"
       PROVE  /\ Len(calls'[1].out) + Len(calls'[1].rest) + (IF Len(calls') > 1 THEN 1 ELSE 0) = Len(json'[2])
              /\ \A i \in DOMAIN calls'[1].rest :
                    calls'[1].rest[i] = json'[2][Len(json'[2]) - Len(calls'[1].rest) + i]
  <2>1. PICK n \in Nat : n = Len(w) /\ DOMAIN w = 1 .. n /\ ws = w
    BY <1>3, <1>4, <1>6, <1>11, LenProperties
  <2>2. calls'[1].out = e /\ calls'[1].rest = w /\ json'[2] = w /\ Len(calls') = 1
    BY <1>3, <1>6, <1>7, <1>9, <2>1
  <2>3. 0 + n + (IF 1 > 1 THEN 1 ELSE 0) = n /\ \A i \in 1 .. n : n - n + i = i
    OBVIOUS
  <2>4. \A i \in DOMAIN w : w[i] = w[Len(w) - Len(w) + i]
    BY <2>1, <2>3
  <2> QED BY <1>8, <2>1, <2>2, <2>3, <2>4
<1>12. SaidOf(calls[1].out)'
  <2>1. calls'[1].out = e
    BY <1>6, <1>7, <1>9
  <2> QED BY <1>10, <2>1
<1>13. Collected'
  <2>1. calls'[1].at = "elements" /\ Len(calls') = 1 /\ (json'[1] # "array" => calls'[1].rest = <<>>)
    BY <1>4, <1>6, <1>7
  <2> QED BY <1>11, <1>12, <2>1 DEF Collected
<1>14. Between'
  BY <1>6, <1>7 DEF Between, Base
<1> QED BY <1>13, <1>14 DEF SaidSoFar

LEMMA StartingSays ==
    ASSUME NEW S, NEW B, NEW V, NEW K, NEW O, Standing(S, B, V, K, O), Plainly, Start
    PROVE  SaidSoFar'
<1>1. Idle
  BY DEF Start
<1>2. CASE FromJsonValue
  <2>1. PICK v : Call("from_json_value", v, Reading(v))
    BY <1>2 DEF FromJsonValue
  <2> QED BY <2>1, ReadingSays DEF Call
<1>3. CASE FromJsonString
  <2>1. PICK v : Call("from_json_string", v, Reading(v))
    BY <1>3 DEF FromJsonString
  <2> QED BY <2>1, ReadingSays DEF Call
<1>4. CASE FromJsonObject
  BY <1>1, <1>4, FromJsonObjectSays
<1>5. CASE ArrayFromJsonValue
  BY <1>1, <1>5, ArraySays
<1>6. CASE ReadStream
  <2>1. PICK v : Call("operator>>", v, Reading(v))
    BY <1>6 DEF ReadStream
  <2> QED BY <2>1, ReadingSays DEF Call
<1>8. CASE ToJsonString
  BY <1>8 DEF ToJsonString, Call, SaidSoFar, ReadOps
<1>7. CASE FromMissingFile \/ ArrayFromMissingFile
  BY <1>7 DEF FromMissingFile, ArrayFromMissingFile, MissingFile, SaidSoFar, ReadOps
<1> QED BY <1>2, <1>3, <1>4, <1>5, <1>6, <1>7, <1>8 DEF Start

-----------------------------------------------------------------------------
\* Each step of a read says what is due.

LEMMA ProceedSays ==
    ASSUME NEW S, NEW B, NEW V, NEW K, NEW O, Standing(S, B, V, K, O), Plainly, SaidSoFar,
           op \in ReadOps, Proceed
    PROVE  /\ SaidSoFar'
           /\ status' = "returned" => EndReading \/ EndElements
<1>0. status = "running"
  BY ProceedIsPlain
<1>1. Top.at \in {"items", "from_json_value", "elements"}
  BY <1>0, Phase
<1>2. CASE Register \/ StartReading \/ SkipUnlinked \/ ReadMember \/ ReadNested \/ EndNested
           \/ ReadElement \/ EndElement
  <2>1. status' = status
    BY <1>2 DEF Register, StartReading, SkipUnlinked, ReadMember, ReadNested, EndNested,
                ReadElement, EndElement, Go
  <2>2. CASE Register
    <3>1. UNCHANGED <<calls, result, object, op, json, before, status>>
      BY <2>2 DEF Register, Go
    <3> QED BY <1>0, <2>1, <2>2, <3>1, MapsSay
  <2> QED BY <1>0, <1>2, <2>1, <2>2, StartReadingSays, SkipSays, MemberSays, NestedSays,
             EndNestedSays, ElementSays, EndElementSays
<1>3. CASE RegisterThrows \/ NotAnObject \/ UseMissing \/ FailAssertion \/ RefuseMember
           \/ RefuseNested \/ NotAnArray
  BY <1>3 DEF RegisterThrows, NotAnObject, UseMissing, FailAssertion, RefuseMember, RefuseNested,
              NotAnArray, Stop, SaidSoFar
<1>4. CASE EndReading \/ EndElements
  BY <1>4 DEF EndReading, EndElements, Stop, SaidSoFar
<1>5. CASE StartWriting \/ WriteMember \/ WriteNested \/ EndNestedText \/ EndWriting
  BY <1>1, <1>5 DEF StartWriting, WriteMember, WriteNested, EndNestedText, EndWriting, At
<1> QED BY <1>2, <1>3, <1>4, <1>5 DEF Proceed

\* No call of from_file runs when the file is not there.
Runs == status = "running" => op \in ReadOps \cup {"to_json_string"}
Said == Inv /\ KeepsObject /\ Runs /\ SaidSoFar /\ ListSaid /\ ReadsWhatIsSaid

LEMMA StartedSays ==
    ASSUME Start
    PROVE  Runs' /\ ListSaid' /\ ReadsWhatIsSaid'
<1>1. CASE FromJsonValue \/ FromJsonString \/ ReadStream \/ FromJsonObject \/ ToJsonString
           \/ ArrayFromJsonValue
  BY <1>1 DEF FromJsonValue, FromJsonString, ReadStream, FromJsonObject, ToJsonString,
              ArrayFromJsonValue, Call, Runs, ReadOps, ListSaid, ReadsWhatIsSaid
<1>2. CASE FromMissingFile
  BY <1>2 DEF FromMissingFile, MissingFile, Runs, ReadOps, ListSaid, ReadsWhatIsSaid
<1>3. CASE ArrayFromMissingFile
  BY <1>3 DEF ArrayFromMissingFile, MissingFile, Runs, ReadOps, ListSaid, ReadsWhatIsSaid
<1> QED BY <1>1, <1>2, <1>3 DEF Start

\* A call that is not a read leaves the object.
LEMMA OthersSay ==
    ASSUME KeepsObject', op' \notin {"from_json_value", "from_json_string", "from_json_object", "from_file"}
    PROVE  ReadsWhatIsSaid'
<1>1. object' = before'
  BY DEF KeepsObject, Replaces
<1> QED BY <1>1 DEF ReadsWhatIsSaid

LEMMA SaidStep == Said /\ [Next]_vars => Said'
<1> SUFFICES ASSUME Said, [Next]_vars PROVE Said'
  OBVIOUS
<1>1. Inv' /\ KeepsObject' /\ Plainly /\ SaidSoFar
  BY InvStep, StepKeeps DEF Said, Inv
<1>2. PICK S, B, V, K, O : Standing(S, B, V, K, O)
  BY DEF Said, Inv
<1>3. CASE Start
  BY <1>1, <1>2, <1>3, StartingSays, StartedSays DEF Said
<1>4. CASE Proceed
  <2>1. op' = op /\ status = "running" /\ op # "from_file"
    BY <1>4, ProceedIsPlain DEF Said, Runs, ReadOps
  <2>2. Runs'
    BY <2>1 DEF Said, Runs
  <2>3. CASE op \in ReadOps
    <3>1. SaidSoFar' /\ (status' = "returned" => EndReading \/ EndElements)
      BY <1>1, <1>2, <1>4, <2>3, ProceedSays
    <3>2. CASE status' # "returned"
      BY <1>1, <2>2, <3>1, <3>2 DEF Said, ListSaid, ReadsWhatIsSaid
    <3>3. CASE EndReading
      <4>1. ReadsWhatIsSaid' /\ op # "array_from_json_value"
        <5>1. CASE op = "operator>>"
          BY <1>1, <2>1, <5>1, OthersSay
        <5> QED BY <1>1, <1>2, <2>3, <3>3, <5>1, EndReadingSays
      <4> QED BY <1>1, <2>1, <2>2, <3>1, <4>1 DEF Said, ListSaid
    <3>4. CASE EndElements
      <4>1. ListSaid'
        BY <1>1, <1>2, <2>3, <3>4, EndElementsSays
      <4>2. op = "array_from_json_value"
        <5>1. Top.at = "elements"
          BY <3>4 DEF EndElements, At
        <5> QED BY <1>1, <1>2, <2>1, <2>3, <5>1, Phase
      <4>3. ReadsWhatIsSaid'
        BY <1>1, <2>1, <4>2, OthersSay
      <4> QED BY <1>1, <2>2, <3>1, <4>1, <4>3 DEF Said
    <3> QED BY <3>1, <3>2, <3>3, <3>4
  <2>4. CASE op \notin ReadOps
    <3>1. ReadsWhatIsSaid'
      BY <1>1, <2>1, <2>4, OthersSay DEF ReadOps
    <3> QED BY <1>1, <2>1, <2>2, <2>4, <3>1 DEF Said, SaidSoFar, ListSaid, ReadOps
  <2> QED BY <2>3, <2>4
<1>5. CASE UNCHANGED vars
  <2>1. /\ Runs' /\ registered' = registered
        /\ UNCHANGED <<status, op, json, list, object, before, calls, result>>
    BY <1>5 DEF Said, Runs, vars, program
  <2>2. ReadsWhatIsSaid'
    BY <1>5 DEF Said, ReadsWhatIsSaid, Meaning, Linked, Known, vars, program
  <2>3. ListSaid'
    BY <1>5 DEF Said, ListSaid, SaidOf, Says, Linked, Dead, Asked, ClassAt, Known, vars, program
  <2>4. SaidSoFar'
    <3>1. CASE status = "running" /\ op \in ReadOps
      BY <1>1, <1>2, <2>1, <3>1, MapsSay
    <3>2. CASE ~(status = "running" /\ op \in ReadOps)
      BY <2>1, <3>2 DEF SaidSoFar
    <3> QED BY <3>1, <3>2
  <2> QED BY <1>1, <2>1, <2>2, <2>3, <2>4 DEF Said
<1> QED BY <1>3, <1>4, <1>5 DEF Next

LEMMA InitSaid == Init => Said
<1> SUFFICES ASSUME Init PROVE Said
  OBVIOUS
<1>1. Inv /\ KeepsObject
  BY InitStands, InitKeeps DEF Inv
<1>2. Runs /\ SaidSoFar /\ ListSaid /\ ReadsWhatIsSaid
  BY DEF Init, Runs, SaidSoFar, ListSaid, ReadsWhatIsSaid
<1> QED BY <1>1, <1>2 DEF Said

\* Whatever its classes and their maps, a read that returns leaves in each
\* linked member what its text says: the value of the first member of each name,
\* or, for from_json_object, of the last mention, also where objects repeat;
\* and what the member had, where the text says nothing.
THEOREM ReadsSay == Spec => []ReadsWhatIsSaid
<1>1. Said => ReadsWhatIsSaid
  BY DEF Said
<1> QED BY <1>1, InitSaid, SaidStep, PTL DEF Spec

\* array_from_json_value makes one object of each element, in their order, with
\* what that element says and nothing from those before it.
THEOREM ElementsSay == Spec => []ElementsAreTheirOwn
<1>1. Said => ElementsAreTheirOwn
  <2> SUFFICES ASSUME Said, status = "returned", op = "array_from_json_value"
               PROVE  /\ Len(list) = Len(json[2])
                      /\ \A i \in DOMAIN list : \A p \in Paths :
                             list[i][p] = Meaning(FirstOf(json[2][i], p[1]), p, Fresh)
    BY DEF ElementsAreTheirOwn
  <2>1. Len(list) = Len(json[2]) /\ SaidOf(list)
    BY DEF Said, ListSaid
  <2>2. ASSUME NEW i \in DOMAIN list, NEW p \in Paths
        PROVE  list[i][p] = Meaning(FirstOf(json[2][i], p[1]), p, Fresh)
    BY <2>1, <2>2, SaysMeaning DEF SaidOf
  <2> QED BY <2>1, <2>2
<1> QED BY <1>1, InitSaid, SaidStep, PTL DEF Spec
-----------------------------------------------------------------------------
\* What a member makes of what was printed of it.

LEMMA RoundedIs ==
    ASSUME NEW x \in Int, NEW s \in Nat \ {0}, x % s = 0
    PROVE  s * ((x + s \div 2) \div s) = x
<1>1. PICK q \in Int : q = x \div s /\ x = s * q
  OBVIOUS
<1>2. PICK h \in Int : h = s \div 2 /\ 0 <= h /\ h < s
  OBVIOUS
<1>3. (s * q + h) \div s = q
  BY <1>2
<1> QED BY <1>1, <1>2, <1>3

LEMMA NarrowIs ==
    ASSUME NEW n \in -Half .. Half - 1
    PROVE  Narrow(n) = n /\ Fits(n)
<1>1. PICK h \in Nat \ {0} : h = Half
  BY BoundAssumption
<1>2. PICK k \in Int : k = n + h /\ 0 <= k /\ k < 2 * h
  BY <1>1
<1>3. k % (2 * h) = k
  BY <1>2
<1>4. Narrow(n) = k - h
  BY <1>1, <1>2, <1>3 DEF Narrow
<1> QED BY <1>1, <1>2, <1>4 DEF Fits

LEMMA PrintedOneIs ==
    ASSUME NEW kind, NEW x
    PROVE  LET y == PrintedOne(kind, x) IN
           y[1] = kind /\ y[2] = IF kind = "real" THEN Step * ((x + Step \div 2) \div Step) ELSE x
<1>1. PICK z : z = IF kind = "real" THEN Step * ((x + Step \div 2) \div Step) ELSE x
  OBVIOUS
<1>2. PrintedOne(kind, x) = <<kind, z>>
  BY <1>1, Zenon DEF PrintedOne
<1> QED BY <1>1, <1>2

\* A portable value is taken, and is the same as before.
Returns(kind, x) ==
    LET y == PrintedOne(kind, x) IN
    TakesOne(kind, y) /\ HeldOne(kind, y) = x /\ (kind = "integer" => Fits(y[2]))

LEMMA PortableReturns ==
    ASSUME NEW kind \in Scalars, NEW x \in HeldBy(kind), PortableOne(kind, x)
    PROVE  Returns(kind, x)
<1>1. CASE kind = "integer"
  <2>1. x \in -Half .. Half - 1
    BY <1>1 DEF HeldBy
  <2>2. PICK y : y = PrintedOne(kind, x) /\ y[1] = "integer" /\ y[2] = x
    BY <1>1, PrintedOneIs
  <2>3. TakesOne(kind, y)
    BY <1>1, <2>2 DEF TakesOne
  <2>4. HeldOne(kind, y) = Narrow(x)
    BY <1>1, <2>2 DEF HeldOne
  <2> QED BY <2>1, <2>2, <2>3, <2>4, NarrowIs DEF Returns
<1>2. CASE kind = "real"
  <2>1. x \in Int /\ x % Step = 0 /\ Step \in Nat \ {0}
    BY <1>2, BoundAssumption DEF HeldBy, PortableOne
  <2>2. PICK y : y = PrintedOne(kind, x) /\ y[1] = "real" /\ y[2] = Step * ((x + Step \div 2) \div Step)
    BY <1>2, PrintedOneIs
  <2>3. y[2] = x
    BY <2>1, <2>2, RoundedIs
  <2>4. TakesOne(kind, y) /\ HeldOne(kind, y) = y[2]
    BY <1>2, <2>2 DEF TakesOne, HeldOne
  <2> QED BY <1>2, <2>2, <2>3, <2>4 DEF Returns
<1>3. CASE kind = "string"
  <2>1. x # "empty"
    BY <1>3 DEF PortableOne
  <2>2. PICK y : y = PrintedOne(kind, x) /\ y[1] = "string" /\ y[2] = x
    BY <1>3, PrintedOneIs
  <2>3. TakesOne(kind, y) /\ HeldOne(kind, y) = x
    BY <1>3, <2>1, <2>2 DEF TakesOne, HeldOne
  <2> QED BY <1>3, <2>2, <2>3 DEF Returns
<1>4. CASE kind = "boolean"
  <2>1. kind # "integer" /\ kind # "real" /\ kind # "string"
    BY <1>4
  <2>2. PrintedOne(kind, x) = <<"boolean", x>>
    BY <1>4, <2>1, Zenon DEF PrintedOne
  <2>3. PICK y, z : z = x /\ y = <<"boolean", z>> /\ y = PrintedOne(kind, x)
    BY <2>2
  <2>4. y[1] = "boolean" /\ y[2] = z
    BY <2>3
  <2>5. TakesOne(kind, y)
    BY <1>4, <2>1, <2>4, Zenon DEF TakesOne
  <2>6. HeldOne(kind, y) = y[2]
    BY <2>1, Zenon DEF HeldOne
  <2>7. HeldOne(kind, y) = x
    BY <2>3, <2>4, <2>6, Zenon
  <2> QED BY <2>1, <2>3, <2>5, <2>7, Zenon DEF Returns
<1> QED BY <1>1, <1>2, <1>3, <1>4 DEF Scalars

PortableIn(link, x) ==
    IF link.array THEN \A i \in DOMAIN x : PortableOne(link.kind, x[i]) ELSE PortableOne(link.kind, x)

\* So is a portable member.
LEMMA PrintedReturns ==
    ASSUME NEW link, link.kind \in Scalars, link.array \in BOOLEAN,
           NEW x \in HeldFor(link), PortableIn(link, x)
    PROVE  /\ Takes(link, Printed(link, x)) /\ Held(link, Printed(link, x)) = x
           /\ link.kind = "integer" /\ ~link.array => Fits(Printed(link, x)[2])
<1>1. PICK kind \in Scalars : kind = link.kind
  OBVIOUS
<1>2. CASE ~link.array
  <2>1. x \in HeldBy(kind) /\ PortableOne(kind, x)
    BY <1>1, <1>2, Zenon DEF HeldFor, PortableIn
  <2>2. Returns(kind, x)
    BY <2>1, PortableReturns, Zenon
  <2>3. PICK y : y = Printed(link, x) /\ y = PrintedOne(kind, x)
    BY <1>1, <1>2 DEF Printed
  <2>4. TakesOne(kind, y) /\ HeldOne(kind, y) = x /\ (kind = "integer" => Fits(y[2]))
    BY <2>2, <2>3, Zenon DEF Returns
  <2>5. Takes(link, y) /\ Held(link, y) = x
    BY <1>1, <1>2, <2>4, Zenon DEF Takes, Held
  <2> QED BY <1>1, <2>3, <2>4, <2>5, Zenon
<1>3. CASE link.array
  <2>1. x \in Seq(HeldBy(kind)) /\ \A i \in DOMAIN x : PortableOne(kind, x[i])
    BY <1>1, <1>3, Zenon DEF HeldFor, PortableIn
  <2>2. PICK n \in Nat : n = Len(x) /\ DOMAIN x = 1 .. n /\ \A i \in 1 .. n : x[i] \in HeldBy(kind)
    BY <2>1, LenProperties, ElementOfSeq
  <2> DEFINE One(i) == PrintedOne(kind, x[i])
  <2>3. PICK ys : ys = [i \in 1 .. n |-> One(i)]
    OBVIOUS
  <2>4. Printed(link, x) = <<"array", ys>>
    BY <1>1, <1>3, <2>2, <2>3 DEF Printed
  <2>5. \A i \in 1 .. n : Returns(kind, x[i])
    BY <2>1, <2>2, PortableReturns, Zenon
  <2>6. \A i \in 1 .. n : ys[i] = One(i)
    BY <2>3
  <2>7. \A i \in 1 .. n : TakesOne(kind, ys[i]) /\ HeldOne(kind, ys[i]) = x[i]
    BY <2>5, <2>6, Zenon DEF Returns
  <2> HIDE DEF One
  <2>8. PICK y : y = Printed(link, x) /\ y[1] = "array" /\ y[2] = ys
    BY <2>4
  <2>9. DOMAIN ys = 1 .. n /\ Len(ys) = n
    BY <2>3
  <2>10. Takes(link, y)
    BY <1>1, <1>3, <2>7, <2>8, <2>9, Zenon DEF Takes
  <2> DEFINE good == {k \in 0 .. n : \A i \in 1 .. k : TakesOne(kind, ys[i])}
  <2>11. n \in good /\ good \subseteq 0 .. n
    BY <2>7
  <2>12. Max(good) = n
    <3>1. PICK g : g = good /\ g \subseteq 0 .. n /\ n \in g
      BY <2>11
    <3>2. Max(g) \in g /\ n <= Max(g)
      BY <3>1, MaxIsGreatest
    <3>3. Max(g) \in 0 .. n
      BY <3>1, <3>2
    <3> QED BY <3>1, <3>2, <3>3
  <2>13. Copied(link, y) = [i \in 1 .. n |-> HeldOne(kind, ys[i])]
    <3>1. Copied(link, y) = [i \in 1 .. Max(good) |-> HeldOne(kind, ys[i])]
      BY <1>1, <2>8, <2>9 DEF Copied
    <3> HIDE DEF good
    <3> QED BY <2>12, <3>1
  <2>14. Copied(link, y) = x
    <3>1. [i \in 1 .. n |-> HeldOne(kind, ys[i])] = [i \in 1 .. n |-> x[i]]
      BY <2>7
    <3>2. [i \in 1 .. n |-> x[i]] = x
      BY <2>1, <2>2
    <3> QED BY <2>13, <3>1, <3>2
  <2>15. Held(link, y) = x
    BY <1>3, <2>14, Zenon DEF Held
  <2> QED BY <1>3, <2>8, <2>10, <2>15, Zenon
<1> QED BY <1>2, <1>3
-----------------------------------------------------------------------------
\* What a text says of an object.  W are pieces of the text, each with the path
\* of the member that it was printed for.

NamesOf(ms) == [i \in DOMAIN ms |-> ms[i][1]]

\* y has each name in the map of c once.
Complete(y, c) ==
    y[1] = "object" /\ Asked(c) /\ \A name \in Known(c) : HasOnce(NamesOf(y[2]), name)

Piece(p, y, W, o) ==
    IF LinkAt(p).kind \in Classes
    THEN /\ Complete(y, LinkAt(p).kind)
         /\ \A i \in DOMAIN y[2] : <<Append(p, y[2][i][1]), y[2][i][2]>> \in W
    ELSE y = Printed(LinkAt(p), o[p])
Pieces(S, W, o) ==
    JsonSet(S) /\ W \subseteq Seq(Names) \X S /\ \A w \in W : Piece(w[1], w[2], W, o)

\* The members on the path are all in the maps of their classes.
Reached(p) == \A i \in DOMAIN p : ClassAt(p, i) \in Classes /\ p[i] \in Known(ClassAt(p, i))

LEMMA ReachedIs ==
    ASSUME NEW m \in Members, Linked(m[1])
    PROVE  Reached(m[1])
<1>1. PICK p : p = m[1]
  OBVIOUS
<1>2. Reached(p)
  BY <1>1, MemberClasses, LinkedIs DEF Reached
<1> QED BY <1>1, <1>2

LEMMA ReachedBefore ==
    ASSUME NEW q \in Seq(Names), NEW name \in Names, Reached(Append(q, name))
    PROVE  Reached(q) /\ LinkAt(q).kind \in Classes /\ name \in Known(LinkAt(q).kind)
<1>1. PICK n \in Nat : n = Len(q)
  BY LenProperties
<1>2. PICK p : p = Append(q, name)
  OBVIOUS
<1>3. p \in Seq(Names) /\ Len(p) = n + 1 /\ p[n + 1] = name /\ \A i \in 1 .. n : p[i] = q[i]
  BY <1>1, <1>2, AppendProperties
<1>4. DOMAIN p = 1 .. n + 1 /\ DOMAIN q = 1 .. n
  BY <1>1, <1>3, LenProperties
<1>5. \A i \in 0 .. n : SubSeq(p, 1, i) = SubSeq(q, 1, i)
  <2> TAKE i \in 0 .. n
  <2>1. i \in 0 .. n + 1 /\ \A j \in 1 .. i : j \in 1 .. n
    OBVIOUS
  <2> QED BY <1>1, <1>3, <2>1, BeginningSame
<1>6. \A i \in 1 .. n + 1 : ClassAt(p, i) \in Classes /\ p[i] \in Known(ClassAt(p, i))
  BY <1>2, <1>4 DEF Reached
<1>7. ASSUME NEW i \in 1 .. n PROVE ClassAt(q, i) \in Classes /\ q[i] \in Known(ClassAt(q, i))
  <2>1. i - 1 \in 0 .. n /\ i \in 1 .. n + 1
    OBVIOUS
  <2>2. ClassAt(p, i) = ClassAt(q, i)
    BY <1>5, <2>1 DEF ClassAt
  <2> QED BY <1>3, <1>6, <2>1, <2>2
<1>8. ClassAt(p, n + 1) = LinkAt(q).kind
  <2>1. (n + 1) - 1 = n /\ n \in 0 .. n
    OBVIOUS
  <2>2. SubSeq(q, 1, n) = q
    BY <1>1, BeginningAll
  <2> QED BY <1>5, <2>1, <2>2 DEF ClassAt
<1>9. n + 1 \in 1 .. n + 1
  OBVIOUS
<1> QED BY <1>3, <1>4, <1>6, <1>7, <1>8, <1>9 DEF Reached

\* An object that has a name once mentions one value under it.
LEMMA NamedSole ==
    ASSUME NEW S, JsonSet(S), NEW y \in S, y[1] = "object", NEW name \in Names,
           HasOnce(NamesOf(y[2]), name)
    PROVE  \E i \in DOMAIN y[2] :
               /\ y[2][i][1] = name /\ y[2][i][2] \in S
               /\ Named(y, name) = <<y[2][i][2]>>
               /\ Named(FirstOf(y, name), name) = <<y[2][i][2]>>
<1>1. PICK ms : ms = y[2] /\ ms \in Seq(Names \X S)
  BY ContentType
<1>2. PICK n \in Nat : n = Len(ms) /\ DOMAIN ms = 1 .. n
  BY <1>1, LenProperties
<1>3. PICK i \in 1 .. n : ms[i][1] = name /\ \A j \in 1 .. n : ms[j][1] = name => j = i
  <2>1. PICK ns : ns = [j \in 1 .. n |-> ms[j][1]]
    OBVIOUS
  <2>2. HasOnce(ns, name)
    BY <1>1, <1>2, <2>1 DEF NamesOf
  <2>3. DOMAIN ns = 1 .. n /\ \A j \in 1 .. n : ns[j] = ms[j][1]
    BY <2>1
  <2>4. PICK i \in 1 .. n : ns[i] = name /\ \A j \in 1 .. n : ns[j] = name => j = i
    BY <2>2, <2>3, Zenon DEF HasOnce
  <2>5. ms[i][1] = name /\ \A j \in 1 .. n : ms[j][1] = name => j = i
    BY <2>3, <2>4
  <2> QED BY <2>5
<1>4. PICK x : x = ms[i][2] /\ x \in S
  <2>1. PICK T : T = Names \X S
    OBVIOUS
  <2>2. ms[i] \in T
    BY <1>1, <1>2, <2>1, ElementOfSeq
  <2> QED BY <2>1, <2>2
<1>5. FlattenSeq(Picked(ms, name)) = <<x>>
  <2>1. PICK ss, V : ss = Picked(ms, name) /\ V = Seq(S)
    OBVIOUS
  <2>2. ss \in Seq(V) /\ Len(ss) = n
    BY <1>1, <1>2, <2>1, PickedType
  <2>3. \A j \in 1 .. n : ss[j] = IF ms[j][1] = name THEN <<ms[j][2]>> ELSE <<>>
    BY <1>2, <2>1, Zenon DEF Picked
  <2>4. \A j \in 1 .. n : j # i => ss[j] = <<>>
    BY <1>3, <2>3, Zenon
  <2>5. ss[i] = <<x>>
    BY <1>3, <1>4, <2>3, Zenon
  <2>6. FlattenSeq(ss) = ss[i]
    BY <2>1, <2>2, <2>4, FlattenSole
  <2> QED BY <2>1, <2>5, <2>6
<1>6. Named(y, name) = <<x>>
  BY <1>1, <1>5 DEF Named, Picked
<1>7. PICK w : w = FirstOf(y, name)
  OBVIOUS
<1>8. w[1] = "object" /\ w[2] = <<ms[i]>>
  <2>1. PICK named : named = {j \in DOMAIN ms : ms[j][1] = name}
    OBVIOUS
  <2>2. named = {i}
    BY <1>2, <1>3, <2>1
  <2>3. Min(named) = i /\ named # {}
    <3>1. named \subseteq Nat /\ named # {}
      BY <2>2
    <3> QED BY <2>2, <3>1, MinIsLeast
  <2>4. w = <<y[1], <<ms[Min(named)]>>>>
    BY <1>1, <1>7, <2>1, <2>3, Zenon DEF FirstOf
  <2> QED BY <2>3, <2>4
<1>9. Named(w, name) = <<x>>
  <2>1. PICK us : us = w[2]
    OBVIOUS
  <2>2. DOMAIN us = {1} /\ us[1] = ms[i]
    BY <1>8, <2>1
  <2>3. Picked(us, name) = [j \in {1} |-> <<x>>]
    BY <1>3, <1>4, <2>2 DEF Picked
  <2>4. Picked(us, name) = <<<<x>>>>
    BY <2>3
  <2>5. <<x>> \in Seq(S)
    BY <1>4
  <2>6. FlattenSeq(<<<<x>>>>) = <<x>>
    BY <2>5, FlattenOne
  <2>7. Named(w, name) = FlattenSeq(Picked(us, name))
    BY <1>8, <2>1 DEF Named, Picked
  <2> QED BY <2>4, <2>6, <2>7
<1> QED BY <1>1, <1>2, <1>3, <1>4, <1>6, <1>7, <1>9

LEMMA MentionsNext ==
    ASSUME NEW v, NEW q \in Seq(Names), NEW name \in Names
    PROVE  Mentions(v, Append(q, name)) = Onward(Mentions(v, q), name)
  BY MentionsUnfolds

\* A text whose member of that name is the piece first, and is in no other.
SaysFirst(S, W, o, T, v, a, first) ==
    /\ Pieces(S, W, o) /\ JsonSet(T) /\ v \in T
    /\ first \in S /\ <<<<a>>, first>> \in W /\ Named(v, a) = <<first>>

SaysBelow(S, W, v, a) ==
    \A p \in Seq(Names) :
        p # <<>> /\ p[1] = a /\ Reached(p) => \E y \in S : <<p, y>> \in W /\ Mentions(v, p) = <<y>>

\* What the pieces of a text say of the members below the one named a, when v
\* has the piece for a under that name.
LEMMA PiecesSay ==
    ASSUME NEW S, NEW W, NEW o, NEW T, NEW v, NEW a \in Names, NEW first,
           SaysFirst(S, W, o, T, v, a, first)
    PROVE  SaysBelow(S, W, v, a)
<1> DEFINE Said1(p) == \E y \in S : <<p, y>> \in W /\ Mentions(v, p) = <<y>>
           P == {k \in Nat : \A p \in Seq(Names) : Len(p) = k + 1 /\ p[1] = a /\ Reached(p) => Said1(p)}
<1>0. /\ Pieces(S, W, o) /\ JsonSet(T) /\ v \in T
      /\ first \in S /\ <<<<a>>, first>> \in W /\ Named(v, a) = <<first>>
  BY Zenon DEF SaysFirst
<1>1. JsonSet(S) /\ W \subseteq Seq(Names) \X S /\ \A w \in W : Piece(w[1], w[2], W, o)
  BY <1>0, Zenon DEF Pieces
<1>2. \A p \in Seq(Names) : p # <<>> => \E q \in Seq(Names), name \in Names :
          p = Append(q, name) /\ Len(p) = Len(q) + 1 /\ Len(q) \in Nat
          /\ p[Len(p)] = name /\ \A i \in 1 .. Len(q) : p[i] = q[i]
  <2> SUFFICES ASSUME NEW p \in Seq(Names), p # <<>>
               PROVE  \E q \in Seq(Names), name \in Names :
                          p = Append(q, name) /\ Len(p) = Len(q) + 1 /\ Len(q) \in Nat
                          /\ p[Len(p)] = name /\ \A i \in 1 .. Len(q) : p[i] = q[i]
    OBVIOUS
  <2>1. PICK q \in Seq(Names), name \in Names : p = Append(q, name)
    BY SequenceEmptyOrAppend
  <2> QED BY <2>1, AppendProperties, LenProperties
<1>3. 0 \in P
  <2> SUFFICES ASSUME NEW p \in Seq(Names), Len(p) = 1, p[1] = a, Reached(p) PROVE Said1(p)
    OBVIOUS
  <2>1. p = <<a>>
    OBVIOUS
  <2>2. PICK e : e = <<>> /\ e \in Seq(Names)
    BY EmptySeq
  <2>3. p = Append(e, a)
    BY <2>1, <2>2
  <2>4. Mentions(v, e) = <<v>>
    BY <2>2, MentionsUnfolds, Zenon
  <2>5. Mentions(v, Append(e, a)) = Onward(Mentions(v, e), a)
    BY <2>2, MentionsNext
  <2>6. Mentions(v, p) = Onward(<<v>>, a)
    BY <2>3, <2>4, <2>5
  <2>7. Mentions(v, p) = <<first>>
    BY <1>0, <2>6, OnwardOne
  <2> QED BY <1>0, <2>1, <2>7
<1>4. ASSUME NEW k \in Nat, k \in P PROVE k + 1 \in P
  <2> SUFFICES ASSUME NEW p \in Seq(Names), Len(p) = (k + 1) + 1, p[1] = a, Reached(p) PROVE Said1(p)
    <3> HIDE DEF Said1
    <3> QED OBVIOUS
  <2>1. p # <<>>
    BY EmptySeq
  <2>2. PICK q \in Seq(Names), name \in Names :
            p = Append(q, name) /\ Len(p) = Len(q) + 1 /\ Len(q) \in Nat /\ \A i \in 1 .. Len(q) : p[i] = q[i]
    BY <1>2, <2>1
  <2>3. Len(q) = k + 1 /\ q[1] = a
    BY <2>2
  <2>4. Reached(q) /\ LinkAt(q).kind \in Classes /\ name \in Known(LinkAt(q).kind)
    BY <2>2, ReachedBefore
  <2>5. PICK y \in S : <<q, y>> \in W /\ Mentions(v, q) = <<y>>
    BY <1>4, <2>3, <2>4
  <2>6. Piece(q, y, W, o)
    BY <1>1, <2>5
  <2>7. /\ y[1] = "object" /\ HasOnce(NamesOf(y[2]), name)
        /\ \A i \in DOMAIN y[2] : <<Append(q, y[2][i][1]), y[2][i][2]>> \in W
    BY <2>4, <2>6, Zenon DEF Piece, Complete
  <2>8. PICK i \in DOMAIN y[2] : y[2][i][1] = name /\ y[2][i][2] \in S /\ Named(y, name) = <<y[2][i][2]>>
    BY <1>1, <2>7, NamedSole
  <2>9. PICK z \in S : z = y[2][i][2] /\ <<p, z>> \in W
    BY <2>2, <2>7, <2>8
  <2>10. Mentions(v, p) = Onward(<<y>>, name)
    <3>1. Mentions(v, Append(q, name)) = Onward(Mentions(v, q), name)
      BY MentionsNext
    <3> QED BY <2>2, <2>5, <3>1
  <2>11. Mentions(v, p) = <<z>>
    BY <1>1, <2>8, <2>9, <2>10, OnwardOne
  <2> QED BY <2>9, <2>11
<1> HIDE DEF P, Said1
<1>5. Nat \subseteq P
  BY <1>3, <1>4, NumberInduction
<1>6. ASSUME NEW p \in Seq(Names), p # <<>>, p[1] = a, Reached(p) PROVE Said1(p)
  <2>1. PICK k \in Nat : Len(p) = k + 1
    BY <1>2, <1>6
  <2> QED BY <1>5, <1>6, <2>1 DEF P
<1> QED BY <1>6, Zenon DEF Said1, SaysBelow

\* A text that is all there mentions each linked member once, also when it has
\* nothing but the first member of that name.
IsText(S, W, o, v) == Pieces(S, W, o) /\ v \in S /\ <<<<>>, v>> \in W
SaysPiece(S, W, v, p) == \E y \in S : <<p, y>> \in W /\ Mentions(v, p) = <<y>>
LEMMA TextSays ==
    ASSUME NEW S, NEW W, NEW o, NEW v, IsText(S, W, o, v), NEW m \in Members, Linked(m[1])
    PROVE  /\ SaysPiece(S, W, v, m[1])
           /\ m[1] # <<>> => SaysPiece(S, W, FirstOf(v, m[1][1]), m[1])
<1> USE DEF SaysPiece
<1>0. Pieces(S, W, o) /\ v \in S /\ <<<<>>, v>> \in W
  BY Zenon DEF IsText
<1>1. PICK p \in Seq(Names) : p = m[1] /\ Reached(p)
  BY MemberType, ReachedIs
<1>2. JsonSet(S) /\ W \subseteq Seq(Names) \X S /\ \A w \in W : Piece(w[1], w[2], W, o)
  BY <1>0, Zenon DEF Pieces
<1>3. CASE p = <<>>
  <2>1. Mentions(v, p) = <<v>>
    BY <1>3, MentionsUnfolds
  <2> QED BY <1>0, <1>1, <1>3, <2>1
<1>4. CASE p # <<>>
  <2>1. PICK a \in Names : a = p[1] /\ 1 \in DOMAIN p
    <3>1. 1 \in 1 .. Len(p) /\ DOMAIN p = 1 .. Len(p)
      BY <1>4, LenProperties, EmptySeq
    <3> QED BY <3>1, ElementOfSeq
  <2>2. PICK e : e = <<>> /\ e \in Seq(Names)
    BY EmptySeq
  <2>3. ClassAt(p, 1) = Root
    <3>1. 1 - 1 = 0 /\ SubSeq(p, 1, 0) = <<>>
      OBVIOUS
    <3> QED BY <3>1, RootIs DEF ClassAt
  <2>4. a \in Known(Root)
    BY <1>1, <2>1, <2>3 DEF Reached
  <2>5. Piece(e, v, W, o)
    BY <1>0, <1>2, <2>2
  <2>6. LinkAt(e).kind = Root /\ Root \in Classes
    BY <2>2, RootIs, LinksAssumption
  <2>7. /\ v[1] = "object" /\ HasOnce(NamesOf(v[2]), a)
        /\ \A i \in DOMAIN v[2] : <<Append(e, v[2][i][1]), v[2][i][2]>> \in W
    BY <2>4, <2>5, <2>6, Zenon DEF Piece, Complete
  <2>8. PICK i \in DOMAIN v[2] :
            /\ v[2][i][1] = a /\ v[2][i][2] \in S /\ Named(v, a) = <<v[2][i][2]>>
            /\ Named(FirstOf(v, a), a) = <<v[2][i][2]>>
    BY <1>0, <1>2, <2>7, NamedSole
  <2>9. PICK x \in S : x = v[2][i][2] /\ <<<<a>>, x>> \in W
    <3>1. Append(e, a) = <<a>>
      BY <2>2
    <3> QED BY <2>7, <2>8, <3>1
  <2>10. Named(v, a) = <<x>> /\ Named(FirstOf(v, a), a) = <<x>>
    BY <2>8, <2>9
  <2>11. \E y \in S : <<p, y>> \in W /\ Mentions(v, p) = <<y>>
    <3>1. SaysBelow(S, W, v, a)
      <4>1. SaysFirst(S, W, o, S, v, a, x)
        BY <1>0, <1>2, <2>9, <2>10, Zenon DEF SaysFirst
      <4> QED BY <4>1, PiecesSay, Zenon
    <3> QED BY <1>1, <1>4, <2>1, <3>1, Zenon DEF SaysBelow
  <2>12. PICK w, T : w = FirstOf(v, a) /\ JsonSet(T) /\ w \in T
    BY <1>0, <1>2, <2>7, FirstOfIsJson
  <2>13. \E y \in S : <<p, y>> \in W /\ Mentions(w, p) = <<y>>
    <3>1. SaysBelow(S, W, w, a)
      <4>1. SaysFirst(S, W, o, T, w, a, x)
        BY <1>0, <2>9, <2>10, <2>12, Zenon DEF SaysFirst
      <4> QED BY <4>1, PiecesSay, Zenon
    <3> QED BY <1>1, <1>4, <2>1, <3>1, Zenon DEF SaysBelow
  <2> QED BY <1>1, <2>1, <2>11, <2>12, <2>13
<1> QED BY <1>3, <1>4
-----------------------------------------------------------------------------
\* What is written so far.

\* The map of a class that has been asked for it stays.
LEMMA AskedStays ==
    ASSUME MapsInRange, [Next]_vars, NEW c \in Classes, Asked(c)
    PROVE  Asked(c)' /\ Known(c)' = Known(c)
<1>1. CASE registered' = registered
  BY <1>1 DEF Asked, Known
<1>2. CASE Register \/ RegisterThrows
  <2>1. Unregistered /\ \E x : registered' = [registered EXCEPT ![Top.class] = x]
    BY <1>2, Zenon DEF Register, RegisterThrows
  <2>2. c # Top.class
    BY <2>1 DEF Unregistered, Asked
  <2>3. registered'[c] = registered[c]
    BY <2>1, <2>2 DEF MapsInRange
  <2> QED BY <2>3 DEF Asked, Known
<1>3. CASE Start
  <2>1. registered' = registered
    BY <1>3 DEF Start, FromJsonValue, FromJsonString, ReadStream, FromJsonObject, ToJsonString, Call,
         ArrayFromJsonValue, MissingFile, FromMissingFile, ArrayFromMissingFile
  <2> QED BY <1>1, <2>1
<1>4. CASE Proceed /\ ~(Register \/ RegisterThrows)
  <2>1. registered' = registered
    BY <1>4 DEF Proceed, StartReading, NotAnObject, SkipUnlinked, UseMissing, ReadMember,
       ReadNested, FailAssertion, RefuseMember, RefuseNested, EndNested, EndReading, NotAnArray,
       ReadElement, EndElement, EndElements, StartWriting, WriteMember, WriteNested,
       EndNestedText, EndWriting
  <2> QED BY <1>1, <2>1
<1>5. CASE UNCHANGED vars
  BY <1>1, <1>5 DEF vars
<1> QED BY <1>2, <1>3, <1>4, <1>5 DEF Next

LEMMA PiecesStay ==
    ASSUME MapsInRange, [Next]_vars, NEW S, NEW W, NEW o, Pieces(S, W, o)
    PROVE  Pieces(S, W, o)'
<1>1. JsonSet(S) /\ W \subseteq Seq(Names) \X S /\ \A w \in W : Piece(w[1], w[2], W, o)
  BY Zenon DEF Pieces
<1>2. ASSUME NEW y, NEW c \in Classes, Complete(y, c) PROVE Complete(y, c)'
  <2>1. Asked(c)' /\ Known(c)' = Known(c)
    BY <1>2, AskedStays DEF Complete
  <2> QED BY <1>2, <2>1 DEF Complete
<1>3. ASSUME NEW p, NEW y, Piece(p, y, W, o) PROVE Piece(p, y, W, o)'
  <2>1. CASE LinkAt(p).kind \in Classes
    BY <1>2, <1>3, <2>1 DEF Piece
  <2>2. CASE LinkAt(p).kind \notin Classes
    BY <1>3, <2>2, Zenon DEF Piece
  <2> QED BY <2>1, <2>2
<1>4. \A w \in W : Piece(w[1], w[2], W, o)'
  BY <1>1, <1>3
<1> QED BY <1>1, <1>4 DEF Pieces

LEMMA PiecesMore ==
    ASSUME NEW S, NEW W, NEW o, Pieces(S, W, o), NEW T, S \subseteq T, JsonSet(T),
           NEW p \in Seq(Names), NEW y \in T, Piece(p, y, W, o)
    PROVE  \E X : W \subseteq X /\ <<p, y>> \in X /\ Pieces(T, X, o)
<1>1. PICK U : U = Seq(Names)
  OBVIOUS
<1>2. W \subseteq U \X S /\ \A w \in W : Piece(w[1], w[2], W, o)
  BY <1>1, Zenon DEF Pieces
<1>3. PICK x : x = <<p, y>>
  OBVIOUS
<1>0. x[1] = p /\ x[2] = y
  BY <1>3
<1>4. PICK X : X = W \cup {x}
  OBVIOUS
<1>5. W \subseteq X /\ x \in X /\ \A w \in X : w \in W \/ w = x
  BY <1>4
<1>6. ASSUME NEW q, NEW z, Piece(q, z, W, o) PROVE Piece(q, z, X, o)
  BY <1>5, <1>6 DEF Piece
<1>7. \A w \in X : Piece(w[1], w[2], X, o)
  BY <1>2, <1>0, <1>5, <1>6
<1>8. X \subseteq U \X T
  BY <1>1, <1>2, <1>3, <1>5
<1>9. Pieces(T, X, o)
  BY <1>1, <1>7, <1>8, Zenon DEF Pieces
<1> QED BY <1>3, <1>5, <1>9

\* A call that writes a class has written its names in some order, up to where
\* it is, and each value is a piece of the text.
FrameSays(f, W) ==
    /\ Writing(f)
    /\ f.at = "names" =>
           /\ f.class \in Classes /\ Asked(f.class)
           /\ NamesOf(f.out) \o NamesOf(f.rest) \in SetToSeqs(Known(f.class))
           /\ \A i \in DOMAIN f.out : <<Append(f.path, f.out[i][1]), f.out[i][2]>> \in W

\* Each call but the first writes the next member of the one around it.
NestedPaths(cs) ==
    /\ cs[1].path = <<>>
    /\ \A k \in 1 .. Len(cs) - 1 : cs[k + 1].path = Append(cs[k].path, Head(cs[k].rest)[1])
CallsSay(cs, W) == NestedPaths(cs) /\ \A k \in 1 .. Len(cs) : FrameSays(cs[k], W)

LEMMA FrameSaysMore ==
    ASSUME NEW f, NEW W, NEW X, W \subseteq X, FrameSays(f, W)
    PROVE  FrameSays(f, X)
  BY DEF FrameSays

LEMMA CallsSayMore ==
    ASSUME NEW cs, NEW W, NEW X, W \subseteq X, CallsSay(cs, W)
    PROVE  CallsSay(cs, X)
  BY FrameSaysMore, Zenon DEF CallsSay

LEMMA CallsSayStay ==
    ASSUME MapsInRange, [Next]_vars, NEW cs, NEW W, CallsSay(cs, W)
    PROVE  CallsSay(cs, W)'
<1>1. ASSUME NEW f, FrameSays(f, W) PROVE FrameSays(f, W)'
  <2>1. CASE f.at # "names"
    BY <1>1, <2>1 DEF FrameSays, Writing
  <2>2. CASE f.at = "names"
    <3>1. PICK c \in Classes : c = f.class /\ Asked(c)
      BY <1>1, <2>2 DEF FrameSays
    <3>2. Asked(c)' /\ Known(c)' = Known(c)
      BY <3>1, AskedStays
    <3> QED BY <1>1, <2>2, <3>1, <3>2 DEF FrameSays, Writing
  <2> QED BY <2>1, <2>2
<1>2. NestedPaths(cs) /\ \A k \in 1 .. Len(cs) : FrameSays(cs[k], W)
  BY Zenon DEF CallsSay
<1>3. \A k \in 1 .. Len(cs) : FrameSays(cs[k], W)'
  BY <1>1, <1>2
<1>4. NestedPaths(cs)'
  BY <1>2 DEF NestedPaths
<1> QED BY <1>3, <1>4, Zenon DEF CallsSay

\* The innermost call is another one at the same path.
LEMMA CallsSayReplaced ==
    ASSUME NEW F, NEW cs \in Seq(F), cs # <<>>, NEW W, CallsSay(cs, W),
           NEW g \in F, g.path = Last(cs).path, FrameSays(g, W)
    PROVE  CallsSay(Append(Front(cs), g), W)
<1>1. PICK t : t = Append(Front(cs), g)
  OBVIOUS
<1>2. Len(cs) \in Nat \ {0} /\ Len(t) = Len(cs) /\ t[Len(cs)] = g /\ \A k \in 1 .. Len(cs) - 1 : t[k] = cs[k]
  BY <1>1, ReplacedTop
<1>3. Last(cs) = cs[Len(cs)]
  BY LastInSeq
<1>4. PICK n \in Nat \ {0} : n = Len(cs)
  BY <1>2
<1>5. NestedPaths(cs) /\ \A k \in 1 .. n : FrameSays(cs[k], W)
  BY <1>4, Zenon DEF CallsSay
<1>6. \A k \in 1 .. n : t[k].path = cs[k].path
  <2> TAKE k \in 1 .. n
  <2>1. CASE k = n
    BY <1>2, <1>3, <1>4, <2>1
  <2>2. CASE k # n
    <3>1. k \in 1 .. n - 1
      BY <2>2
    <3> QED BY <1>2, <1>4, <3>1
  <2> QED BY <2>1, <2>2
<1>7. \A k \in 1 .. n : FrameSays(t[k], W)
  <2> TAKE k \in 1 .. n
  <2>1. CASE k = n
    BY <1>2, <1>4, <2>1
  <2>2. CASE k # n
    <3>1. k \in 1 .. n - 1
      BY <2>2
    <3> QED BY <1>2, <1>4, <1>5, <3>1
  <2> QED BY <2>1, <2>2
<1>8. t[1].path = <<>>
  BY <1>5, <1>6 DEF NestedPaths
<1>9. ASSUME NEW k \in 1 .. n - 1 PROVE t[k + 1].path = Append(t[k].path, Head(t[k].rest)[1])
  <2>1. k \in 1 .. n /\ k + 1 \in 1 .. n /\ t[k] = cs[k]
    BY <1>2, <1>4
  <2>2. cs[k + 1].path = Append(cs[k].path, Head(cs[k].rest)[1])
    BY <1>4, <1>5 DEF NestedPaths
  <2> QED BY <1>6, <2>1, <2>2
<1>10. NestedPaths(t)
  BY <1>2, <1>4, <1>8, <1>9 DEF NestedPaths
<1>11. CallsSay(t, W)
  BY <1>2, <1>4, <1>7, <1>10 DEF CallsSay
<1> QED BY <1>1, <1>11

LEMMA CallsSayPushed ==
    ASSUME NEW F, NEW cs \in Seq(F), cs # <<>>, NEW W, CallsSay(cs, W),
           NEW g \in F, g.path = Append(Last(cs).path, Head(Last(cs).rest)[1]), FrameSays(g, W)
    PROVE  CallsSay(Append(cs, g), W)
<1>1. PICK t : t = Append(cs, g)
  OBVIOUS
<1>2. Len(t) = Len(cs) + 1 /\ t[Len(cs) + 1] = g /\ \A k \in 1 .. Len(cs) : t[k] = cs[k]
  BY <1>1, PushTop
<1>3. Last(cs) = cs[Len(cs)] /\ Len(cs) \in Nat \ {0}
  BY LastInSeq
<1>4. PICK n \in Nat \ {0} : n = Len(cs)
  BY <1>3
<1>5. NestedPaths(cs) /\ \A k \in 1 .. n : FrameSays(cs[k], W)
  BY <1>4, Zenon DEF CallsSay
<1>6. ASSUME NEW k \in 1 .. n PROVE t[k + 1].path = Append(t[k].path, Head(t[k].rest)[1])
  <2>1. CASE k = n
    BY <1>2, <1>3, <1>4, <2>1
  <2>2. CASE k # n
    <3>1. k \in 1 .. n - 1 /\ k + 1 \in 1 .. n
      BY <2>2
    <3>2. cs[k + 1].path = Append(cs[k].path, Head(cs[k].rest)[1])
      BY <1>4, <1>5, <3>1 DEF NestedPaths
    <3> QED BY <1>2, <1>4, <3>1, <3>2
  <2> QED BY <2>1, <2>2
<1>7. \A k \in 1 .. n + 1 : FrameSays(t[k], W)
  <2> TAKE k \in 1 .. n + 1
  <2>1. CASE k = n + 1
    BY <1>2, <1>4, <2>1
  <2>2. CASE k # n + 1
    <3>1. k \in 1 .. n
      BY <2>2
    <3> QED BY <1>2, <1>4, <1>5, <3>1
  <2> QED BY <2>1, <2>2
<1>8. t[1].path = <<>>
  <2>1. 1 \in 1 .. n
    OBVIOUS
  <2> QED BY <1>2, <1>4, <1>5, <2>1 DEF NestedPaths
<1>9. NestedPaths(t)
  <2>1. (n + 1) - 1 = n
    OBVIOUS
  <2> QED BY <1>2, <1>4, <1>6, <1>8, <2>1 DEF NestedPaths
<1>10. CallsSay(t, W)
  BY <1>2, <1>4, <1>7, <1>9 DEF CallsSay
<1> QED BY <1>1, <1>10

\* The innermost call returns to the one around it.
LEMMA CallsSayPopped ==
    ASSUME NEW F, NEW cs \in Seq(F), Len(cs) > 1, NEW W, CallsSay(cs, W)
    PROVE  /\ Front(cs) # <<>> /\ Front(cs) \in Seq(F) /\ CallsSay(Front(cs), W)
           /\ LET f == Last(Front(cs)) IN Last(cs).path = Append(f.path, Head(f.rest)[1])
           /\ FrameSays(Last(Front(cs)), W)
<1>1. PICK t : t = Front(cs)
  OBVIOUS
<1>0. cs # <<>>
  BY EmptySeq
<1>2. t \in Seq(F) /\ Len(t) = Len(cs) - 1 /\ \A i \in 1 .. Len(cs) - 1 : t[i] = cs[i]
  BY <1>0, <1>1, PopTop
<1>3. Last(cs) = cs[Len(cs)] /\ Len(cs) \in Nat \ {0}
  BY <1>0, LastInSeq
<1>4. PICK n \in Nat \ {0} : n + 1 = Len(cs) /\ n = Len(cs) - 1
  BY <1>3
<1>5. NestedPaths(cs) /\ \A k \in 1 .. n + 1 : FrameSays(cs[k], W)
  BY <1>4, Zenon DEF CallsSay
<1>6. t # <<>> /\ Last(t) = t[n]
  <2>1. t # <<>>
    BY <1>2, <1>4, EmptySeq
  <2> QED BY <1>2, <1>4, <2>1, LastInSeq
<1>7. \A k \in 1 .. n : FrameSays(t[k], W)
  <2>1. \A k \in 1 .. n : k \in 1 .. n + 1
    OBVIOUS
  <2> QED BY <1>2, <1>4, <1>5, <2>1
<1>8. ASSUME NEW k \in 1 .. n PROVE cs[k + 1].path = Append(t[k].path, Head(t[k].rest)[1])
  BY <1>2, <1>4, <1>5 DEF NestedPaths
<1>9. NestedPaths(t)
  <2>1. t[1].path = <<>>
    BY <1>2, <1>4, <1>5 DEF NestedPaths
  <2>2. ASSUME NEW k \in 1 .. n - 1 PROVE t[k + 1].path = Append(t[k].path, Head(t[k].rest)[1])
    <3>1. k \in 1 .. n /\ k + 1 \in 1 .. n
      OBVIOUS
    <3> QED BY <1>2, <1>4, <1>8, <3>1
  <2> QED BY <1>2, <1>4, <2>1, <2>2 DEF NestedPaths
<1>10. CallsSay(t, W)
  BY <1>2, <1>4, <1>7, <1>9 DEF CallsSay
<1>11. n \in 1 .. n
  OBVIOUS
<1>12. Last(cs).path = Append(Last(t).path, Head(Last(t).rest)[1])
  BY <1>3, <1>4, <1>6, <1>8, <1>11
<1>13. FrameSays(Last(t), W)
  BY <1>6, <1>7, <1>11
<1> QED BY <1>1, <1>2, <1>6, <1>10, <1>12, <1>13

LEMMA NamesOfType ==
    ASSUME NEW T, NEW ms \in Seq(T), \A x \in T : x[1] \in Names
    PROVE  /\ NamesOf(ms) \in Seq(Names) /\ Len(NamesOf(ms)) = Len(ms)
           /\ \A i \in 1 .. Len(ms) : NamesOf(ms)[i] = ms[i][1]
<1>1. PICK n \in Nat : n = Len(ms) /\ DOMAIN ms = 1 .. n
  BY LenProperties
<1>2. \A i \in 1 .. n : ms[i][1] \in Names
  BY <1>1, ElementOfSeq
<1>3. PICK ns : ns = [i \in 1 .. n |-> ms[i][1]]
  OBVIOUS
<1>4. NamesOf(ms) = ns
  BY <1>1, <1>3 DEF NamesOf
<1>5. ns \in Seq(Names) /\ Len(ns) = n /\ \A i \in 1 .. n : ns[i] = ms[i][1]
  BY <1>2, <1>3
<1> QED BY <1>1, <1>4, <1>5

\* The name of a member goes from those that are left to those that are written.
LEMMA NamesMove ==
    ASSUME NEW T, NEW ms \in Seq(T), \A x \in T : x[1] \in Names, NEW y \in T,
           NEW U, NEW rest \in Seq(U), \A x \in U : x[1] \in Names, rest # <<>>, y[1] = Head(rest)[1]
    PROVE  NamesOf(Append(ms, y)) \o NamesOf(Tail(rest)) = NamesOf(ms) \o NamesOf(rest)
<1>1. PICK a, n, b : a = NamesOf(ms) /\ n = y[1] /\ b = NamesOf(rest)
  OBVIOUS
<1>2. a \in Seq(Names) /\ Len(a) = Len(ms) /\ \A i \in 1 .. Len(ms) : a[i] = ms[i][1]
  BY <1>1, NamesOfType
<1>3. b \in Seq(Names) /\ Len(b) = Len(rest) /\ \A i \in 1 .. Len(rest) : b[i] = rest[i][1]
  BY <1>1, NamesOfType
<1>4. n \in Names
  BY <1>1
<1>5. PICK c : c = NamesOf(Append(ms, y))
  OBVIOUS
<1>6. Append(ms, y) \in Seq(T) /\ Len(Append(ms, y)) = Len(ms) + 1 /\ Append(ms, y)[Len(ms) + 1] = y
      /\ \A i \in 1 .. Len(ms) : Append(ms, y)[i] = ms[i]
  BY PushTop
<1>7. PICK us : us = Append(ms, y)
  OBVIOUS
<1>0. PICK k \in Nat : k = Len(ms)
  BY LenProperties
<1>8. us \in Seq(T) /\ Len(us) = k + 1 /\ us[k + 1] = y /\ \A i \in 1 .. k : us[i] = ms[i]
  BY <1>0, <1>6, <1>7
<1>9. c \in Seq(Names) /\ Len(c) = k + 1 /\ \A i \in 1 .. k + 1 : c[i] = us[i][1]
  BY <1>5, <1>7, <1>8, NamesOfType
<1>10. c = Append(a, n)
  <2>1. PICK d : d = Append(a, n)
    OBVIOUS
  <2>2. d \in Seq(Names) /\ Len(d) = k + 1 /\ d[k + 1] = n /\ \A i \in 1 .. k : d[i] = a[i]
    BY <1>0, <1>2, <1>4, <2>1, PushTop
  <2>3. \A i \in 1 .. k + 1 : c[i] = d[i]
    <3> TAKE i \in 1 .. k + 1
    <3>1. CASE i = k + 1
      BY <1>1, <1>8, <1>9, <2>2, <3>1
    <3>2. CASE i # k + 1
      <4>1. i \in 1 .. k
        BY <3>2
      <4>2. d[i] = a[i] /\ a[i] = ms[i][1]
        BY <1>0, <1>2, <2>2, <4>1
      <4>3. us[i] = ms[i] /\ c[i] = us[i][1]
        BY <1>8, <1>9, <4>1
      <4> QED BY <4>2, <4>3
    <3> QED BY <3>1, <3>2
  <2>4. c = d
    BY <1>9, <2>2, <2>3, SameElements
  <2> QED BY <2>1, <2>4
<1>11. PICK t : t = NamesOf(Tail(rest))
  OBVIOUS
<1>12. PICK r : r = Tail(rest)
  OBVIOUS
<1>22. r \in Seq(U) /\ Len(r) = Len(rest) - 1 /\ \A i \in 1 .. Len(r) : r[i] = rest[i + 1]
  BY <1>12, HeadTailProperties
<1>13. t \in Seq(Names) /\ Len(t) = Len(r) /\ \A i \in 1 .. Len(r) : t[i] = r[i][1]
  BY <1>11, <1>12, <1>22, NamesOfType
<1>14. PICK m \in Nat : Len(rest) = m + 1 /\ Len(rest) - 1 = m
  BY LenProperties, EmptySeq
<1>15. b # <<>>
  BY <1>3, <1>14, EmptySeq
<1>16. Head(b) = n
  <2>1. Head(b) = b[1] /\ Head(rest) = rest[1] /\ 1 \in 1 .. Len(rest)
    BY <1>3, <1>14, <1>15, HeadTailProperties
  <2> QED BY <1>1, <1>3, <2>1
<1>17. Tail(b) = t
  <2>0. PICK u : u = Tail(b)
    OBVIOUS
  <2>1. u \in Seq(Names) /\ Len(u) = m /\ \A i \in 1 .. m : u[i] = b[i + 1]
    BY <1>3, <1>14, <1>15, <2>0, HeadTailProperties
  <2>2. \A i \in 1 .. m : i + 1 \in 1 .. m + 1
    OBVIOUS
  <2>3. \A i \in 1 .. m : u[i] = t[i]
    BY <1>3, <1>13, <1>14, <1>22, <2>1, <2>2
  <2>4. u = t
    BY <1>13, <1>14, <1>22, <2>1, <2>3, SameElements
  <2> QED BY <2>0, <2>4
<1>18. b = <<n>> \o t
  BY <1>3, <1>15, <1>16, <1>17, HeadAndTail
<1>19. c = a \o <<n>>
  BY <1>2, <1>4, <1>10
<1>20. <<n>> \in Seq(Names)
  BY <1>4
<1>21. (a \o <<n>>) \o t = a \o (<<n>> \o t)
  BY <1>2, <1>13, <1>20, Associates
<1> QED BY <1>1, <1>5, <1>11, <1>18, <1>19, <1>21

\* The values that are written so far are pieces, and with them the next one.
LEMMA WroteSays ==
    ASSUME NEW S, NEW K, NEW f \in NameLists(S, K), f.rest # <<>>, NEW W, FrameSays(f, W),
           NEW v \in S, <<Append(f.path, Head(f.rest)[1]), v>> \in W
    PROVE  FrameSays(Wrote(f, v), W) /\ Wrote(f, v).path = f.path
<1>1. /\ f.class \in Classes /\ f.path \in Seq(Names) /\ f.rest \in Seq(Singles)
      /\ f.out \in Seq(Names \X S) /\ f.at = "names"
      /\ f = [at |-> f.at, class |-> f.class, path |-> f.path, rest |-> f.rest, out |-> f.out]
  BY DEF NameLists
<1>2. PICK r, o, T, x : r = f.rest /\ o = f.out /\ T = Names \X S /\ x = <<Head(r)[1], v>>
  OBVIOUS
<1>3. x[1] = Head(r)[1] /\ x[2] = v
  BY <1>2
<1>4. Head(r)[1] \in Names
  BY <1>2, NamesAdvance
<1>5. x \in T
  BY <1>2, <1>4
<1>6. PICK g : g = Wrote(f, v)
  OBVIOUS
<1>7. g = [f EXCEPT !.rest = Tail(r), !.out = Append(o, x)]
  BY <1>1, <1>2, <1>6 DEF Wrote, Advanced
<1>8. g = [at |-> "names", class |-> f.class, path |-> f.path, rest |-> Tail(r), out |-> Append(o, x)]
  BY <1>1, <1>7
<1>9. g.at = "names" /\ g.class = f.class /\ g.path = f.path /\ g.rest = Tail(r) /\ g.out = Append(o, x)
  BY <1>8
<1>10. NamesOf(Append(o, x)) \o NamesOf(Tail(r)) = NamesOf(o) \o NamesOf(r)
  <2>1. \A y \in T : y[1] \in Names
    BY <1>2
  <2>2. \A y \in Singles : y[1] \in Names
    BY DEF Singles
  <2>3. o \in Seq(T) /\ r \in Seq(Singles) /\ r # <<>>
    BY <1>1, <1>2
  <2> QED BY <1>3, <1>5, <2>1, <2>2, <2>3, NamesMove
<1>11. ASSUME NEW i \in DOMAIN Append(o, x)
       PROVE  <<Append(f.path, Append(o, x)[i][1]), Append(o, x)[i][2]>> \in W
  <2>0. PICK u : u = Append(o, x)
    OBVIOUS
  <2>1. PICK n \in Nat : n = Len(o) /\ DOMAIN o = 1 .. n
    BY <1>1, <1>2, LenProperties
  <2>2. u \in Seq(T) /\ Len(u) = n + 1 /\ u[n + 1] = x /\ \A j \in 1 .. n : u[j] = o[j]
    BY <1>1, <1>2, <1>5, <2>0, <2>1, PushTop
  <2>3. i \in 1 .. n + 1
    BY <2>0, <2>2, LenProperties
  <2>4. CASE i = n + 1
    BY <1>2, <1>3, <2>0, <2>2, <2>4
  <2>5. CASE i # n + 1
    <3>1. i \in 1 .. n
      BY <2>3, <2>5
    <3>2. <<Append(f.path, o[i][1]), o[i][2]>> \in W
      BY <1>1, <1>2, <2>1, <3>1 DEF FrameSays
    <3> QED BY <2>0, <2>2, <3>1, <3>2
  <2> QED BY <2>4, <2>5
<1>12. Asked(f.class) /\ NamesOf(o) \o NamesOf(r) \in SetToSeqs(Known(f.class))
  BY <1>1, <1>2 DEF FrameSays
<1>13. FrameSays(g, W)
  BY <1>1, <1>9, <1>10, <1>11, <1>12 DEF FrameSays, Writing
<1> QED BY <1>6, <1>9, <1>13

-----------------------------------------------------------------------------
\* Each step of to_json_string writes what is to come back.

WritingSays(S, W) == Pieces(S, W, object) /\ CallsSay(calls, W)
BeingWritten == status = "running" /\ op = "to_json_string" => \E S, W : WritingSays(S, W)

\* What is left in the calls is what they say after the step.
LEMMA WritingStays ==
    ASSUME MapsInRange, [Next]_vars, NEW S, NEW W, Pieces(S, W, object), object' = object,
           NEW cs, calls' = cs, CallsSay(cs, W)
    PROVE  BeingWritten'
<1>1. PICK o : o = object
  OBVIOUS
<1>2. Pieces(S, W, o)' /\ CallsSay(cs, W)'
  BY <1>1, PiecesStay, CallsSayStay, Zenon
<1>3. object' = o
  BY <1>1
<1>4. Pieces(S, W, object)'
  BY <1>2, <1>3 DEF Pieces, Piece, Complete, Asked, Known
<1>5. CallsSay(calls, W)'
  <2>1. ASSUME NEW k \in 1 .. Len(cs) PROVE FrameSays(calls[k], W)'
    <3>1. PICK f : f = cs[k]
      OBVIOUS
    <3>2. FrameSays(f, W)'
      BY <1>2, <3>1 DEF CallsSay
    <3>3. calls'[k] = f
      BY <3>1
    <3> QED BY <3>2, <3>3 DEF FrameSays, Writing, Asked, Known
  <2>2. NestedPaths(cs)
    BY DEF CallsSay
  <2>3. NestedPaths(calls)'
    BY <2>2 DEF NestedPaths
  <2> QED BY <2>1, <2>3 DEF CallsSay
<1> QED BY <1>4, <1>5, Zenon DEF BeingWritten, WritingSays

LEMMA StartWritingSays ==
    ASSUME NEW S, NEW B, NEW V, NEW K, NEW O, Standing(S, B, V, K, O), Plainly, [Next]_vars,
           NEW T, NEW W, WritingSays(T, W), StartWriting
    PROVE  BeingWritten'
<1>1. status = "running" /\ Top.at = "to_json_string" /\ HasMap
  BY DEF StartWriting, At
<1>2. Top \in Writes
  BY <1>1, TopType, FrameType
<1>3. PICK t : t = Top /\ t \in Writes /\ t.class \in Classes /\ t.at = "to_json_string"
  BY <1>1, <1>2 DEF Writes
<1>4. PICK order \in SetToSeqs(Known(t.class)) :
          Replace(Frame("names", t.class, t.path, [i \in DOMAIN order |-> <<order[i]>>]))
  BY <1>3, Zenon DEF StartWriting
<1>5. K[t.class] = Known(t.class) /\ IsFiniteSet(Known(t.class)) /\ Known(t.class) \subseteq Names
  BY <1>3, KnownsType DEF Plainly, Standing
<1>6. PICK rest : rest = [i \in DOMAIN order |-> <<order[i]>>]
  OBVIOUS
<1>7. PICK f : f = Frame("names", t.class, t.path, rest)
  OBVIOUS
<1>8. f \in NameLists(S, K)
  BY <1>3, <1>5, <1>6, <1>7, NamesOfMap
<1>9. f.at = "names" /\ f.class = t.class /\ f.path = t.path /\ f.rest = rest /\ f.out = <<>>
  BY <1>7, FrameFields
<1>10. order \in Seq(Known(t.class)) /\ order \in Seq(Names)
  BY <1>5, OrderType, SeqMonotonic
<1>11. NamesOf(rest) = order
  <2>1. DOMAIN rest = DOMAIN order /\ \A i \in DOMAIN order : rest[i][1] = order[i]
    BY <1>6
  <2>2. NamesOf(rest) = [i \in DOMAIN order |-> order[i]]
    BY <2>1 DEF NamesOf
  <2>3. PICK n \in Nat : DOMAIN order = 1 .. n /\ n = Len(order)
    BY <1>10, LenProperties
  <2> QED BY <1>10, <2>2
<1>12. PICK e : e = <<>> /\ e \in Seq(Names) /\ Len(e) = 0
  BY EmptySeq
<1>13. NamesOf(e) = e /\ DOMAIN e = {}
  BY <1>12 DEF NamesOf
<1>14. e \o order = order
  BY <1>10, <1>12
<1>15. Asked(t.class)
  BY <1>1, <1>3 DEF HasMap, Unregistered, Asked
<1>16. FrameSays(f, W)
  BY <1>3, <1>4, <1>9, <1>11, <1>12, <1>13, <1>14, <1>15 DEF FrameSays, Writing
<1>17. PICK F : F = Frames(S, B, V, K, O)
  OBVIOUS
<1>18. f \in F /\ calls \in Seq(F) /\ calls # <<>>
  BY <1>1, <1>8, <1>17 DEF Frames, Standing, StackOf, Plainly
<1>19. Last(calls).path = f.path
  BY <1>3, <1>9 DEF Top
<1>20. CallsSay(Append(Front(calls), f), W)
  BY <1>16, <1>18, <1>19, CallsSayReplaced DEF WritingSays
<1>21. calls' = Append(Front(calls), f) /\ object' = object
  BY <1>4, <1>6, <1>7 DEF Replace, StartWriting
<1> QED BY <1>20, <1>21, WritingStays DEF WritingSays, Plainly

\* The value v is written as the next member of the last of cs.
LEMMA WroteIsSaid ==
    ASSUME NEW S, NEW B, NEW V, NEW K, NEW O, Standing(S, B, V, K, O), Plainly, [Next]_vars,
           NEW F, F = Frames(S, B, V, K, O), NEW cs \in Seq(F), cs # <<>>,
           NEW f, f = Last(cs), f.at = "names", f.rest # <<>>,
           NEW T, NEW W, Pieces(T, W, object), CallsSay(cs, W),
           NEW R, T \subseteq R, JsonSet(R), NEW v \in R,
           NEW p, p = Append(f.path, Head(f.rest)[1]), Piece(p, v, W, object),
           calls' = Append(Front(cs), Wrote(f, v)), object' = object
    PROVE  BeingWritten'
<1>1. f \in F
  BY LastInSeq
<1>2. f \in NameLists(S, K)
  BY <1>1, FrameType
<1>3. PICK Q : Q = S \cup {v}
  OBVIOUS
<1>4. f \in NameLists(Q, K)
  <2>1. S \subseteq Q
    BY <1>3
  <2>2. PICK X, Y : X = Names \X S /\ Y = Names \X Q /\ X \subseteq Y
    BY <2>1
  <2>3. Seq(X) \subseteq Seq(Y)
    BY <2>2, SeqMonotonic
  <2> QED BY <1>2, <2>2, <2>3 DEF NameLists
<1>5. PICK name \in Names : name = Head(f.rest)[1]
  BY <1>2, NamesAdvance
<1>6. f.path \in Seq(Names)
  BY <1>2 DEF NameLists
<1>7. p \in Seq(Names)
  BY <1>5, <1>6, AppendProperties
<1>8. PICK X : W \subseteq X /\ <<p, v>> \in X /\ Pieces(R, X, object)
  BY <1>7, PiecesMore
<1>9. CallsSay(cs, X)
  BY <1>8, CallsSayMore
<1>10. FrameSays(f, X)
  <2>1. Len(cs) \in 1 .. Len(cs) /\ f = cs[Len(cs)]
    BY LastInSeq
  <2> QED BY <1>9, <2>1, Zenon DEF CallsSay
<1>11. PICK g : g = Wrote(f, v)
  OBVIOUS
<1>12. FrameSays(g, X) /\ g.path = f.path /\ g \in NameLists(Q, K)
  <2>1. v \in Q
    BY <1>3
  <2>2. <<Append(f.path, Head(f.rest)[1]), v>> \in X
    BY <1>8
  <2>3. g \in NameLists(Q, K)
    BY <1>4, <1>11, <2>1, NamesAdvance
  <2>4. FrameSays(g, X) /\ g.path = f.path
    BY <1>4, <1>10, <1>11, <2>1, <2>2, WroteSays
  <2> QED BY <2>3, <2>4
<1>13. PICK H : H = F \cup {g}
  OBVIOUS
<1>14. cs \in Seq(H) /\ g \in H
  BY <1>13, SeqMonotonic
<1>15. CallsSay(Append(Front(cs), g), X)
  BY <1>9, <1>12, <1>14, CallsSayReplaced
<1>16. calls' = Append(Front(cs), g)
  BY <1>11
<1> QED BY <1>8, <1>15, <1>16, WritingStays DEF Plainly

LEMMA WriteMemberSays ==
    ASSUME NEW S, NEW B, NEW V, NEW K, NEW O, Standing(S, B, V, K, O), Plainly, [Next]_vars,
           NEW T, NEW W, WritingSays(T, W), WriteMember
    PROVE  BeingWritten'
<1>1. /\ At("names") /\ Top.rest # <<>> /\ Link.kind \notin Classes
      /\ Replace(Wrote(Top, Printed(Link, object[Path]))) /\ object' = object
  BY DEF WriteMember
<1>2. /\ calls # <<>> /\ Top.at = "names" /\ status = "running"
      /\ Link \in LinkSet /\ LinkAt(Path) = Link /\ Path \in Paths /\ Link.kind \in Scalars
  BY <1>1, NamesTopType
<1>3. Link.array \in BOOLEAN /\ Holds(object)
  BY <1>2 DEF LinkSet, Standing
<1>4. PICK l, p : p \in Paths /\ l = Link /\ p = Path /\ l = LinkAt(p)
  BY <1>2
<1>5. object[p] \in HeldFor(l)
  BY <1>3, <1>4, HoldsIs
<1>6. Pieces(T, W, object) /\ CallsSay(calls, W) /\ JsonSet(T)
  BY Zenon DEF WritingSays, Pieces
<1>7. PICK R : T \subseteq R /\ JsonSet(R) /\ Printed(l, object[p]) \in R
  BY <1>2, <1>3, <1>4, <1>5, <1>6, PrintedType
<1>8. PICK v \in R : v = Printed(l, object[p])
  BY <1>7
<1>9. PICK f : f = Top
  OBVIOUS
<1>10. calls' = Append(Front(calls), Wrote(f, v))
  BY <1>1, <1>4, <1>8, <1>9 DEF Replace
<1>11. p = Append(f.path, Head(f.rest)[1])
  BY <1>4, <1>9 DEF Path, Name
<1>12. Piece(p, v, W, object)
  BY <1>1, <1>4, <1>8 DEF Piece
<1>13. PICK F : F = Frames(S, B, V, K, O)
  OBVIOUS
<1>14. calls \in Seq(F) /\ f = Last(calls) /\ f.at = "names" /\ f.rest # <<>>
  BY <1>1, <1>2, <1>9, <1>13 DEF Standing, StackOf, Top
<1> QED BY <1>1, <1>2, <1>6, <1>7, <1>10, <1>11, <1>12, <1>13, <1>14, WroteIsSaid

LEMMA WriteNestedSays ==
    ASSUME NEW S, NEW B, NEW V, NEW K, NEW O, Standing(S, B, V, K, O), Plainly, [Next]_vars,
           NEW T, NEW W, WritingSays(T, W), WriteNested
    PROVE  BeingWritten'
<1>1. /\ At("names") /\ Top.rest # <<>>
      /\ calls' = Append(calls, Frame("to_json_string", Link.kind, Path, <<>>)) /\ object' = object
  BY DEF WriteNested
<1>2. calls # <<>>
  BY <1>1, NamesTopType
<1>3. PICK g : g = Frame("to_json_string", Link.kind, Path, <<>>)
  OBVIOUS
<1>4. g.at = "to_json_string" /\ g.path = Path
  BY <1>3, FrameFields
<1>5. FrameSays(g, W)
  BY <1>4 DEF FrameSays, Writing
<1>6. g.path = Append(Last(calls).path, Head(Last(calls).rest)[1])
  BY <1>4 DEF Path, Name, Top
<1>7. PICK H : H = Frames(S, B, V, K, O) \cup {g}
  OBVIOUS
<1>8. calls \in Seq(H) /\ g \in H
  BY <1>7, SeqMonotonic DEF Standing, StackOf
<1>9. Pieces(T, W, object) /\ CallsSay(calls, W)
  BY Zenon DEF WritingSays
<1>10. CallsSay(Append(calls, g), W)
  BY <1>2, <1>5, <1>6, <1>8, <1>9, CallsSayPushed
<1>11. calls' = Append(calls, g)
  BY <1>1, <1>3
<1> QED BY <1>1, <1>9, <1>10, <1>11, WritingStays DEF Plainly

\* An object whose names are all written is all there.
LEMMA WrittenIsComplete ==
    ASSUME NEW S, NEW B, NEW V, NEW K, NEW O, Standing(S, B, V, K, O), Plainly,
           NEW T, NEW W, NEW o, Pieces(T, W, o), At("names"), Top.rest = <<>>, FrameSays(Top, W)
    PROVE  \E v : v = <<"object", Top.out>> /\ v[1] = "object" /\ v[2] = Top.out
                  /\ Piece(Top.path, v, W, o) /\ Top.path \in Seq(Names)
<1>1. Top \in NameLists(S, K) /\ Top.at = "names" /\ Top.out \in Seq(Names \X S)
  BY NamesTopType
<1>2. PICK f : f = Top /\ f \in NameLists(S, K)
  BY <1>1
<1>3. f.class \in Classes /\ f.path \in Seq(Names) /\ AtMember(f)
  BY <1>2 DEF NameLists
<1>4. LinkAt(f.path).kind = f.class
  BY <1>3, MemberType DEF AtMember
<1>5. /\ Asked(f.class)
      /\ NamesOf(f.out) \o NamesOf(<<>>) \in SetToSeqs(Known(f.class))
      /\ \A i \in DOMAIN f.out : <<Append(f.path, f.out[i][1]), f.out[i][2]>> \in W
  BY <1>1, <1>2 DEF FrameSays
<1>6. PICK ns : ns = NamesOf(f.out) /\ ns \in Seq(Names)
  <2>1. PICK X : X = Names \X S
    OBVIOUS
  <2>2. \A x \in X : x[1] \in Names
    BY <2>1
  <2> QED BY <1>1, <1>2, <2>1, <2>2, NamesOfType
<1>0. PICK e : e = <<>> /\ e \in Seq(Names) /\ Len(e) = 0
  BY EmptySeq
<1>7. NamesOf(e) = e /\ ns \o e = ns
  BY <1>0, <1>6 DEF NamesOf
<1>8. ns \in SetToSeqs(Known(f.class)) /\ IsFiniteSet(Known(f.class))
  BY <1>0, <1>3, <1>5, <1>6, <1>7, KnownsType DEF Plainly
<1>9. \A name \in Known(f.class) : HasOnce(ns, name)
  BY <1>8, OrderHasAll
<1>10. PICK v : v = <<"object", f.out>>
  OBVIOUS
<1>11. v[1] = "object" /\ v[2] = f.out
  BY <1>10
<1>12. Complete(v, f.class)
  BY <1>5, <1>6, <1>9, <1>11 DEF Complete
<1>13. Piece(f.path, v, W, o)
  BY <1>3, <1>4, <1>5, <1>11, <1>12, Zenon DEF Piece
<1> QED BY <1>2, <1>3, <1>10, <1>11, <1>13

\* Its members are values of the text.
LEMMA WrittenIsJson ==
    ASSUME NEW S, NEW K, NEW f \in NameLists(S, K), NEW T, NEW W, NEW o, Pieces(T, W, o),
           f.at = "names", FrameSays(f, W)
    PROVE  \E R : T \subseteq R /\ JsonSet(R) /\ <<"object", f.out>> \in R
<1>1. JsonSet(T) /\ W \subseteq Seq(Names) \X T
  BY Zenon DEF Pieces
<1>2. PICK ms, X, Y : ms = f.out /\ X = Names \X S /\ Y = Names \X T
  OBVIOUS
<1>3. ms \in Seq(X)
  BY <1>2 DEF NameLists
<1>4. PICK n \in Nat : n = Len(ms) /\ DOMAIN ms = 1 .. n
  BY <1>3, LenProperties
<1>5. ASSUME NEW i \in 1 .. n PROVE ms[i] \in Y
  <2>1. ms[i] \in X
    BY <1>3, <1>4, ElementOfSeq
  <2>2. PICK name \in Names, y \in S : ms[i] = <<name, y>>
    BY <1>2, <2>1
  <2>3. ms[i][1] = name /\ ms[i][2] = y
    BY <2>2
  <2>4. <<Append(f.path, name), y>> \in W
    BY <1>2, <1>4, <2>3 DEF FrameSays
  <2>5. PICK w : w = <<Append(f.path, name), y>> /\ w \in W
    BY <2>4
  <2>6. y \in T
    BY <1>1, <2>5
  <2> QED BY <1>2, <2>2, <2>6
<1>6. ms \in Seq(Y)
  BY <1>3, <1>4, <1>5
<1>7. JsonSet(T \cup {<<"object", ms>>})
  BY <1>1, <1>2, <1>6, ObjectIsJson
<1> QED BY <1>2, <1>7

LEMMA EndNestedTextSays ==
    ASSUME NEW S, NEW B, NEW V, NEW K, NEW O, Standing(S, B, V, K, O), Plainly, [Next]_vars,
           NEW T, NEW W, WritingSays(T, W), EndNestedText
    PROVE  BeingWritten'
<1>1. /\ At("names") /\ Top.rest = <<>> /\ Len(calls) > 1 /\ object' = object
      /\ calls' = Append(Front(Front(calls)), Wrote(Last(Front(calls)), <<"object", Top.out>>))
  BY DEF EndNestedText
<1>2. /\ calls # <<>> /\ Top.out \in Seq(Names \X S) /\ JsonSet(S) /\ Top.at = "names"
      /\ Top \in NameLists(S, K)
  BY <1>1, NamesTopType
<1>3. PICK F : F = Frames(S, B, V, K, O) /\ StackOf(calls, F) /\ calls \in Seq(F)
  BY DEF Standing, StackOf
<1>4. Pieces(T, W, object) /\ CallsSay(calls, W) /\ JsonSet(T)
  BY Zenon DEF WritingSays, Pieces
<1>5. PICK cs, f : cs = Front(calls) /\ f = Last(cs)
  OBVIOUS
<1>6. cs # <<>> /\ cs \in Seq(F) /\ CallsSay(cs, W) /\ Top.path = Append(f.path, Head(f.rest)[1])
  BY <1>1, <1>3, <1>4, <1>5, CallsSayPopped DEF Top
<1>7. Writing(Last(calls))
  BY <1>2 DEF Writing, Top
<1>8. f.at = "names" /\ f.rest # <<>>
  BY <1>2, <1>3, <1>5, <1>6, <1>7, StackPops
<1>9. FrameSays(Top, W)
  <2>1. Len(calls) \in 1 .. Len(calls) /\ Top = calls[Len(calls)]
    BY <1>2, <1>3, LastInSeq DEF Top
  <2> QED BY <1>4, <2>1, Zenon DEF CallsSay
<1>10. PICK v : v = <<"object", Top.out>> /\ v[1] = "object" /\ v[2] = Top.out
                /\ Piece(Top.path, v, W, object) /\ Top.path \in Seq(Names)
  BY <1>1, <1>4, <1>9, WrittenIsComplete
<1>11. PICK R : T \subseteq R /\ JsonSet(R) /\ v \in R
  <2>1. PICK h : h = Top /\ h \in NameLists(S, K) /\ h.at = "names" /\ FrameSays(h, W)
    BY <1>2, <1>9
  <2>2. \E R : T \subseteq R /\ JsonSet(R) /\ <<"object", h.out>> \in R
    BY <1>4, <2>1, WrittenIsJson
  <2> QED BY <1>10, <2>1, <2>2
<1>12. calls' = Append(Front(cs), Wrote(f, v))
  BY <1>1, <1>5, <1>10
<1>13. PICK p : p = Top.path
  OBVIOUS
<1>14. p = Append(f.path, Head(f.rest)[1]) /\ Piece(p, v, W, object)
  BY <1>6, <1>10, <1>13
<1> QED BY <1>1, <1>3, <1>4, <1>5, <1>6, <1>8, <1>11, <1>12, <1>14, WroteIsSaid

-----------------------------------------------------------------------------
\* The text of an object, and what is read of it.

Returning(S, W) == IsText(S, W, text.of, text.json)
TextKept == text.json[1] # "none" /\ Portable(text.of) => \E S, W : Returning(S, W)

LEMMA PortableIsWhole ==
    ASSUME NEW o, Portable(o), NEW p \in Paths
    PROVE  ~Breaks(LinkAt(p), o[p]) /\ PortableIn(LinkAt(p), o[p])
<1>1. PICK link, x : link = LinkAt(p) /\ x = o[p]
  OBVIOUS
<1>2. PortableIn(link, x)
  BY <1>1, Zenon DEF Portable, PortableIn
<1>3. ASSUME Breaks(link, x) PROVE FALSE
  <2>1. link.kind = "string" /\ "broken" \in (IF link.array THEN Range(x) ELSE {x})
    BY <1>3, Zenon DEF Breaks
  <2>2. ~PortableOne("string", "broken")
    BY DEF PortableOne
  <2>3. CASE link.array
    <3>1. PICK i \in DOMAIN x : x[i] = "broken"
      BY <2>1, <2>3 DEF Range
    <3> QED BY <1>2, <2>1, <2>2, <2>3, <3>1, Zenon DEF PortableIn
  <2>4. CASE ~link.array
    <3>1. x = "broken"
      BY <2>1, <2>4
    <3> QED BY <1>2, <2>1, <2>2, <2>4, <3>1, Zenon DEF PortableIn
  <2> QED BY <2>3, <2>4
<1> QED BY <1>1, <1>2, <1>3

LEMMA EndWritingSays ==
    ASSUME NEW S, NEW B, NEW V, NEW K, NEW O, Standing(S, B, V, K, O), Plainly, [Next]_vars,
           NEW T, NEW W, WritingSays(T, W), EndWriting
    PROVE  TextKept' /\ text'.of = object
<1>1. /\ At("names") /\ Top.rest = <<>> /\ Len(calls) = 1
      /\ text' = [json |-> IF \E p \in Paths : Linked(p) /\ Breaks(LinkAt(p), object[p])
                           THEN <<"null", "null">> ELSE <<"object", Top.out>>,
                  of |-> object]
  BY DEF EndWriting
<1>2. calls # <<>> /\ Top.at = "names" /\ Top \in NameLists(S, K)
  BY <1>1, NamesTopType
<1>3. Pieces(T, W, object) /\ CallsSay(calls, W) /\ JsonSet(T)
  BY Zenon DEF WritingSays, Pieces
<1>4. Top = calls[1] /\ 1 \in 1 .. Len(calls)
  <2>1. calls \in Seq(Frames(S, B, V, K, O))
    BY DEF Standing, StackOf
  <2> QED BY <1>1, <1>2, <2>1, LastInSeq DEF Top
<1>5. FrameSays(Top, W) /\ Top.path = <<>>
  BY <1>3, <1>4, Zenon DEF CallsSay, NestedPaths
<1>6. PICK v : v = <<"object", Top.out>> /\ Piece(Top.path, v, W, object) /\ Top.path \in Seq(Names)
  BY <1>1, <1>3, <1>5, WrittenIsComplete
<1>7. PICK R : T \subseteq R /\ JsonSet(R) /\ v \in R
  <2>1. PICK h : h = Top /\ h \in NameLists(S, K) /\ h.at = "names" /\ FrameSays(h, W)
    BY <1>2, <1>5
  <2>2. \E R : T \subseteq R /\ JsonSet(R) /\ <<"object", h.out>> \in R
    BY <1>3, <2>1, WrittenIsJson
  <2> QED BY <1>6, <2>1, <2>2
<1>8. PICK e, o : e = <<>> /\ o = object
  OBVIOUS
<1>9. e \in Seq(Names) /\ Piece(e, v, W, o) /\ Pieces(T, W, o)
  BY <1>3, <1>5, <1>6, <1>8
<1>10. PICK X : <<e, v>> \in X /\ Pieces(R, X, o)
  BY <1>7, <1>9, PiecesMore
<1>11. Pieces(R, X, o)'
  BY <1>10, PiecesStay DEF Plainly
<1>12. text'.of = o
  BY <1>1, <1>8
<1>13. ASSUME Portable(o) PROVE text'.json = v
  <2>1. \A p \in Paths : ~Breaks(LinkAt(p), object[p])
    BY <1>8, <1>13, PortableIsWhole
  <2> QED BY <1>1, <1>6, <2>1
<1>14. ASSUME Portable(text.of)' PROVE \E Q, Y : Returning(Q, Y)'
  <2>1. Portable(o)
    BY <1>12, <1>14 DEF Portable
  <2>2. text'.json = v
    BY <1>13, <2>1
  <2>3. PICK t : t = text'
    OBVIOUS
  <2>4. Pieces(R, X, t.of)'
    BY <1>11, <1>12, <2>3
  <2>5. Pieces(R, X, text.of)'
    BY <2>3, <2>4 DEF Pieces, Piece, Complete, Asked, Known
  <2>6. Returning(R, X)'
    BY <1>7, <1>8, <1>10, <2>2, <2>5 DEF Returning, IsText
  <2> QED BY <2>6
<1> QED BY <1>8, <1>12, <1>14 DEF TextKept

LEMMA TextStays ==
    ASSUME MapsInRange, [Next]_vars, TextKept, text' = text
    PROVE  TextKept'
<1>1. PICK t : t = text
  OBVIOUS
<1>2. CASE ~(t.json[1] # "none" /\ Portable(t.of))
  BY <1>1, <1>2 DEF TextKept, Portable
<1>3. CASE t.json[1] # "none" /\ Portable(t.of)
  <2>1. PICK S, W : Pieces(S, W, t.of) /\ t.json \in S /\ <<<<>>, t.json>> \in W
    BY <1>1, <1>3 DEF TextKept, Returning, IsText
  <2>2. PICK o : o = t.of
    OBVIOUS
  <2>3. Pieces(S, W, o)'
    BY <2>1, <2>2, PiecesStay
  <2>4. text'.of = o
    BY <1>1, <2>2
  <2>5. Pieces(S, W, text.of)'
    BY <2>3, <2>4 DEF Pieces, Piece, Complete, Asked, Known
  <2>6. Returning(S, W)'
    BY <1>1, <2>1, <2>5 DEF Returning, IsText
  <2> QED BY <2>6 DEF TextKept
<1> QED BY <1>2, <1>3

\* Only to_json_string writes.
Unwritten(cs) == \E G : cs \in Seq(G) /\ \A f \in G : ~Writing(f)
OnlyReads == status = "running" /\ op # "to_json_string" => Unwritten(calls)

LEMMA UnwrittenTop ==
    ASSUME NEW cs, Unwritten(cs), cs # <<>>
    PROVE  ~Writing(Last(cs)) /\ Unwritten(Front(cs))
<1>1. PICK G : cs \in Seq(G) /\ \A f \in G : ~Writing(f)
  BY DEF Unwritten
<1>2. Last(cs) \in G /\ Front(cs) \in Seq(G)
  BY <1>1, LastInSeq, PopTop
<1> QED BY <1>1, <1>2, Zenon DEF Unwritten

LEMMA UnwrittenMore ==
    ASSUME NEW cs, Unwritten(cs), NEW f, ~Writing(f)
    PROVE  /\ Unwritten(Append(cs, f)) /\ Unwritten(<<f>>)
           /\ \A g : ~Writing(g) => Unwritten(cs \o <<f, g>>) /\ Unwritten(<<f, g>>)
<1>1. PICK G : cs \in Seq(G) /\ \A h \in G : ~Writing(h)
  BY DEF Unwritten
<1>2. ASSUME NEW g, ~Writing(g)
      PROVE  Unwritten(Append(cs, f)) /\ Unwritten(<<f>>) /\ Unwritten(cs \o <<f, g>>) /\ Unwritten(<<f, g>>)
  <2>1. PICK H : H = G \cup {f, g}
    OBVIOUS
  <2>2. \A h \in H : ~Writing(h)
    BY <1>1, <1>2, <2>1
  <2>3. cs \in Seq(H) /\ f \in H /\ g \in H
    BY <1>1, <2>1, SeqMonotonic
  <2>4. PICK two : two = <<f, g>>
    OBVIOUS
  <2>5. two \in Seq(H)
    BY <2>3, <2>4
  <2>6. Append(cs, f) \in Seq(H) /\ <<f>> \in Seq(H) /\ cs \o two \in Seq(H)
    BY <2>3, <2>5, AppendProperties, ConcatProperties
  <2> QED BY <2>2, <2>4, <2>5, <2>6, Zenon DEF Unwritten
<1> QED BY <1>2

LEMMA OnlyReadsStays ==
    ASSUME NEW S, NEW B, NEW V, NEW K, NEW O, Standing(S, B, V, K, O), Plainly, Proceed, OnlyReads,
           op # "to_json_string"
    PROVE  OnlyReads' /\ text' = text
<1>1. status = "running" /\ op' = op
  BY ProceedIsPlain
<1>2. calls # <<>> /\ Top \in Frames(S, B, V, K, O) /\ calls \in Seq(Frames(S, B, V, K, O))
  BY <1>1, TopType DEF Standing, StackOf
<1>3. Unwritten(calls) /\ Unwritten(Front(calls)) /\ ~Writing(Top)
  BY <1>1, <1>2, UnwrittenTop DEF OnlyReads, Top
<1>4. ASSUME NEW f, f.at \in {"items", "elements", "from_json_value"} PROVE ~Writing(f)
  BY <1>4 DEF Writing
<1>5. ASSUME Unwritten(calls') PROVE OnlyReads'
  BY <1>1, <1>5 DEF OnlyReads, Unwritten
<1>6. CASE Register
  BY <1>3, <1>5, <1>6 DEF Register
<1>7. CASE StartReading
  <2>1. PICK c, path, rest : calls' = Append(Front(calls), Frame("items", c, path, rest))
    BY <1>7, Zenon DEF StartReading, Replace
  <2>2. PICK f : f = Frame("items", c, path, rest)
    OBVIOUS
  <2>3. ~Writing(f)
    BY <1>4, <2>2, FrameFields
  <2>4. Unwritten(calls')
    BY <1>3, <2>1, <2>2, <2>3, UnwrittenMore
  <2> QED BY <1>5, <1>7, <2>4 DEF StartReading
<1>8. CASE SkipUnlinked \/ ReadMember \/ ReadNested
  <2>1. AtItem
    BY <1>8 DEF SkipUnlinked, ReadMember, ReadNested, AtLinked
  <2>2. PICK f : f = Advanced(Top)
    OBVIOUS
  <2>3. f.at = "items"
    <3>1. PICK h : h = Top /\ h \in Items(S, V, K)
      BY <2>1, AtItemType
    <3>2. Advanced(h).at = "items"
      BY <3>1, ItemsFields
    <3> QED BY <2>2, <3>1, <3>2
  <2>4. ~Writing(f)
    BY <1>4, <2>3
  <2>5. CASE SkipUnlinked \/ ReadMember
    <3>1. calls' = Append(Front(calls), f)
      BY <2>2, <2>5 DEF SkipUnlinked, ReadMember, Replace
    <3>2. Unwritten(calls')
      BY <1>3, <2>4, <3>1, UnwrittenMore
    <3> QED BY <1>5, <2>5, <3>2 DEF SkipUnlinked, ReadMember
  <2>6. CASE ReadNested
    <3>1. PICK g : g = Frame("items", Link.kind, Path, Value[2])
      OBVIOUS
    <3>2. ~Writing(g)
      BY <1>4, <3>1, FrameFields
    <3>3. calls' = Front(calls) \o <<f, g>>
      BY <2>2, <2>6, <3>1 DEF ReadNested
    <3>4. Unwritten(calls')
      BY <1>3, <2>4, <3>2, <3>3, UnwrittenMore
    <3> QED BY <1>5, <2>6, <3>4 DEF ReadNested
  <2> QED BY <1>8, <2>5, <2>6
<1>9. CASE EndNested
  BY <1>3, <1>5, <1>9 DEF EndNested
<1>10. CASE ReadElement
  <2>1. Top \in Elements(B, V, O) /\ Top.rest # <<>>
    BY <1>2, <1>10, FrameType DEF ReadElement, At
  <2>2. PICK f : f = Advanced(Top) /\ f \in Elements(B, V, O)
    BY <2>1, ElementsAdvance
  <2>3. PICK g : g = Reading(Head(Top.rest))
    OBVIOUS
  <2>4. f.at = "elements" /\ g.at = "from_json_value"
    BY <2>2, <2>3, FrameFields DEF Elements, Reading
  <2>5. ~Writing(f) /\ ~Writing(g)
    BY <1>4, <2>4
  <2>6. calls' = <<f, g>>
    BY <1>10, <2>2, <2>3 DEF ReadElement
  <2>7. Unwritten(calls')
    BY <1>3, <2>5, <2>6, UnwrittenMore
  <2> QED BY <1>5, <1>10, <2>7 DEF ReadElement
<1>11. CASE EndElement
  <2>1. calls[1].at = "elements" /\ Len(calls) = 2
    BY <1>11 DEF EndElement
  <2>2. PICK h : h = calls[1] /\ h \in Frames(S, B, V, K, O)
    BY <1>2, <2>1, ElementOfSeq
  <2>3. h \in Elements(B, V, O)
    BY <2>1, <2>2, FrameType
  <2>4. PICK f : f = [h EXCEPT !.out = Append(@, result)]
    OBVIOUS
  <2>5. f.at = "elements"
    BY <2>3, <2>4 DEF Elements
  <2>6. calls' = <<f>>
    BY <1>11, <2>2, <2>4 DEF EndElement
  <2>7. Unwritten(calls')
    BY <1>3, <1>4, <2>5, <2>6, UnwrittenMore
  <2> QED BY <1>5, <1>11, <2>7 DEF EndElement
<1>12. CASE RegisterThrows \/ NotAnObject \/ UseMissing \/ FailAssertion \/ RefuseMember
            \/ RefuseNested \/ EndReading \/ NotAnArray \/ EndElements
  BY <1>12 DEF RegisterThrows, NotAnObject, UseMissing, FailAssertion, RefuseMember, RefuseNested,
               EndReading, NotAnArray, EndElements, Stop, OnlyReads
<1>13. ASSUME StartWriting \/ WriteMember \/ WriteNested \/ EndNestedText \/ EndWriting PROVE FALSE
  BY <1>3, <1>13 DEF StartWriting, WriteMember, WriteNested, EndNestedText, EndWriting, At, Writing
<1> QED BY <1>6, <1>7, <1>8, <1>9, <1>10, <1>11, <1>12, <1>13 DEF Proceed

\* The innermost call of to_json_string writes.
LEMMA WritesWhenWriting ==
    ASSUME NEW S, NEW B, NEW V, NEW K, NEW O, Standing(S, B, V, K, O), Plainly, BeingWritten,
           status = "running", op = "to_json_string"
    PROVE  Writing(Top)
<1>1. PICK T, W : WritingSays(T, W)
  BY DEF BeingWritten
<1>2. calls # <<>> /\ calls \in Seq(Frames(S, B, V, K, O))
  BY TopType DEF Standing, StackOf
<1>3. Len(calls) \in 1 .. Len(calls) /\ Top = calls[Len(calls)]
  BY <1>2, LastInSeq DEF Top
<1>4. FrameSays(Top, W)
  BY <1>1, <1>3, Zenon DEF WritingSays, CallsSay
<1> QED BY <1>4, Zenon DEF FrameSays

\* The steps of to_json_string.
LEMMA WritingProceeds ==
    ASSUME NEW S, NEW B, NEW V, NEW K, NEW O, Standing(S, B, V, K, O), Plainly, Proceed, BeingWritten,
           TextKept, Holds(text.of), op = "to_json_string"
    PROVE  BeingWritten' /\ TextKept' /\ Holds(text'.of)
<1>0. status = "running" /\ op' = op /\ [Next]_vars
  BY ProceedIsPlain DEF Next
<1>1. PICK T, W : WritingSays(T, W)
  BY <1>0 DEF BeingWritten
<1>2. Writing(Top)
  BY <1>0, WritesWhenWriting
<1>3. MapsInRange
  BY DEF Plainly
<1>4. ASSUME text' = text PROVE TextKept' /\ Holds(text'.of)
  BY <1>0, <1>3, <1>4, TextStays
<1>5. CASE StartWriting \/ WriteMember \/ WriteNested \/ EndNestedText
  <2>1. BeingWritten'
    BY <1>0, <1>1, <1>5, StartWritingSays, WriteMemberSays, WriteNestedSays, EndNestedTextSays
  <2>2. text' = text
    BY <1>5 DEF StartWriting, WriteMember, WriteNested, EndNestedText
  <2> QED BY <1>4, <2>1, <2>2
<1>6. CASE EndWriting
  <2>1. TextKept' /\ text'.of = object
    BY <1>0, <1>1, <1>6, EndWritingSays
  <2>2. status' # "running"
    BY <1>6 DEF EndWriting, Stop
  <2>3. Holds(object)
    BY DEF Standing
  <2> QED BY <2>1, <2>2, <2>3 DEF BeingWritten
<1>7. CASE Register
  <2>1. calls' = calls /\ object' = object /\ text' = text
    BY <1>7 DEF Register
  <2>2. PICK cs : cs = calls
    OBVIOUS
  <2>3. Pieces(T, W, object) /\ CallsSay(cs, W)
    BY <1>1, <2>2, Zenon DEF WritingSays
  <2>4. BeingWritten'
    BY <1>0, <1>3, <2>1, <2>2, <2>3, WritingStays
  <2> QED BY <1>4, <2>1, <2>4
<1>8. CASE RegisterThrows
  <2>1. status' # "running" /\ text' = text
    BY <1>8 DEF RegisterThrows, Stop
  <2> QED BY <1>4, <2>1 DEF BeingWritten
<1>9. ASSUME StartReading \/ NotAnObject \/ SkipUnlinked \/ UseMissing \/ ReadMember \/ ReadNested
             \/ FailAssertion \/ RefuseMember \/ RefuseNested \/ EndNested \/ EndReading
             \/ NotAnArray \/ ReadElement \/ EndElement \/ EndElements
      PROVE  FALSE
  BY <1>2, <1>9 DEF StartReading, NotAnObject, SkipUnlinked, UseMissing, ReadMember, ReadNested,
     FailAssertion, RefuseMember, RefuseNested, EndNested, EndReading, NotAnArray, ReadElement,
     EndElement, EndElements, AtLinked, AtItem, At, Writing
<1> QED BY <1>5, <1>6, <1>7, <1>8, <1>9 DEF Proceed

-----------------------------------------------------------------------------
\* from_json_string of a whole text does not fail.

LEMMA PathIsArray ==
    ASSUME NEW p \in Paths
    PROVE  LinkAt(p).array \in BOOLEAN
<1>1. PICK m : m = <<p, LinkAt(p)>> /\ m \in Members
  BY PathType
<1>2. m[2] = LinkAt(p) /\ m[2].kind \notin Classes
  BY <1>1, PathType, LinksAssumption
<1>3. PICK d \in 0 .. Depth : m \in Inside[d]
  BY <1>1 DEF Members, Depth
<1>4. CASE d = 0
  <2>1. m = <<<<>>, RootLink>>
    BY <1>3, <1>4, InsideUnfolds
  <2>2. m[2] = RootLink
    BY <2>1
  <2>3. RootLink.array = FALSE
    BY DEF RootLink
  <2> QED BY <1>2, <2>2, <2>3
<1>5. CASE d # 0
  <2>1. m \in Within(Inside[d - 1])
    BY <1>3, <1>5, InsideUnfolds
  <2>2. PICK n : n[2].kind \in Classes /\ m \in MembersOf(n)
    BY <2>1 DEF Within
  <2>3. PICK c \in Classes : c = n[2].kind
    BY <2>2
  <2>4. PICK l \in Range(Links[c]) : m = <<Append(n[1], l.name), l>>
    BY <2>2, <2>3 DEF MembersOf
  <2>5. l \in LinkSet
    BY LinkType
  <2>6. m[2] = l
    BY <2>4
  <2> QED BY <1>2, <2>5, <2>6 DEF LinkSet
<1> QED BY <1>4, <1>5

\* A member is read back from what was written for it.
LEMMA PieceReturns ==
    ASSUME NEW o, Holds(o), Portable(o), NEW W, NEW p \in Paths, NEW y, Piece(p, y, W, o)
    PROVE  LET l == LinkAt(p)
           IN  Takes(l, y) /\ Held(l, y) = o[p] /\ (l.kind = "integer" /\ ~l.array => Fits(y[2]))
<1>1. PICK l : l = LinkAt(p)
  OBVIOUS
<1>2. l.kind \in Scalars /\ l.array \in BOOLEAN
  BY <1>1, PathType, PathIsArray
<1>3. y = Printed(l, o[p])
  BY <1>1, <1>2, LinksAssumption DEF Piece
<1>4. o[p] \in HeldFor(l) /\ PortableIn(l, o[p])
  BY <1>1, HoldsIs, PortableIsWhole
<1> QED BY <1>1, <1>2, <1>3, <1>4, PrintedReturns

Back(S, W) ==
    Returning(S, W) /\ Holds(text.of) /\ Portable(text.of) /\ op = "from_json_string" /\ json = text.json
LEMMA BackSays ==
    ASSUME NEW T, NEW W, Back(T, W), NEW m \in Members, Linked(m[1])
    PROVE  \E y : Mentions(json, m[1]) = <<y>> /\ Piece(m[1], y, W, text.of)
<1>1. PICK v, o : v = json /\ o = text.of
  OBVIOUS
<1>2. IsText(T, W, o, v) /\ Pieces(T, W, o)
  BY <1>1, Zenon DEF Back, Returning, IsText
<1>3. PICK y \in T : <<m[1], y>> \in W /\ Mentions(v, m[1]) = <<y>>
  <2>1. SaysPiece(T, W, v, m[1])
    BY <1>2, TextSays, Zenon
  <2> QED BY <2>1 DEF SaysPiece
<1>4. PICK w \in W : w[1] = m[1] /\ w[2] = y
  BY <1>3
<1>5. Piece(w[1], w[2], W, o)
  BY <1>2 DEF Pieces
<1> QED BY <1>1, <1>3, <1>4, <1>5

\* The class whose members are being read has its map.
LEMMA BackAsked ==
    ASSUME NEW S, NEW B, NEW V, NEW K, NEW O, Standing(S, B, V, K, O), Plainly, SaidSoFar,
           status = "running", NEW T, NEW W, Back(T, W)
    PROVE  Asked(Top.class) /\ (Top.at = "items" => Linked(Top.path)) /\ json[1] = "object"
           /\ Top.at \in {"items", "from_json_value"} /\ (Top.at = "from_json_value" => Top = Reading(json))
<1>1. op \in ReadOps /\ Base = 0 /\ Current = json /\ op # "array_from_json_value"
  BY DEF Back, ReadOps, Base, Current
<1>2. /\ Len(calls) \in Nat \ {0} /\ Top = calls[Len(calls)]
      /\ Top.at \in {"items", "from_json_value"}
      /\ Top.at = "items" => InObject
      /\ Top.at = "from_json_value" => Beginning
  BY <1>1, Phase
<1>3. Top.at = "items" => Linked(Top.path)
  <2> SUFFICES ASSUME Top.at = "items" PROVE Linked(Top.path)
    OBVIOUS
  <2>1. InObject
    BY <1>2
  <2>2. Len(calls) \in Base + 1 .. Len(calls)
    BY <1>1, <1>2
  <2>3. Linked(calls[Len(calls)].path)
    BY <2>1, <2>2, Zenon DEF InObject
  <2> QED BY <1>2, <2>3
<1>4. Top.at = "from_json_value" => Top = Reading(json)
  BY <1>1, <1>2 DEF Beginning
<1>5. PICK e \in Members : e = <<<<>>, RootLink>> /\ e[1] = <<>> /\ e[2].kind = Root
  BY RootIsMember DEF RootLink
<1>6. PICK m \in Members : m[2].kind = Top.class /\ Linked(m[1])
  <2>1. CASE Top.at = "from_json_value"
    <3>1. Top.class = Root
      BY <1>4, <2>1, FrameFields DEF Reading
    <3> QED BY <1>5, <3>1, NoneIsLinked
  <2>2. CASE Top.at = "items"
    <3>1. Top \in Items(S, V, K)
      BY <2>2, TopType, FrameType
    <3> QED BY <1>3, <2>2, <3>1 DEF Items, AtMember
  <2> QED BY <1>2, <2>1, <2>2
<1>7. PICK y : Piece(m[1], y, W, text.of)
  BY <1>6, BackSays
<1>8. Top.class \in Classes
  BY TopType, FrameType
<1>9. Asked(Top.class)
  BY <1>6, <1>7, <1>8, MemberType DEF Piece, Complete
<1>10. json[1] = "object"
  <2>1. PICK z : Mentions(json, e[1]) = <<z>> /\ Piece(e[1], z, W, text.of)
    BY <1>5, NoneIsLinked, BackSays
  <2>2. z = json
    BY <1>5, <2>1, MentionsUnfolds
  <2> QED BY <1>5, <2>1, <2>2, MemberType, LinksAssumption DEF Piece, Complete
<1> QED BY <1>2, <1>3, <1>4, <1>9, <1>10

\* What is given for a linked member is what was written for it.
LEMMA BackLinked ==
    ASSUME NEW S, NEW B, NEW V, NEW K, NEW O, Standing(S, B, V, K, O), Plainly, SaidSoFar,
           NEW T, NEW W, Back(T, W), AtLinked
    PROVE  Piece(Path, Value, W, text.of) /\ LinkAt(Path) = Link
           /\ (Link.kind \notin Classes => Path \in Paths)
<1>1. AtItem /\ status = "running" /\ Top.at = "items" /\ Name \in Known(Top.class)
  BY DEF AtLinked, AtItem, At
<1>2. Top \in Items(S, V, K) /\ Name \in Names
  BY <1>1, AtItemType
<1>3. Top.path \in Seq(Names) /\ LinkAt(Top.path).kind = Top.class
  BY <1>2, ItemsPlace
<1>4. Linked(Path)
  BY <1>1, <1>2, <1>3, BackAsked, LinkedNext DEF Path
<1>5. /\ <<Path, Link>> \in Members /\ LinkAt(Path) = Link
      /\ Link.kind \notin Classes => Path \in Paths
      /\ \E v \in V : Value \in Range(Mentions(v, Path))
  BY AtLinkedType
<1>6. PICK m \in Members : m[1] = Path
  BY <1>5
<1>7. PICK y : Mentions(json, m[1]) = <<y>> /\ Piece(m[1], y, W, text.of)
  BY <1>4, <1>6, BackSays
<1>8. V = {json}
  BY DEF Standing, Sources, Back
<1>9. Value \in Range(<<y>>)
  BY <1>5, <1>6, <1>7, <1>8
<1>10. Value = y
  BY <1>9 DEF Range
<1> QED BY <1>5, <1>6, <1>7, <1>10

FromText ==
    op = "from_json_string" =>
        /\ json = text.json /\ text.json[1] # "none"
        /\ Portable(text.of) => status \in {"running", "returned"}
LEMMA NoFailure ==
    ASSUME NEW S, NEW B, NEW V, NEW K, NEW O, Standing(S, B, V, K, O), Plainly, SaidSoFar, Proceed,
           NEW T, NEW W, Back(T, W)
    PROVE  status' \in {"running", "returned"}
<1>1. status = "running"
  BY ProceedIsPlain
<1>2. Asked(Top.class) /\ json[1] = "object" /\ Top.at \in {"items", "from_json_value"}
      /\ (Top.at = "from_json_value" => Top = Reading(json))
  BY <1>1, BackAsked
<1>3. ASSUME RegisterThrows PROVE FALSE
  BY <1>2, <1>3 DEF RegisterThrows, Unregistered, Asked
<1>4. ASSUME NotAnObject PROVE FALSE
  <2>1. Top.at = "from_json_value" /\ Top.rest[1][1] # "object"
    BY <1>4 DEF NotAnObject, At
  <2>2. Top.rest = <<json>>
    BY <1>2, <2>1, FrameFields DEF Reading
  <2> QED BY <1>2, <2>1, <2>2
<1>5. ASSUME UseMissing PROVE FALSE
  <2>1. status' = "undefined"
    BY <1>5 DEF UseMissing, Stop
  <2>2. PICK v \in V, name \in Known(Root) : Mentions(v, <<name>>) = <<>>
    BY <2>1, UndefinedForReason
  <2>3. v = json
    BY <2>2 DEF Standing, Sources, Back
  <2>4. name \in Names /\ LinkOf(Root, name) \in Range(Links[Root]) /\ LinkOf(Root, name).name = name
    BY <2>2, KnownsType, LinksAssumption DEF Plainly
  <2>5. PICK e \in Members : e[1] = <<>> /\ e[2].kind = Root
    BY RootIsMember DEF RootLink
  <2>6. PICK l \in Range(Links[Root]) : l.name = name
    BY <2>4
  <2>7. <<Append(e[1], l.name), l>> \in Members
    BY <2>5, <2>6, LinkedIsMember, LinksAssumption
  <2>8. PICK p \in Seq(Names) : p = <<>>
    BY EmptySeq
  <2>9. PICK m \in Members : m[1] = <<name>>
    BY <2>5, <2>6, <2>7
  <2>10. Linked(<<name>>)
    <3>1. Linked(p) /\ name \in Known(LinkAt(p).kind)
      BY <2>2, <2>8, NoneIsLinked, RootIs
    <3>2. Linked(Append(p, name))
      BY <2>4, <3>1, LinkedNext
    <3> QED BY <2>4, <2>8, <3>2
  <2>11. PICK y : Mentions(json, m[1]) = <<y>>
    BY <2>9, <2>10, BackSays
  <2>12. Mentions(json, m[1]) # <<>>
    BY <2>11
  <2> QED BY <2>2, <2>3, <2>9, <2>12
<1>6. ASSUME FailAssertion \/ RefuseMember PROVE FALSE
  <2>1. AtLinked /\ Link.kind \notin Classes
    BY <1>6, LinksAssumption DEF FailAssertion, RefuseMember, Scalars
  <2>2. PICK p, l, y : /\ p = Path /\ l = Link /\ y = Value /\ l = LinkAt(p)
                       /\ p \in Paths /\ Piece(p, y, W, text.of)
    BY <2>1, BackLinked
  <2>3. Takes(l, y) /\ (l.kind = "integer" /\ ~l.array => Fits(y[2]))
    BY <2>2, PieceReturns DEF Back
  <2> QED BY <1>6, <2>2, <2>3 DEF FailAssertion, RefuseMember
<1>7. ASSUME RefuseNested PROVE FALSE
  <2>1. AtLinked /\ Link.kind \in Classes /\ Value[1] # "object"
    BY <1>7 DEF RefuseNested
  <2> QED BY <2>1, BackLinked DEF Piece, Complete
<1>8. ASSUME NotAnArray PROVE FALSE
  BY <1>2, <1>8 DEF NotAnArray, At
<1>9. CASE EndReading \/ EndElements \/ EndWriting
  BY <1>9 DEF EndReading, EndElements, EndWriting, Stop
<1>10. CASE Register \/ StartReading \/ SkipUnlinked \/ ReadMember \/ ReadNested \/ EndNested
             \/ ReadElement \/ EndElement \/ StartWriting \/ WriteMember \/ WriteNested
             \/ EndNestedText
  BY <1>1, <1>10 DEF Register, StartReading, SkipUnlinked, ReadMember, ReadNested, EndNested,
              ReadElement, EndElement, StartWriting, WriteMember, WriteNested, EndNestedText, Go
<1> QED BY <1>3, <1>4, <1>5, <1>6, <1>7, <1>8, <1>9, <1>10 DEF Proceed

-----------------------------------------------------------------------------
\* What is written stays so, and a reader of it returns.

Written == Holds(text.of) /\ TextKept /\ BeingWritten /\ OnlyReads /\ FromText
LEMMA StartWrites ==
    ASSUME Plainly, Start, Written
    PROVE  Written'
<1>1. text' = text /\ [Next]_vars /\ MapsInRange
  BY DEF Plainly, Next, Start, FromJsonValue, FromJsonString, ReadStream, FromJsonObject, ToJsonString,
         ArrayFromJsonValue, Call, FromMissingFile, ArrayFromMissingFile, MissingFile
<1>2. TextKept' /\ Holds(text.of)'
  <2>1. TextKept'
    BY <1>1, TextStays DEF Written
  <2> QED BY <1>1, <2>1 DEF Written, Holds
<1>3. CASE ToJsonString
  <2>1. PICK f : f = Frame("to_json_string", Root, <<>>, <<>>)
    OBVIOUS
  <2>2. f.at = "to_json_string" /\ f.path = <<>>
    BY <2>1, FrameFields
  <2>3. calls' = <<f>> /\ object' = object /\ op' = "to_json_string"
    BY <1>3, <2>1 DEF ToJsonString, Call
  <2>4. PICK cs : cs = <<f>>
    OBVIOUS
  <2>5. FrameSays(f, {})
    BY <2>2 DEF FrameSays, Writing
  <2>6. CallsSay(cs, {})
    <3>1. Len(cs) = 1 /\ cs[1] = f
      BY <2>4
    <3> QED BY <2>2, <2>5, <3>1 DEF CallsSay, NestedPaths
  <2>7. Pieces({}, {}, object)
    BY DEF Pieces, JsonSet
  <2>8. BeingWritten'
    BY <1>1, <2>3, <2>4, <2>6, <2>7, WritingStays
  <2> QED BY <1>2, <2>3, <2>8 DEF Written, OnlyReads, FromText
<1>4. ASSUME op' # "to_json_string",
             status' = "running" => \E f : calls' = <<f>> /\ f.at \in {"from_json_value", "items", "elements"},
             op' = "from_json_string" => FromText'
      PROVE  Written'
  <2>1. Unwritten(<<>>)
    <3>1. PICK G : G = {}
      OBVIOUS
    <3>2. PICK e \in Seq(G) : e = <<>>
      BY EmptySeq
    <3>3. \A g \in G : ~Writing(g)
      BY <3>1
    <3>4. Unwritten(e)
      BY <3>3, Zenon DEF Unwritten
    <3> QED BY <3>2, <3>4
  <2>2. ASSUME status' = "running" PROVE Unwritten(calls)'
    <3>1. PICK f : calls' = <<f>> /\ f.at \in {"from_json_value", "items", "elements"}
      BY <1>4, <2>2
    <3>2. Unwritten(<<f>>)
      BY <2>1, <3>1, UnwrittenMore DEF Writing
    <3> QED BY <3>1, <3>2 DEF Unwritten
  <2> QED BY <1>2, <1>4, <2>2 DEF Written, BeingWritten, OnlyReads, FromText
<1>5. CASE FromJsonString
  <2>1. calls' = <<Reading(text.json)>> /\ Reading(text.json).at = "from_json_value"
    BY <1>5, FrameFields DEF FromJsonString, Call, Reading
  <2>2. op' = "from_json_string" /\ FromText'
    BY <1>1, <1>5 DEF FromJsonString, Call, FromText
  <2> QED BY <1>4, <2>1, <2>2
<1>6. CASE FromJsonValue \/ ReadStream
  <2>1. PICK v : calls' = <<Reading(v)>> /\ op' \in {"from_json_value", "operator>>"}
    BY <1>6 DEF FromJsonValue, ReadStream, Call
  <2>2. Reading(v).at = "from_json_value"
    BY FrameFields DEF Reading
  <2> QED BY <1>4, <2>1, <2>2
<1>7. CASE FromJsonObject \/ ArrayFromJsonValue
  <2>1. PICK at, rest : /\ calls' = <<Frame(at, Root, <<>>, rest)>> /\ at \in {"items", "elements"}
                        /\ op' \in {"from_json_object", "array_from_json_value"}
    BY <1>7 DEF FromJsonObject, ArrayFromJsonValue, Call
  <2>2. Frame(at, Root, <<>>, rest).at = at
    BY FrameFields
  <2> QED BY <1>4, <2>1, <2>2
<1>8. CASE FromMissingFile \/ ArrayFromMissingFile
  <2>1. op' \in {"from_file", "array_from_file"} /\ status' # "running"
    BY <1>8 DEF FromMissingFile, ArrayFromMissingFile, MissingFile
  <2> QED BY <1>4, <2>1
<1> QED BY <1>3, <1>5, <1>6, <1>7, <1>8 DEF Start

LEMMA ProceedWrites ==
    ASSUME NEW S, NEW B, NEW V, NEW K, NEW O, Standing(S, B, V, K, O), Plainly, SaidSoFar, Proceed,
           Written
    PROVE  Written'
<1>1. op' = op /\ json' = json /\ status = "running" /\ [Next]_vars /\ MapsInRange
  BY ProceedIsPlain DEF Next, Plainly
<1>2. CASE op = "to_json_string"
  <2>1. BeingWritten' /\ TextKept' /\ Holds(text'.of)
    BY <1>2, WritingProceeds DEF Written
  <2> QED BY <1>1, <1>2, <2>1 DEF Written, OnlyReads, FromText, Holds
<1>3. CASE op # "to_json_string"
  <2>1. OnlyReads' /\ text' = text
    BY <1>3, OnlyReadsStays DEF Written
  <2>2. TextKept'
    BY <1>1, <2>1, TextStays DEF Written
  <2>3. Holds(text.of)'
    BY <2>1 DEF Written, Holds
  <2>4. FromText'
    <3> SUFFICES ASSUME op = "from_json_string" PROVE FromText'
      BY <1>1 DEF FromText
    <3>1. json = text.json /\ text.json[1] # "none"
      BY DEF Written, FromText
    <3>2. ASSUME Portable(text.of) PROVE status' \in {"running", "returned"}
      <4>1. PICK T, W : Returning(T, W)
        BY <3>1, <3>2 DEF Written, TextKept
      <4>2. Back(T, W)
        BY <3>1, <3>2, <4>1, Zenon DEF Back, Written
      <4> QED BY <4>2, NoFailure
    <3>3. PICK o : o = text.of /\ o = text'.of
      BY <2>1
    <3>4. Portable(o)' <=> Portable(o)
      BY DEF Portable
    <3> QED BY <1>1, <2>1, <3>1, <3>2, <3>3, <3>4 DEF FromText, Portable
  <2> QED BY <1>1, <1>3, <2>1, <2>2, <2>3, <2>4 DEF Written, BeingWritten
<1> QED BY <1>2, <1>3

LEMMA WrittenStep == Said /\ Written /\ [Next]_vars => Written'
<1> SUFFICES ASSUME Said, Written, [Next]_vars PROVE Written'
  OBVIOUS
<1>1. Plainly /\ SaidSoFar /\ \E S, B, V, K, O : Standing(S, B, V, K, O)
  BY DEF Said, Inv
<1>2. CASE Start
  BY <1>1, <1>2, StartWrites
<1>3. CASE Proceed
  BY <1>1, <1>3, ProceedWrites
<1>4. CASE UNCHANGED vars
  <2>1. UNCHANGED <<text, calls, status, op, json, object>>
    BY <1>4 DEF vars, program
  <2>2. TextKept' /\ Holds(text.of)'
    <3>1. TextKept'
      BY <1>1, <2>1, TextStays DEF Written, Plainly
    <3> QED BY <2>1, <3>1 DEF Written, Holds
  <2>3. OnlyReads' /\ FromText'
    BY <2>1 DEF Written, OnlyReads, Unwritten, Writing, FromText, Portable
  <2>4. BeingWritten'
    <3>1. CASE ~(status = "running" /\ op = "to_json_string")
      BY <2>1, <3>1 DEF BeingWritten
    <3>2. CASE status = "running" /\ op = "to_json_string"
      <4>1. PICK T, W : WritingSays(T, W)
        BY <3>2 DEF Written, BeingWritten
      <4>2. PICK cs : cs = calls
        OBVIOUS
      <4>3. Pieces(T, W, object) /\ CallsSay(cs, W)
        BY <4>1, <4>2, Zenon DEF WritingSays
      <4> QED BY <1>1, <2>1, <4>2, <4>3, WritingStays DEF Plainly
    <3> QED BY <3>1, <3>2
  <2> QED BY <2>2, <2>3, <2>4 DEF Written
<1> QED BY <1>2, <1>3, <1>4 DEF Next

LEMMA InitWritten == Init => Written
<1> SUFFICES ASSUME Init PROVE Written
  OBVIOUS
<1>1. status = "returned" /\ op = "none" /\ text.of = object /\ text.json[1] = "none"
  BY DEF Init
<1>2. Holds(object)
  BY ObjectsAssumption DEF Init
<1> QED BY <1>1, <1>2 DEF Written, TextKept, BeingWritten, OnlyReads, FromText

LEMMA WrittenComesBack == Said /\ Written => PortableComesBack
<1> SUFFICES ASSUME Said, Written, Portable(text.of), status # "running", op = "from_json_string"
             PROVE  /\ status = "returned"
                    /\ \A p \in Paths : object[p] = IF Linked(p) THEN text.of[p] ELSE Fresh[p]
  BY DEF PortableComesBack, ComesBack
<1>1. status = "returned" /\ json = text.json /\ text.json[1] # "none"
  BY DEF Written, FromText
<1>2. PICK T, W : Returning(T, W)
  BY <1>1 DEF Written, TextKept
<1>3. PICK o, v : o = text.of /\ v = json
  OBVIOUS
<1>4. IsText(T, W, o, v) /\ Pieces(T, W, o)
  BY <1>1, <1>2, <1>3, Zenon DEF Returning, IsText
<1>5. ASSUME NEW p \in Paths PROVE object[p] = IF Linked(p) THEN o[p] ELSE Fresh[p]
  <2>1. object[p] = Meaning(FirstOf(v, p[1]), p, Fresh)
    BY <1>1, <1>3 DEF Said, ReadsWhatIsSaid
  <2>2. CASE ~Linked(p)
    BY <2>1, <2>2 DEF Meaning
  <2>3. CASE Linked(p)
    <3>1. PICK m \in Members : m[1] = p
      BY PathType
    <3>2. SaysPiece(T, W, FirstOf(v, p[1]), p)
      <4>1. m[1] # <<>> /\ Linked(m[1])
        BY <2>3, <3>1, PathBegins
      <4>2. SaysPiece(T, W, FirstOf(v, m[1][1]), m[1])
        BY <1>4, <4>1, TextSays, Zenon
      <4> QED BY <3>1, <4>2
    <3>3. PICK y \in T : <<p, y>> \in W /\ Mentions(FirstOf(v, p[1]), p) = <<y>>
      BY <3>2 DEF SaysPiece
    <3>4. PICK w \in W : w[1] = p /\ w[2] = y
      BY <3>3
    <3>5. Piece(p, y, W, o)
      BY <1>4, <3>4 DEF Pieces
    <3>6. Held(LinkAt(p), y) = o[p]
      BY <1>3, <3>5, PieceReturns DEF Written
    <3>7. PICK M : M = Mentions(FirstOf(v, p[1]), p) /\ M # <<>> /\ Last(M) = y
      BY <3>3 DEF Last
    <3> QED BY <2>1, <2>3, <3>6, <3>7 DEF Meaning
  <2> QED BY <2>2, <2>3
<1> QED BY <1>1, <1>3, <1>5

\* What was written comes back: whatever the classes and their maps, a read of
\* the text of an object returns, and leaves in each linked member what the
\* object held, however deep, when the members hold what JSON can carry.
THEOREM TextComesBack == Spec => []PortableComesBack
<1>1. Init => Said /\ Written
  BY InitSaid, InitWritten
<1>2. Said /\ Written /\ [Next]_vars => (Said /\ Written)'
  BY SaidStep, WrittenStep
<1> QED BY <1>1, <1>2, WrittenComesBack, PTL DEF Spec
-----------------------------------------------------------------------------
\* Why a call throws.

LEMMA ThrowsForReason ==
    ASSUME NEW S, NEW B, NEW V, NEW K, NEW O, Standing(S, B, V, K, O), Plainly, Runs, SaidSoFar,
           BeingWritten, Proceed, status' = "threw"
    PROVE  \/ MapThrows
           \/ op = "array_from_json_value" /\ json[1] # "array"
           \/ op # "to_json_string" /\ \E v \in V : Unreadable(v)
<1>1. status = "running" /\ Top \in Frames(S, B, V, K, O)
  BY ProceedIsPlain, TopType
<1>2. CASE RegisterThrows
  <2>1. PICK c \in Classes : c = Top.class
    BY <1>1, FrameType
  <2>2. PICK n \in 0 .. Len(Links[c]) - 1 : registered' = [registered EXCEPT ![c] = n]
    BY <1>2, <2>1 DEF RegisterThrows
  <2>3. registered'[c] = n /\ n < Len(Links[c])
    BY <2>2, LinksAreSequences DEF Plainly, MapsInRange
  <2>4. AsksForMap /\ registered[c] = 0
    BY <1>2, <2>1 DEF RegisterThrows, Unregistered
  <2> QED BY <2>1, <2>3, <2>4 DEF MapThrows
<1>3. ASSUME NotAnObject \/ RefuseMember \/ RefuseNested
      PROVE  op \in ReadOps
  <2>1. Top.at \in {"from_json_value", "items"}
    BY <1>3 DEF NotAnObject, RefuseMember, RefuseNested, AtLinked, AtItem, At
  <2>2. ~Writing(Top)
    BY <2>1 DEF Writing
  <2> QED BY <1>1, <2>2, WritesWhenWriting DEF Runs
<1>4. CASE NotAnObject
  <2>1. Top.at = "from_json_value" /\ Top.rest[1][1] # "object"
    BY <1>4 DEF NotAnObject, At
  <2>2. PICK v \in V : Top = Reading(v)
    BY <1>1, <2>1, FrameType DEF Reads
  <2>3. Top.rest = <<v>>
    BY <2>2 DEF Reading, Frame
  <2>4. PICK m \in Members : m[1] = <<>> /\ m[2].kind \in Classes
    BY RootIsMember, LinksAssumption DEF RootLink
  <2>5. Mentions(v, m[1]) = <<v>> /\ Linked(m[1])
    BY <2>4, MentionsUnfolds, NoneIsLinked
  <2>6. PICK x \in Range(Mentions(v, m[1])) : x = v
    BY <2>5 DEF Range
  <2>7. Unreadable(v)
    BY <2>1, <2>3, <2>4, <2>5, <2>6 DEF Unreadable
  <2> QED BY <1>3, <1>4, <2>7 DEF ReadOps
<1>5. CASE NotAnArray
  <2>1. Top.at = "elements" /\ json[1] # "array"
    BY <1>5 DEF NotAnArray, At
  <2>2. O = "array_from_json_value"
    BY <1>1, <2>1, FrameType DEF Elements
  <2> QED BY <2>1, <2>2 DEF Standing
<1>6. CASE RefuseMember \/ RefuseNested
  <2>1. AtLinked /\ Top.at = "items" /\ Name \in Known(Top.class)
    BY <1>6 DEF RefuseMember, RefuseNested, AtLinked, AtItem, At
  <2>2. /\ <<Path, Link>> \in Members
        /\ \E v \in V : Value \in Range(Mentions(v, Path))
    BY <2>1, AtLinkedType
  <2>3. PICK v \in V : Value \in Range(Mentions(v, Path))
    BY <2>2
  <2>4. PICK m \in Members : m[1] = Path /\ m[2] = Link
    BY <2>2
  <2>5. PICK x \in Range(Mentions(v, m[1])) : x = Value
    BY <2>3, <2>4
  <2>6. IF m[2].kind \in Classes THEN x[1] # "object" ELSE ~Takes(m[2], x)
    BY <1>6, <2>4, <2>5 DEF RefuseMember, RefuseNested
  <2>7. Linked(Top.path)
    <3>1. InObject /\ Top = calls[Len(calls)] /\ Len(calls) \in Nat \ {0}
      BY <1>1, <1>3, <1>6, <2>1, Phase
    <3>2. Len(calls) \in Base + 1 .. Len(calls)
      BY <3>1, BaseIs DEF InObject
    <3> QED BY <3>1, <3>2, Zenon DEF InObject
  <2>8. Linked(m[1])
    <3>1. Top \in Items(S, V, K) /\ Name \in Names
      BY <2>1, AtItemType DEF AtLinked
    <3>2. Top.path \in Seq(Names) /\ LinkAt(Top.path).kind = Top.class
      BY <3>1, ItemsPlace
    <3> QED BY <2>1, <2>4, <2>7, <3>1, <3>2, LinkedNext DEF Path
  <2>9. Unreadable(v)
    BY <2>5, <2>6, <2>8 DEF Unreadable
  <2> QED BY <1>3, <1>6, <2>9 DEF ReadOps
<1>7. ASSUME Register \/ StartReading \/ SkipUnlinked \/ ReadMember \/ ReadNested \/ EndNested
             \/ ReadElement \/ EndElement \/ StartWriting \/ WriteMember \/ WriteNested
             \/ EndNestedText
      PROVE  FALSE
  BY <1>1, <1>7 DEF Register, StartReading, SkipUnlinked, ReadMember, ReadNested, EndNested,
              ReadElement, EndElement, StartWriting, WriteMember, WriteNested, EndNestedText, Go
<1>8. ASSUME UseMissing \/ FailAssertion \/ EndReading \/ EndElements \/ EndWriting
      PROVE  FALSE
  BY <1>8 DEF UseMissing, FailAssertion, EndReading, EndElements, EndWriting, Stop
<1> QED BY <1>2, <1>4, <1>5, <1>6, <1>7, <1>8 DEF Proceed

LEMMA ReasonStep == Said /\ Written /\ [Next]_vars => [HasReason]_vars
<1> SUFFICES ASSUME Said, Written, Next PROVE HasReason
  OBVIOUS
<1>1. PICK S, B, V, K, O : Standing(S, B, V, K, O) /\ Plainly
  BY DEF Said, Inv
<1>2. CASE Start
  <2>1. CASE FromMissingFile \/ ArrayFromMissingFile
    BY <2>1 DEF FromMissingFile, ArrayFromMissingFile, MissingFile, HasReason
  <2>2. CASE ~(FromMissingFile \/ ArrayFromMissingFile)
    <3>1. status' = "running"
      BY <1>2, <2>2 DEF Start, FromJsonValue, FromJsonString, ReadStream, FromJsonObject,
         ToJsonString, Call, ArrayFromJsonValue
    <3> QED BY <3>1 DEF HasReason
  <2> QED BY <2>1, <2>2
<1>3. CASE Proceed
  <2>1. op' = op /\ json' = json
    BY <1>3, ProceedIsPlain
  <2>2. V = Sources /\ V = Sources'
    BY <1>1, <2>1 DEF Standing, Sources
  <2>3. ASSUME status' = "threw"
        PROVE  \/ MapThrows
               \/ op' = "array_from_json_value" /\ json'[1] # "array"
               \/ op' # "to_json_string" /\ \E v \in Sources' : Unreadable(v)
    BY <1>1, <1>3, <2>1, <2>2, <2>3, ThrowsForReason DEF Said, Written
  <2>4. ASSUME status' = "undefined"
        PROVE  \E v \in Sources, name \in Known(Root) : Mentions(v, <<name>>) = <<>>
    BY <1>1, <1>3, <2>2, <2>4, UndefinedForReason
  <2> QED BY <2>3, <2>4 DEF HasReason
<1> QED BY <1>2, <1>3 DEF Next

\* A step that throws does so because of a map_to_json that throws in it, a file
\* that is not there, a value that is no array where one is asked for, or one
\* that is no object or gives a linked member what it refuses; to_json_string
\* only because of the first.  A call runs into end( ) only for a linked name
\* that the object does not have: for every class and every JSON.
THEOREM FailuresHaveReasons == Spec => FailureHasReason
<1>1. Said /\ Written /\ [Next]_vars => Said' /\ Written'
  BY SaidStep, WrittenStep
<1> QED BY <1>1, InitSaid, InitWritten, ReasonStep, PTL DEF Spec, FailureHasReason
=============================================================================
