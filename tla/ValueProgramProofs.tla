------------------------- MODULE ValueProgramProofs -------------------------
(***************************************************************************)
(* For every set of names and references, every type of the variable and   *)
(* all inputs: a valid reference is to the first member of its name, a     *)
(* conversion that throws leaves the variable alone, what is empty stays   *)
(* so, and json_object_value implements a map from names to values.        *)
(* Values whose texts are equal are the same, because a text can be read   *)
(* from its front in one way; what is saved comes back, escapes and all.   *)
(***************************************************************************)
EXTENDS ValueProgram, SequenceLemmas, FiniteSetTheorems

-----------------------------------------------------------------------------
\* Members as a sequence, and what find makes of them.

IsSeq(s) == s \in Seq(Range(s))

\* Member i is the first one of its name.
IsFirst(ms, n, i) ==
    i \in 1 .. Len(ms) /\ ms[i][1] = n /\ \A j \in 1 .. i - 1 : ms[j][1] # n

LEMMA SeqIsSeq ==
    ASSUME NEW S, NEW s \in Seq(S)
    PROVE  IsSeq(s) /\ Len(s) \in Nat /\ DOMAIN s = 1 .. Len(s)
<1>1. Len(s) \in Nat /\ DOMAIN s = 1 .. Len(s) /\ s \in [1 .. Len(s) -> S]
  OBVIOUS
<1>2. s \in [1 .. Len(s) -> Range(s)]
  BY <1>1 DEF Range
<1> QED
  BY <1>1, <1>2 DEF IsSeq

LEMMA SeqShape ==
    ASSUME NEW s, IsSeq(s)
    PROVE  Len(s) \in Nat /\ DOMAIN s = 1 .. Len(s)
BY DEF IsSeq

LEMMA SeqIn ==
    ASSUME NEW s, IsSeq(s), NEW S, Range(s) \subseteq S
    PROVE  s \in Seq(S) /\ s \in [1 .. Len(s) -> S]
<1> DEFINE R == Range(s)
<1>1. s \in Seq(R) /\ R \subseteq S
  BY DEF IsSeq
<1> HIDE DEF R
<1>2. Len(s) \in Nat /\ s \in [1 .. Len(s) -> R]
  BY <1>1
<1>3. s \in [1 .. Len(s) -> S]
  BY <1>1, <1>2
<1> QED BY <1>2, <1>3

\* One more member at the end.
LEMMA AppendShape ==
    ASSUME NEW s, IsSeq(s), NEW m
    PROVE  /\ IsSeq(Append(s, m)) /\ Len(Append(s, m)) = Len(s) + 1
           /\ \A i \in 1 .. Len(s) : Append(s, m)[i] = s[i]
           /\ Append(s, m)[Len(s) + 1] = m
<1> DEFINE S == Range(s) \cup {m}
<1>1. s \in Seq(S) /\ m \in S
  BY SeqIn
<1> HIDE DEF S
<1>2. /\ Append(s, m) \in Seq(S) /\ Len(Append(s, m)) = Len(s) + 1
      /\ \A i \in 1 .. Len(s) : Append(s, m)[i] = s[i]
      /\ Append(s, m)[Len(s) + 1] = m
  BY <1>1, AppendProperties
<1>3. IsSeq(Append(s, m))
  BY <1>2, SeqIsSeq
<1> QED
  BY <1>2, <1>3

\* Another value of a member.
LEMMA ExceptShape ==
    ASSUME NEW s, IsSeq(s), NEW k \in 1 .. Len(s), NEW t,
           t = [i \in 1 .. Len(s) |-> t[i]], \A i \in 1 .. Len(s) : i # k => t[i] = s[i]
    PROVE  IsSeq(t) /\ Len(t) = Len(s)
<1> DEFINE S == Range(s) \cup {t[k]}
<1>1. Len(s) \in Nat /\ s \in [1 .. Len(s) -> S] /\ t[k] \in S
  BY SeqShape, SeqIn
<1>2. t \in [1 .. Len(s) -> S]
  BY <1>1
<1>3. t \in Seq(S) /\ Len(t) = Len(s)
  BY <1>1, <1>2
<1> QED
  BY <1>1, <1>3, SeqIsSeq

LEMMA Least ==
    ASSUME NEW T, T \subseteq Nat, T # {}
    PROVE  Min(T) \in T /\ \A y \in T : Min(T) <= y
BY LeastOf DEF Min

\* find gives the first member of the name, or the end.
LEMMA FindIsFirst ==
    ASSUME NEW ms, IsSeq(ms), NEW n
    PROVE  /\ HasMember(ms, n) => IsFirst(ms, n, Find(ms, n))
           /\ ~HasMember(ms, n) => \A i \in 1 .. Len(ms) : ms[i][1] # n
<1> DEFINE is == {i \in DOMAIN ms : ms[i][1] = n}
<1>1. Len(ms) \in Nat /\ DOMAIN ms = 1 .. Len(ms)
  BY SeqShape
<1>2. CASE is = {}
  BY <1>1, <1>2 DEF HasMember, Find
<1>3. CASE is # {}
  <2>1. Find(ms, n) = Min(is)
    BY <1>3 DEF Find
  <2>2. Min(is) \in is /\ \A y \in is : Min(is) <= y
    <3>1. is \subseteq Nat
      BY <1>1
    <3> HIDE DEF is
    <3> QED BY <1>3, <3>1, Least
  <2>3. HasMember(ms, n)
    BY <1>1, <2>1, <2>2 DEF HasMember
  <2>4. IsFirst(ms, n, Min(is))
    <3> DEFINE k == Min(is)
    <3>1. k \in 1 .. Len(ms) /\ ms[k][1] = n /\ \A j \in 1 .. Len(ms) : ms[j][1] = n => k <= j
      BY <1>1, <2>2
    <3> HIDE DEF k
    <3>2. IsFirst(ms, n, k)
      BY <1>1, <3>1 DEF IsFirst
    <3> QED BY <3>2 DEF k
  <2> QED BY <2>1, <2>3, <2>4
<1> QED BY <1>2, <1>3

\* There is one first member of a name.
LEMMA FirstIsUnique ==
    ASSUME NEW ms, IsSeq(ms), NEW n, NEW i, IsFirst(ms, n, i)
    PROVE  FirstNamed(ms, n) = i
<1>1. \A j \in DOMAIN ms : ms[j][1] = n /\ (\A k \in 1 .. j - 1 : ms[k][1] # n) => j = i
  BY SeqShape DEF IsFirst
<1> QED
  BY <1>1, SeqShape DEF IsFirst, FirstNamed
-----------------------------------------------------------------------------
\* The invariant.

Scalars == {"integer", "real", "string", "boolean"}
Kinds == Scalars \cup {"narrow"}
MayHold(x) ==      \* what the variable may hold
    /\ x = [i \in DOMAIN kind |-> x[i]]
    /\ \A i \in DOMAIN kind :
          IF x[i] = Nothing THEN kind[i].in # "plain" ELSE x[i][1] \in Scalars

MembersOK == IsSeq(members) /\ \A i \in 1 .. Len(members) : Typed(members[i][2])

RefsOK ==
    /\ held = [r \in Refs |-> held[r]]
    /\ \A r \in Refs : IsLive(r) =>
          held[r].name \in Names /\ IsFirst(members, held[r].name, held[r].at)

Inv == scenario \in Scenarios /\ MayHold(target) /\ MembersOK /\ RefsOK

LEMMA KindShape ==
    ASSUME scenario \in Scenarios
    PROVE  /\ Len(kind) \in {1, 2} /\ DOMAIN kind = 1 .. Len(kind)
           /\ \A i \in DOMAIN kind : kind[i].of \in Kinds /\ kind[i].in \in {"plain", "optional", "pointer"}
BY ScenarioAssumption DEF kind, Kinds, Scalars
-----------------------------------------------------------------------------
\* Conversions.

\* One part: what throws leaves it, and what is empty stays empty.
LEMMA IntoPart ==
    ASSUME NEW part, part.of \in Kinds, part.in \in {"plain", "optional", "pointer"},
           NEW old, old = Nothing \/ old[1] \in Scalars,
           NEW v, v[1] \in Types, NEW o \in Into(part, old, v)
    PROVE  /\ o = [how |-> o.how, to |-> o.to]
           /\ o.how # "ok" => o.to = old
           /\ o.how = "ok" => IF o.to = Nothing THEN part.in # "plain" ELSE o.to[1] \in Scalars
           /\ old = Nothing /\ part.in # "plain" => o.to = Nothing
<1> USE DEF Ok, Threw, Undefined
<1>1. CASE part.in = "pointer" /\ old = Nothing
  BY <1>1 DEF Into
<1>2. CASE ~(part.in = "pointer" /\ old = Nothing) /\ part.in # "plain" /\ v = Null
  BY <1>2 DEF Into
<1>3. CASE /\ ~(part.in = "pointer" /\ old = Nothing) /\ ~(part.in # "plain" /\ v = Null)
           /\ ~Converts(part, v)
  BY <1>3 DEF Into
<1>4. CASE /\ ~(part.in # "plain" /\ v = Null)
           /\ Converts(part, v) /\ part.in = "optional" /\ old = Nothing
  BY <1>4 DEF Into
<1>5. CASE /\ ~(part.in = "pointer" /\ old = Nothing) /\ ~(part.in # "plain" /\ v = Null)
           /\ Converts(part, v) /\ ~(part.in = "optional" /\ old = Nothing)
  <2>1. o = Ok(Converted(part, v))
    BY <1>5 DEF Into
  <2>2. Converted(part, v)[1] \in Scalars
    BY <1>5 DEF Converts, Converted, GetterTakes, Kinds, Scalars
  <2>3. Nothing[1] \notin Scalars
    BY DEF Nothing, Scalars
  <2> QED
    BY <1>5, <2>1, <2>2, <2>3
<1> QED
  BY <1>1, <1>2, <1>3, <1>4, <1>5

\* What find gives is a member, whose value the getters can be asked for.
LEMMA FoundIsTyped ==
    ASSUME NEW ms, IsSeq(ms), \A i \in DOMAIN ms : ms[i][2][1] \in Types, NEW n, HasMember(ms, n)
    PROVE  ms[Find(ms, n)][2][1] \in Types
BY FindIsFirst, SeqShape DEF IsFirst

\* What every outcome o of a conversion keeps.
ReadsWell(o) ==
    /\ o.how # "ok" => o.to = target
    /\ MayHold(o.to)
    /\ \A i \in DOMAIN kind : target[i] = Nothing => o.to[i] = Nothing

LEMMA TargetStays ==
    ASSUME MayHold(target), NEW o, o.to = target
    PROVE  ReadsWell(o)
BY DEF ReadsWell

LEMMA ReadOne ==
    ASSUME scenario \in Scenarios, MayHold(target), Len(kind) = 1,
           NEW v, v[1] \in Types, NEW o \in JsonToValue(kind, target, v)
    PROVE  ReadsWell(o)
<1>1. PICK p \in Into(kind[1], target[1], v) : o = [p EXCEPT !.to = <<p.to>>]
  BY DEF JsonToValue
<1>2. DOMAIN kind = {1} /\ kind[1].of \in Kinds /\ kind[1].in \in {"plain", "optional", "pointer"}
  BY KindShape
<1>3. target[1] = Nothing \/ target[1][1] \in Scalars
  BY <1>2 DEF MayHold
<1>4. /\ p = [how |-> p.how, to |-> p.to]
      /\ p.how # "ok" => p.to = target[1]
      /\ p.how = "ok" => IF p.to = Nothing THEN kind[1].in # "plain" ELSE p.to[1] \in Scalars
      /\ target[1] = Nothing /\ kind[1].in # "plain" => p.to = Nothing
  BY <1>2, <1>3, IntoPart
<1>5. o.how = p.how /\ o.to = <<p.to>>
  BY <1>1, <1>4
<1>6. target = [i \in {1} |-> target[i]] /\ (target[1] = Nothing => kind[1].in # "plain")
  BY <1>2 DEF MayHold
<1>7. CASE p.how # "ok"
  <2>1. target = <<target[1]>>
    BY <1>6
  <2> QED BY <1>4, <1>5, <1>7, <2>1, TargetStays
<1>8. CASE p.how = "ok"
  <2>1. o.to = [i \in {1} |-> o.to[i]] /\ o.to[1] = p.to
    BY <1>5
  <2>2. MayHold(o.to)
    BY <1>2, <1>4, <1>8, <2>1 DEF MayHold
  <2> QED BY <1>2, <1>4, <1>5, <1>6, <1>8, <2>1, <2>2 DEF ReadsWell
<1> QED BY <1>7, <1>8

LEMMA ReadTwo ==
    ASSUME scenario \in Scenarios, MayHold(target), Len(kind) = 2,
           NEW v, Typed(v), NEW o \in JsonToValue(kind, target, v)
    PROVE  ReadsWell(o)
<1> DEFINE ms == v[2]
<1>1. CASE o = Threw(target)
  BY <1>1, TargetStays DEF Threw
<1>2. CASE o # Threw(target)
  <2>1. v[1] = "object" /\ o \in ReadPair(kind, target, ms)
    BY <1>2 DEF JsonToValue
  <2>2. IsSeq(ms) /\ \A i \in DOMAIN ms : ms[i][2][1] \in Types
    BY <2>1 DEF Typed, IsSeq
  <2>3. /\ DOMAIN kind = {1, 2}
        /\ \A i \in {1, 2} : kind[i].of \in Kinds /\ kind[i].in \in {"plain", "optional", "pointer"}
    BY KindShape
  <2> HIDE DEF ms
  <2>4. HasMember(ms, "key")
    BY <1>2, <2>1 DEF ReadPair
  <2>5. PICK k \in Into(kind[1], Nothing, ms[Find(ms, "key")][2]) :
           o \in IF k.how = "ok" THEN ReadValue(kind, k.to, target, ms) ELSE {[k EXCEPT !.to = target]}
    BY <1>2, <2>1 DEF ReadPair
  <2>6. /\ k = [how |-> k.how, to |-> k.to]
        /\ k.how = "ok" => IF k.to = Nothing THEN kind[1].in # "plain" ELSE k.to[1] \in Scalars
        /\ kind[1].in # "plain" => k.to = Nothing
    BY <2>2, <2>3, <2>4, FoundIsTyped, IntoPart
  <2>7. CASE k.how # "ok"
    <3>1. o.to = target
      BY <2>5, <2>6, <2>7
    <3> QED BY <3>1, TargetStays
  <2>8. CASE k.how = "ok"
    <3>1. o \in ReadValue(kind, k.to, target, ms)
      BY <2>5, <2>8
    <3>2. HasMember(ms, "value")
      BY <1>2, <3>1 DEF ReadValue
    <3>3. PICK w \in Into(kind[2], Nothing, ms[Find(ms, "value")][2]) :
             o = IF w.how = "ok" THEN Ok(<<k.to, w.to>>) ELSE [w EXCEPT !.to = target]
      BY <3>1, <3>2 DEF ReadValue
    <3>4. /\ w = [how |-> w.how, to |-> w.to]
          /\ w.how = "ok" => IF w.to = Nothing THEN kind[2].in # "plain" ELSE w.to[1] \in Scalars
          /\ kind[2].in # "plain" => w.to = Nothing
      <4> DEFINE x == ms[Find(ms, "value")][2]
      <4>1. x[1] \in Types
        BY <2>2, <3>2, FoundIsTyped
      <4>2. kind[2].of \in Kinds /\ kind[2].in \in {"plain", "optional", "pointer"}
        BY <2>3
      <4> HIDE DEF x
      <4>3. w \in Into(kind[2], Nothing, x)
        BY <3>3 DEF x
      <4> QED BY <4>1, <4>2, <4>3, IntoPart
    <3>5. CASE w.how # "ok"
      <4>1. o.to = target
        BY <3>3, <3>4, <3>5
      <4> QED BY <4>1, TargetStays
    <3>6. CASE w.how = "ok"
      <4>1. o.how = "ok" /\ o.to = <<k.to, w.to>>
        BY <3>3, <3>6 DEF Ok
      <4>2. o.to = [i \in {1, 2} |-> o.to[i]] /\ o.to[1] = k.to /\ o.to[2] = w.to
        BY <4>1
      <4>3. MayHold(o.to)
        BY <2>3, <2>6, <2>8, <3>4, <3>6, <4>2 DEF MayHold
      <4>4. \A i \in {1, 2} : target[i] = Nothing => kind[i].in # "plain"
        BY <2>3 DEF MayHold
      <4>5. \A i \in {1, 2} : kind[i].in # "plain" => o.to[i] = Nothing
        BY <2>6, <3>4, <4>2
      <4>6. \A i \in DOMAIN kind : target[i] = Nothing => o.to[i] = Nothing
        BY <2>3, <4>4, <4>5
      <4> QED BY <4>1, <4>3, <4>6 DEF ReadsWell
    <3> QED BY <3>5, <3>6
  <2> QED BY <2>7, <2>8
<1> QED BY <1>1, <1>2

LEMMA Reads ==
    ASSUME scenario \in Scenarios, MayHold(target), NEW v, Typed(v), NEW o \in JsonToValue(kind, target, v)
    PROVE  ReadsWell(o)
<1>1. v[1] \in Types /\ Len(kind) \in {1, 2}
  BY KindShape DEF Typed
<1> QED BY <1>1, ReadOne, ReadTwo
-----------------------------------------------------------------------------
\* What the program saves.

LEMMA RereadIsTyped ==
    ASSUME NEW x, x = Nothing \/ x[1] \in Scalars
    PROVE  Typed(Reread(x)) /\ Reread(x)[1] # "object"
<1>1. CASE x = Nothing
  <2>1. ~(x[1] = "string") /\ ~Whole(x)
    BY <1>1 DEF Nothing, Whole
  <2>2. Reread(x) = Null
    BY <1>1, <2>1 DEF Reread
  <2> QED BY <2>2 DEF Typed, Types, Null
<1>2. CASE x # Nothing /\ x[1] = "string"
  <2>1. Reread(x) = ReadString(Append(Escape(x[2]), "quote"))
    BY <1>2 DEF Reread, Whole
  <2>2. Reread(x)[1] \in {"null", "string"}
    BY <2>1 DEF ReadString, Null
  <2> QED BY <2>2 DEF Typed, Types
<1>3. CASE x # Nothing /\ x[1] # "string"
  <2>1. Nothing[1] = "nothing"
    BY DEF Nothing
  <2>2. Reread(x) = <<"integer", x[2][1] \div Unit>> \/ Reread(x) = x
    BY <1>3 DEF Reread
  <2>3. Reread(x)[1] \in Scalars
    BY <1>3, <2>2 DEF Scalars
  <2> QED BY <2>3 DEF Typed, Types, Scalars
<1> QED BY <1>1, <1>2, <1>3

LEMMA ListIsTyped ==
    ASSUME NEW xs
    PROVE  Typed(RereadList(xs))
BY DEF RereadList, Typed, Types, Null
-----------------------------------------------------------------------------
\* Steps.

\* A member is inserted at the end.
LEMMA AfterInserted ==
    ASSUME MembersOK, NEW n, NEW v, Typed(v), Inserted(<<n, v>>)
    PROVE  /\ MembersOK' /\ Len(members') = Len(members) + 1
           /\ \A i \in 1 .. Len(members) : members'[i] = members[i]
           /\ members'[Len(members) + 1] = <<n, v>>
           /\ \A x, i : IsFirst(members, x, i) => IsFirst(members', x, i)
<1>1. members' = Append(members, <<n, v>>) /\ IsSeq(members)
  BY DEF Inserted, MembersOK
<1>2. /\ IsSeq(members') /\ Len(members') = Len(members) + 1
      /\ \A i \in 1 .. Len(members) : members'[i] = members[i]
      /\ members'[Len(members) + 1] = <<n, v>>
  BY <1>1, AppendShape
<1>3. Len(members) \in Nat
  BY <1>1, SeqShape
<1>4. \A i \in 1 .. Len(members') : Typed(members'[i][2])
  <2> SUFFICES ASSUME NEW i \in 1 .. Len(members') PROVE Typed(members'[i][2])
    OBVIOUS
  <2>1. CASE i \in 1 .. Len(members)
    BY <1>2, <2>1 DEF MembersOK
  <2>2. CASE i = Len(members) + 1
    BY <1>2, <2>2
  <2> QED BY <1>2, <1>3, <2>1, <2>2
<1>5. \A x, i : IsFirst(members, x, i) => IsFirst(members', x, i)
  BY <1>2, <1>3 DEF IsFirst
<1> QED BY <1>2, <1>4, <1>5 DEF MembersOK

\* A value is assigned to a member.
LEMMA AfterAssigned ==
    ASSUME MembersOK, RefsOK, NEW r \in Refs, NEW v, Typed(v), Assign(r, v)
    PROVE  /\ MembersOK' /\ Len(members') = Len(members)
           /\ held[r].at \in 1 .. Len(members) /\ members'[held[r].at][2] = v
           /\ \A i \in 1 .. Len(members) :
                 members'[i][1] = members[i][1] /\ (i # held[r].at => members'[i] = members[i])
           /\ \A x, i : IsFirst(members, x, i) => IsFirst(members', x, i)
<1> DEFINE k == held[r].at
<1>1. k \in 1 .. Len(members) /\ IsSeq(members)
  BY DEF Assign, RefsOK, IsFirst, MembersOK
<1>2. members' = [members EXCEPT ![k] = <<members[k][1], v>>]
  BY DEF Assign
<1> HIDE DEF k
<1>3. /\ IsSeq(members') /\ Len(members') = Len(members) /\ members'[k] = <<members[k][1], v>>
      /\ \A i \in 1 .. Len(members) : i # k => members'[i] = members[i]
  <2>1. /\ members' = [i \in 1 .. Len(members) |-> members'[i]]
        /\ members'[k] = <<members[k][1], v>>
        /\ \A i \in 1 .. Len(members) : i # k => members'[i] = members[i]
    BY <1>1, <1>2, SeqShape
  <2> QED BY <1>1, <2>1, ExceptShape
<1>4. \A i \in 1 .. Len(members) : Typed(members'[i][2]) /\ members'[i][1] = members[i][1]
  BY <1>1, <1>3 DEF MembersOK
<1>5. \A x, i : IsFirst(members, x, i) => IsFirst(members', x, i)
  <2> SUFFICES ASSUME NEW x, NEW i, IsFirst(members, x, i) PROVE IsFirst(members', x, i)
    OBVIOUS
  <2>1. Len(members) \in Nat /\ i \in 1 .. Len(members)
    BY <1>1, SeqShape DEF IsFirst
  <2> QED BY <1>3, <1>4, <2>1 DEF IsFirst
<1> QED BY <1>1, <1>3, <1>4, <1>5 DEF MembersOK, k

LEMMA AssignKeeps ==
    ASSUME MembersOK, RefsOK, NEW r \in Refs, NEW v, Typed(v), Assign(r, v)
    PROVE  MembersOK' /\ RefsOK'
<1>1. held' = held
  BY DEF Assign
<1> QED BY <1>1, AfterAssigned DEF RefsOK, IsLive

\* The references that are left after an insertion, or a move, were there.
LEMMA MovedKeeps ==
    ASSUME RefsOK, NEW kept \in {held, Moved}
    PROVE  /\ kept = [r \in Refs |-> kept[r]]
           /\ \A r \in Refs : kept[r].is = "live" => IsLive(r) /\ kept[r] = held[r]
BY DEF RefsOK, Moved, IsLive, Stale

\* References are kept, or moved, while the first members stay what they are.
LEMMA RefsStay ==
    ASSUME RefsOK, NEW kept \in {held, Moved}, held' = kept,
           \A x, i : IsFirst(members, x, i) => IsFirst(members', x, i)
    PROVE  RefsOK'
<1>1. /\ held' = [r \in Refs |-> held'[r]]
      /\ \A r \in Refs : held'[r].is = "live" => IsLive(r) /\ held'[r] = held[r]
  BY MovedKeeps
<1> QED BY <1>1 DEF RefsOK, IsLive

LEMMA RefTaken ==
    ASSUME RefsOK, NEW kept \in {held, Moved}, NEW r \in Refs, NEW n \in Names, NEW k,
           held' = [q \in Refs |-> held'[q]], held'[r] = Live(n, k),
           \A q \in Refs \ {r} : held'[q] = kept[q], IsFirst(members', n, k),
           \A x, i : IsFirst(members, x, i) => IsFirst(members', x, i)
    PROVE  RefsOK'
<1>1. /\ kept = [q \in Refs |-> kept[q]]
      /\ \A q \in Refs : kept[q].is = "live" => IsLive(q) /\ kept[q] = held[q]
  BY MovedKeeps
<1>2. \A q \in Refs : held'[q].is = "live" =>
         held'[q].name \in Names /\ IsFirst(members', held'[q].name, held'[q].at)
  <2> SUFFICES ASSUME NEW q \in Refs, held'[q].is = "live"
               PROVE  held'[q].name \in Names /\ IsFirst(members', held'[q].name, held'[q].at)
    OBVIOUS
  <2>1. CASE q = r
    BY <2>1 DEF Live
  <2>2. CASE q # r
    BY <1>1, <2>2 DEF RefsOK
  <2> QED BY <2>1, <2>2
<1> QED BY <1>2 DEF RefsOK, IsLive

LEMMA NullIsTyped == Typed(Null)
BY DEF Typed, Types, Null

LEMMA SubscriptKeeps ==
    ASSUME MembersOK, RefsOK, NEW r \in Refs, NEW n \in Names, Subscript(r, n)
    PROVE  MembersOK' /\ RefsOK'
<1>1. CASE HasMember(members, n) /\ UNCHANGED <<members, room>>
              /\ held' = [held EXCEPT ![r] = Live(n, Find(members, n))]
  <2>1. IsFirst(members, n, Find(members, n))
    BY <1>1, FindIsFirst DEF MembersOK
  <2>2. members' = members
    BY <1>1
  <2>3. MembersOK'
    BY <2>2 DEF MembersOK
  <2>4. /\ held' = [q \in Refs |-> held'[q]] /\ held'[r] = Live(n, Find(members, n))
        /\ \A q \in Refs \ {r} : held'[q] = held[q]
    BY <1>1 DEF RefsOK
  <2>5. RefsOK'
    BY <2>1, <2>2, <2>4, RefTaken
  <2> QED BY <2>3, <2>5
<1>2. CASE ~HasMember(members, n) /\ Inserted(<<n, Null>>)
              /\ held' = [AfterInsertion EXCEPT ![r] = Live(n, Len(members) + 1)]
  <2>1. /\ MembersOK' /\ Len(members') = Len(members) + 1
        /\ \A i \in 1 .. Len(members) : members'[i] = members[i]
        /\ members'[Len(members) + 1] = <<n, Null>>
        /\ \A x, i : IsFirst(members, x, i) => IsFirst(members', x, i)
    BY <1>2, NullIsTyped, AfterInserted
  <2>2. \A i \in 1 .. Len(members) : members[i][1] # n
    BY <1>2, FindIsFirst DEF MembersOK
  <2>3. Len(members) \in Nat
    BY SeqShape DEF MembersOK
  <2>4. IsFirst(members', n, Len(members) + 1)
    BY <2>1, <2>2, <2>3 DEF IsFirst
  <2>5. AfterInsertion \in {held, Moved}
    BY DEF AfterInsertion
  <2>6. /\ held' = [q \in Refs |-> held'[q]] /\ held'[r] = Live(n, Len(members) + 1)
        /\ \A q \in Refs \ {r} : held'[q] = AfterInsertion[q]
    BY <1>2, <2>5, MovedKeeps
  <2>7. RefsOK'
    BY <2>1, <2>4, <2>5, <2>6, RefTaken
  <2> QED BY <2>1, <2>7
<1> QED BY <1>1, <1>2 DEF Subscript

LEMMA PushBackKeeps ==
    ASSUME MembersOK, RefsOK, NEW n, NEW v, Typed(v), PushBack(n, v)
    PROVE  MembersOK' /\ RefsOK'
<1>1. Inserted(<<n, v>>) /\ held' = AfterInsertion /\ AfterInsertion \in {held, Moved}
  BY DEF PushBack, AfterInsertion
<1>2. MembersOK' /\ \A x, i : IsFirst(members, x, i) => IsFirst(members', x, i)
  BY <1>1, AfterInserted
<1> QED BY <1>1, <1>2, RefsStay

LEMMA ReplaceKeeps ==
    ASSUME scenario \in Scenarios, RefsOK, NEW ms \in scenario.objects, Replace(ms)
    PROVE  MembersOK' /\ RefsOK'
<1>1. Typed(<<"object", ms>>) /\ \A i \in DOMAIN ms : Typed(ms[i][2])
  BY ScenarioAssumption DEF IsInput
<1>2. IsSeq(ms)
  BY <1>1 DEF Typed, IsSeq
<1>3. members' = ms /\ held' = Moved
  BY DEF Replace
<1>4. MembersOK'
  BY <1>1, <1>2, <1>3, SeqShape DEF MembersOK
<1>5. RefsOK'
  BY <1>3 DEF RefsOK, Moved, IsLive, Stale
<1> QED BY <1>4, <1>5

LEMMA ChangeKeeps ==
    ASSUME scenario \in Scenarios, MembersOK, RefsOK, Change
    PROVE  MembersOK' /\ RefsOK'
<1>1. \A v \in scenario.inputs : Typed(v)
  BY ScenarioAssumption DEF IsInput
<1>2. ASSUME NEW r \in Refs, NEW n \in Names, Subscript(r, n)
      PROVE  MembersOK' /\ RefsOK'
  BY <1>2, SubscriptKeeps
<1>3. ASSUME NEW n \in Names, NEW v \in scenario.inputs, PushBack(n, v)
      PROVE  MembersOK' /\ RefsOK'
  BY <1>1, <1>3, PushBackKeeps
<1>4. CASE ShrinkToFit
  <2>1. members' = members /\ held' = Moved
    BY <1>4 DEF ShrinkToFit
  <2>2. MembersOK'
    BY <2>1 DEF MembersOK
  <2> QED BY <2>1, <2>2, RefsStay
<1>5. ASSUME NEW r \in Refs, NEW v \in scenario.inputs, Assign(r, v)
      PROVE  MembersOK' /\ RefsOK'
  BY <1>1, <1>5, AssignKeeps
<1>6. ASSUME NEW r \in Refs, NEW q \in Refs, Copy(r, q)
      PROVE  MembersOK' /\ RefsOK'
  <2>1. IsLive(q) /\ Assign(r, ValueOf(q))
    BY <1>6 DEF Copy
  <2>2. Typed(ValueOf(q))
    BY <2>1 DEF RefsOK, MembersOK, IsFirst, ValueOf
  <2> QED BY <2>1, <2>2, AssignKeeps
<1>7. ASSUME NEW r \in Refs, UseStale(r)
      PROVE  MembersOK' /\ RefsOK'
  <2>1. members' = members /\ held' = held
    BY <1>7 DEF UseStale, object
  <2> QED BY <2>1 DEF MembersOK, RefsOK, IsLive
<1>8. ASSUME NEW ms \in scenario.objects, Replace(ms)
      PROVE  MembersOK' /\ RefsOK'
  BY <1>8, ReplaceKeeps
<1> QED BY <1>2, <1>3, <1>4, <1>5, <1>6, <1>7, <1>8 DEF Change

\* What every step does to the variable.
TargetStep ==
    /\ MayHold(target)'
    /\ outcome' = "threw" => target' = target
    /\ \A i \in DOMAIN kind : target[i] = Nothing => target'[i] = Nothing

LEMMA TargetIsLeft ==
    ASSUME Inv, UNCHANGED <<scenario, target>>
    PROVE  TargetStep
BY DEF Inv, TargetStep, MayHold, kind

LEMMA ConvertKeeps ==
    ASSUME Inv, UNCHANGED scenario, NEW v, Typed(v), Convert(v)
    PROVE  UNCHANGED object /\ TargetStep
<1>1. PICK o \in JsonToValue(kind, target, v) : target' = o.to /\ outcome' = o.how
  BY DEF Convert
<1>2. ReadsWell(o)
  BY Reads DEF Inv
<1>3. MayHold(target)'
  BY <1>1, <1>2 DEF ReadsWell, MayHold, kind
<1> QED
  BY <1>1, <1>2, <1>3 DEF ReadsWell, TargetStep, Convert

LEMMA NextKeeps ==
    ASSUME Inv, Next
    PROVE  MembersOK' /\ RefsOK' /\ UNCHANGED scenario /\ TargetStep
<1> USE DEF Inv
<1>1. UNCHANGED scenario
  BY DEF Next
<1>2. ASSUME UNCHANGED object PROVE MembersOK' /\ RefsOK'
  BY <1>2 DEF object, MembersOK, RefsOK, IsLive
<1>3. \A r \in Refs : IsLive(r) => Typed(ValueOf(r))
  BY DEF RefsOK, MembersOK, IsFirst, ValueOf
<1>4. CASE Change /\ UNCHANGED target
  BY <1>1, <1>4, ChangeKeeps, TargetIsLeft
<1>5. ASSUME NEW r \in Refs, ConvertHeld(r)
      PROVE  MembersOK' /\ RefsOK' /\ TargetStep
  BY <1>1, <1>2, <1>3, <1>5, ConvertKeeps DEF ConvertHeld
<1>6. ASSUME NEW n \in Names, ConvertMember(n)
      PROVE  MembersOK' /\ RefsOK' /\ TargetStep
  <2>1. CASE HasMember(members, n) /\ Convert(members[Find(members, n)][2])
    <3>1. Typed(members[Find(members, n)][2])
      BY <2>1, FindIsFirst DEF MembersOK, IsFirst
    <3> QED BY <1>1, <1>2, <2>1, <3>1, ConvertKeeps
  <2>2. CASE UNCHANGED <<object, target>>
    BY <1>1, <1>2, <2>2, TargetIsLeft
  <2> QED BY <1>6, <2>1, <2>2 DEF ConvertMember
<1>7. CASE ConvertObject
  <2>1. Typed(<<"object", members>>)
    BY SeqShape DEF MembersOK, IsSeq, Typed, Types
  <2> QED BY <1>1, <1>2, <1>7, <2>1, ConvertKeeps DEF ConvertObject
<1>8. ASSUME NEW r \in Refs, Save(r)
      PROVE  MembersOK' /\ RefsOK' /\ TargetStep
  <2>1. target[1] = Nothing \/ target[1][1] \in Scalars
    BY <1>8, KindShape DEF Save, Writable, MayHold
  <2>2. Typed(Reread(target[1])) /\ Assign(r, Reread(target[1])) /\ UNCHANGED target
    BY <1>8, <2>1, RereadIsTyped DEF Save
  <2> QED BY <1>1, <2>2, AssignKeeps, TargetIsLeft
<1>9. ASSUME NEW r \in Refs, NEW n \in 0 .. MaxList, SaveList(r, n)
      PROVE  MembersOK' /\ RefsOK' /\ TargetStep
  <2> DEFINE list == RereadList([i \in 1 .. n |-> AsElement(kind[1], target[1])])
  <2>1. Typed(list) /\ Assign(r, list) /\ UNCHANGED target
    BY <1>9, ListIsTyped DEF SaveList
  <2> HIDE DEF list
  <2> QED BY <1>1, <2>1, AssignKeeps, TargetIsLeft
<1>10. CASE WriteNull
  BY <1>1, <1>2, <1>10, TargetIsLeft DEF WriteNull
<1> QED
  BY <1>1, <1>4, <1>5, <1>6, <1>7, <1>8, <1>9, <1>10 DEF Next

LEMMA InvIsKept == Inv /\ [Next]_vars => Inv'
<1> SUFFICES ASSUME Inv, [Next]_vars PROVE Inv'
  OBVIOUS
<1>1. CASE Next
  BY <1>1, NextKeeps DEF Inv, TargetStep
<1>2. CASE UNCHANGED vars
  BY <1>2 DEF vars, Inv, MayHold, MembersOK, RefsOK, IsLive, kind
<1> QED BY <1>1, <1>2

LEMMA InvAtFirst == Init => Inv
<1> SUFFICES ASSUME Init PROVE Inv
  OBVIOUS
<1>1. scenario \in Scenarios
  BY DEF Init
<1>2. MayHold(target)
  <2>1. /\ target \in [DOMAIN kind -> {Nothing} \cup {Zero(kind[i].of) : i \in DOMAIN kind}]
        /\ \A i \in DOMAIN target :
              target[i] = Zero(kind[i].of) \/ (kind[i].in # "plain" /\ target[i] = Nothing)
    BY DEF Init, kind
  <2>2. \A of : Zero(of)[1] \in Scalars
    BY DEF Zero, Scalars
  <2>3. Nothing[1] \notin Scalars
    BY DEF Nothing, Scalars
  <2> QED BY <2>1, <2>2, <2>3 DEF MayHold
<1>3. MembersOK
  <2>1. members = <<>> /\ IsSeq(<<>>)
    BY DEF Init, ObjectInit, IsSeq
  <2> QED BY <2>1 DEF MembersOK
<1>4. RefsOK
  BY DEF Init, ObjectInit, RefsOK, IsLive, Unbound
<1> QED BY <1>1, <1>2, <1>3, <1>4 DEF Inv
-----------------------------------------------------------------------------
THEOREM InvHolds == Spec => []Inv
BY InvAtFirst, InvIsKept, PTL DEF Spec

\* HeldIsFound: a reference that is still valid is to the first member of
\* the name it was taken for, whatever was inserted or moved meanwhile.
THEOREM HeldStaysFound == Spec => []HeldIsFound
<1>1. Inv => HeldIsFound
  BY FirstIsUnique DEF Inv, RefsOK, MembersOK, HeldIsFound, IsFirst
<1> QED BY <1>1, InvHolds, PTL

\* FailureKeepsTarget: a conversion that throws leaves the variable alone.
THEOREM FailureKeeps == Spec => FailureKeepsTarget
<1>1. Inv /\ [Next]_vars => [outcome' = "threw" => target' = target]_vars
  BY NextKeeps DEF TargetStep
<1> QED BY <1>1, InvHolds, PTL DEF Spec, FailureKeepsTarget

\* EmptyIsNeverFilled: no conversion puts anything into an empty optional or
\* shared_ptr.
THEOREM EmptyStays == Spec => EmptyIsNeverFilled
<1>1. Inv /\ [Next]_vars =>
        [\A i \in DOMAIN kind : target[i] = Nothing => target'[i] = Nothing]_vars
  BY NextKeeps DEF TargetStep
<1> QED BY <1>1, InvHolds, PTL DEF Spec, EmptyIsNeverFilled
-----------------------------------------------------------------------------
\* The object as a map from names to values.

ValueIn(ms, n) ==
    IF \E i \in DOMAIN ms : ms[i][1] = n THEN ms[FirstNamed(ms, n)][2] ELSE Absent
Map(ms) == [n \in Names |-> ValueIn(ms, n)]
NamesIn(h) == [r \in Refs |-> IF h[r].is = "live" THEN h[r].name ELSE Lost]

LEMMA AsMap == /\ ValueOfName = Map(members) /\ ValueOfName' = Map(members')
               /\ NameOfRef = NamesIn(held) /\ NameOfRef' = NamesIn(held')
BY DEF ValueOfName, Map, ValueIn, NameOfRef, NamesIn

LEMMA FirstOrNone ==
    ASSUME NEW ms, IsSeq(ms), NEW n
    PROVE  (\E i : IsFirst(ms, n, i)) \/ \A i \in 1 .. Len(ms) : ms[i][1] # n
BY FindIsFirst

LEMMA ValueOfFirst ==
    ASSUME NEW ms, IsSeq(ms), NEW n, NEW i, IsFirst(ms, n, i)
    PROVE  ValueIn(ms, n) = ms[i][2]
BY FirstIsUnique, SeqShape DEF ValueIn, IsFirst

LEMMA ValueOfNone ==
    ASSUME NEW ms, IsSeq(ms), NEW n, \A i \in 1 .. Len(ms) : ms[i][1] # n
    PROVE  ValueIn(ms, n) = Absent
BY SeqShape DEF ValueIn

\* No value that is assigned or read is Absent.
LEMMA TypedIsPresent ==
    ASSUME NEW v, Typed(v)
    PROVE  v # Absent
BY DEF Typed, Types, Absent

LEMMA FirstIsPresent ==
    ASSUME MembersOK, NEW n, NEW i, IsFirst(members, n, i)
    PROVE  ValueIn(members, n) = members[i][2] /\ ValueIn(members, n) # Absent
<1>1. ValueIn(members, n) = members[i][2]
  BY ValueOfFirst DEF MembersOK
<1>2. Typed(members[i][2])
  BY DEF MembersOK, IsFirst
<1> QED BY <1>1, <1>2, TypedIsPresent

\* An inserted member enters its name, unless there is one of its name.
LEMMA InsertedInMap ==
    ASSUME MembersOK, NEW n, NEW v, Typed(v), Inserted(<<n, v>>)
    PROVE  /\ \A x : x # n => ValueIn(members', x) = ValueIn(members, x)
           /\ ValueIn(members, n) = Absent => ValueIn(members', n) = v
           /\ ValueIn(members, n) # Absent => ValueIn(members', n) = ValueIn(members, n)
<1>1. /\ IsSeq(members') /\ Len(members') = Len(members) + 1
      /\ \A i \in 1 .. Len(members) : members'[i] = members[i]
      /\ members'[Len(members) + 1] = <<n, v>>
      /\ \A x, i : IsFirst(members, x, i) => IsFirst(members', x, i)
  BY AfterInserted DEF MembersOK
<1>2. IsSeq(members) /\ Len(members) \in Nat
  BY SeqShape DEF MembersOK
<1>3. ASSUME NEW x, NEW i, IsFirst(members, x, i)
      PROVE  ValueIn(members', x) = ValueIn(members, x) /\ ValueIn(members, x) # Absent
  <2>1. IsFirst(members', x, i) /\ i \in 1 .. Len(members)
    BY <1>1, <1>3 DEF IsFirst
  <2>2. ValueIn(members', x) = members'[i][2]
    BY <1>1, <2>1, ValueOfFirst
  <2> QED BY <1>1, <1>3, <2>1, <2>2, FirstIsPresent
<1>4. ASSUME NEW x, \A i \in 1 .. Len(members) : members[i][1] # x
      PROVE  /\ ValueIn(members, x) = Absent
             /\ x # n => ValueIn(members', x) = Absent
             /\ x = n => ValueIn(members', x) = v
  <2>1. ValueIn(members, x) = Absent
    BY <1>2, <1>4, ValueOfNone
  <2>2. CASE x # n
    <3>1. \A i \in 1 .. Len(members') : members'[i][1] # x
      BY <1>1, <1>2, <1>4, <2>2
    <3> QED BY <1>1, <2>1, <2>2, <3>1, ValueOfNone
  <2>3. CASE x = n
    <3>1. IsFirst(members', x, Len(members) + 1)
      BY <1>1, <1>2, <1>4, <2>3 DEF IsFirst
    <3>2. ValueIn(members', x) = members'[Len(members) + 1][2]
      BY <1>1, <3>1, ValueOfFirst
    <3> QED BY <1>1, <2>1, <2>3, <3>2
  <2> QED BY <2>1, <2>2, <2>3
<1> QED BY <1>2, <1>3, <1>4, FirstOrNone

\* An assignment through a reference changes the value of its name.
LEMMA AssignedInMap ==
    ASSUME MembersOK, RefsOK, NEW r \in Refs, NEW v, Typed(v), Assign(r, v)
    PROVE  /\ ValueIn(members', held[r].name) = v
           /\ \A x : x # held[r].name => ValueIn(members', x) = ValueIn(members, x)
<1>1. /\ MembersOK' /\ Len(members') = Len(members)
      /\ members'[held[r].at][2] = v
      /\ \A i \in 1 .. Len(members) :
            members'[i][1] = members[i][1] /\ (i # held[r].at => members'[i] = members[i])
      /\ \A x, i : IsFirst(members, x, i) => IsFirst(members', x, i)
  BY AfterAssigned
<1>2. IsSeq(members) /\ IsSeq(members')
  BY <1>1 DEF MembersOK
<1>3. IsFirst(members, held[r].name, held[r].at)
  BY DEF Assign, RefsOK
<1>4. ValueIn(members', held[r].name) = v
  <2>1. IsFirst(members', held[r].name, held[r].at)
    BY <1>1, <1>3
  <2> QED BY <1>1, <1>2, <2>1, ValueOfFirst
<1>5. ASSUME NEW x, x # held[r].name, NEW i, IsFirst(members, x, i)
      PROVE  ValueIn(members', x) = ValueIn(members, x)
  <2>1. i \in 1 .. Len(members) /\ i # held[r].at /\ IsFirst(members', x, i)
    BY <1>1, <1>3, <1>5 DEF IsFirst
  <2>2. ValueIn(members', x) = members'[i][2] /\ ValueIn(members, x) = members[i][2]
    BY <1>2, <1>5, <2>1, ValueOfFirst
  <2> QED BY <1>1, <2>1, <2>2
<1>6. ASSUME NEW x, \A i \in 1 .. Len(members) : members[i][1] # x
      PROVE  ValueIn(members', x) = ValueIn(members, x)
  <2>1. \A i \in 1 .. Len(members') : members'[i][1] # x
    BY <1>1, <1>6
  <2> QED BY <1>2, <1>6, <2>1, ValueOfNone
<1> QED BY <1>2, <1>4, <1>5, <1>6, FirstOrNone

LEMMA KeptInMap ==
    ASSUME RefsOK, NEW kept \in {held, Moved}
    PROVE  NM!Kept(NamesIn(held), NamesIn(kept))
BY MovedKeeps DEF NM!Kept, NamesIn, IsLive

\* A step of the program, as the map sees it.
MapStep == [NM!Next]_<<ValueOfName, NameOfRef>>

LEMMA Shapes == /\ ValueOfName = [n \in Names |-> ValueIn(members, n)]
                /\ ValueOfName' = [n \in Names |-> ValueIn(members', n)]
BY AsMap DEF Map

LEMMA SubscriptInMap ==
    ASSUME MembersOK, RefsOK, NEW r \in Refs, NEW n \in Names, Subscript(r, n)
    PROVE  NM!Take(r, n)
<1>1. CASE HasMember(members, n) /\ UNCHANGED <<members, room>>
              /\ held' = [held EXCEPT ![r] = Live(n, Find(members, n))]
  <2>1. ValueIn(members, n) # Absent
    BY <1>1, FindIsFirst, FirstIsPresent DEF MembersOK
  <2>2. ValueOfName[n] # Absent /\ UNCHANGED ValueOfName
    BY <1>1, <2>1, Shapes
  <2>3. NamesIn(held') = [NamesIn(held) EXCEPT ![r] = n]
    BY <1>1 DEF NamesIn, Live, RefsOK
  <2> QED BY <2>2, <2>3, AsMap DEF NM!Take
<1>2. CASE ~HasMember(members, n) /\ Inserted(<<n, Null>>)
              /\ held' = [AfterInsertion EXCEPT ![r] = Live(n, Len(members) + 1)]
  <2>1. ValueIn(members, n) = Absent
    BY <1>2, FindIsFirst, ValueOfNone DEF MembersOK
  <2>2. /\ ValueIn(members', n) = Null
        /\ \A x : x # n => ValueIn(members', x) = ValueIn(members, x)
    BY <1>2, <2>1, NullIsTyped, InsertedInMap
  <2>3. ValueOfName[n] = Absent /\ NM!Changes(n, Null)
    BY <2>1, <2>2, Shapes DEF NM!Changes
  <2>4. PICK kept \in {held, Moved} : kept = AfterInsertion
    BY DEF AfterInsertion
  <2>5. /\ DOMAIN NamesIn(kept) = Refs
        /\ \A q \in Refs : NamesIn(kept)[q] \in {NamesIn(held)[q], Lost}
    BY KeptInMap DEF NM!Kept
  <2>6. /\ DOMAIN NamesIn(held') = Refs /\ NamesIn(held')[r] = n
        /\ \A q \in Refs \ {r} : NamesIn(held')[q] = NamesIn(kept)[q]
    <3>1. /\ held' = [q \in Refs |-> held'[q]] /\ held'[r] = Live(n, Len(members) + 1)
          /\ \A q \in Refs \ {r} : held'[q] = kept[q]
      BY <1>2, <2>4, MovedKeeps
    <3> QED BY <3>1 DEF NamesIn, Live
  <2>7. NM!Kept([NamesIn(held) EXCEPT ![r] = n], NamesIn(held'))
    BY <2>5, <2>6 DEF NM!Kept, NamesIn
  <2> QED BY <2>3, <2>6, <2>7, AsMap DEF NM!Take
<1> QED BY <1>1, <1>2 DEF Subscript

LEMMA PushBackInMap ==
    ASSUME MembersOK, RefsOK, NEW n \in Names, NEW v, Typed(v), PushBack(n, v)
    PROVE  NM!Offer(n)
<1>1. Inserted(<<n, v>>) /\ (held' = held \/ held' = Moved)
  BY DEF PushBack, AfterInsertion
<1>2. NM!Kept(NamesIn(held), NamesIn(held'))
  BY <1>1, KeptInMap
<1>3. /\ \A x : x # n => ValueIn(members', x) = ValueIn(members, x)
      /\ ValueIn(members, n) = Absent => ValueIn(members', n) = v
      /\ ValueIn(members, n) # Absent => ValueIn(members', n) = ValueIn(members, n)
  BY <1>1, InsertedInMap
<1>4. CASE ValueIn(members, n) = Absent
  <2>1. ValueOfName[n] = Absent /\ ValueOfName'[n] = v /\ v # Absent
    BY <1>3, <1>4, Shapes, TypedIsPresent
  <2>2. ValueOfName' = [ValueOfName EXCEPT ![n] = v]
    BY <1>3, <1>4, Shapes
  <2> QED BY <1>2, <2>1, <2>2, AsMap DEF NM!Offer, NM!Changes
<1>5. CASE ValueIn(members, n) # Absent
  <2>1. ValueOfName[n] # Absent /\ UNCHANGED ValueOfName
    BY <1>3, <1>5, Shapes
  <2> QED BY <1>2, <2>1, AsMap DEF NM!Offer
<1> QED BY <1>4, <1>5

LEMMA AssignInMap ==
    ASSUME MembersOK, RefsOK, NEW r \in Refs, NEW v, Typed(v), Assign(r, v)
    PROVE  NM!Write(r)
<1> DEFINE n == held[r].name
<1>1. n \in Names /\ NameOfRef[r] = n /\ n # Lost
  BY NameAssumption DEF Assign, RefsOK, NameOfRef, IsLive, Lost
<1>2. UNCHANGED NameOfRef
  BY AsMap DEF Assign
<1>3. /\ ValueIn(members', n) = v
      /\ \A x : x # n => ValueIn(members', x) = ValueIn(members, x)
  BY AssignedInMap
<1> HIDE DEF n
<1>4. ValueOfName'[n] = v /\ v # Absent
  BY <1>1, <1>3, Shapes, TypedIsPresent
<1>5. ValueOfName' = [ValueOfName EXCEPT ![n] = v]
  BY <1>1, <1>3, Shapes
<1> QED BY <1>1, <1>2, <1>4, <1>5 DEF NM!Write, NM!Changes

LEMMA ReplaceInMap ==
    ASSUME NEW ms, Replace(ms)
    PROVE  NM!Replace
<1>1. held' = Moved
  BY DEF Replace
<1>2. NamesIn(held') = [r \in Refs |-> Lost]
  BY <1>1 DEF NamesIn, Moved, IsLive, Stale
<1>3. DOMAIN ValueOfName' = Names
  BY Shapes
<1> QED BY <1>2, <1>3, AsMap DEF NM!Replace

LEMMA ObjectKept ==
    ASSUME UNCHANGED object
    PROVE  MapStep
BY AsMap DEF object, MapStep

LEMMA ChangeInMap ==
    ASSUME Inv, Change
    PROVE  MapStep
<1> USE DEF Inv
<1>1. \A v \in scenario.inputs : Typed(v)
  BY ScenarioAssumption DEF IsInput
<1>2. ASSUME NEW r \in Refs, NEW n \in Names, Subscript(r, n)
      PROVE  NM!Next
  BY <1>2, SubscriptInMap DEF NM!Next
<1>3. ASSUME NEW n \in Names, NEW v \in scenario.inputs, PushBack(n, v)
      PROVE  NM!Next
  BY <1>1, <1>3, PushBackInMap DEF NM!Next
<1>4. CASE ShrinkToFit
  <2>1. members' = members /\ held' = Moved
    BY <1>4 DEF ShrinkToFit
  <2>2. NM!Kept(NamesIn(held), NamesIn(held')) /\ UNCHANGED ValueOfName
    BY <2>1, KeptInMap, AsMap
  <2> QED BY <2>2, AsMap DEF NM!Move, NM!Next, MapStep
<1>5. ASSUME NEW r \in Refs, NEW v \in scenario.inputs, Assign(r, v)
      PROVE  NM!Next
  BY <1>1, <1>5, AssignInMap DEF NM!Next
<1>6. ASSUME NEW r \in Refs, NEW q \in Refs, Copy(r, q)
      PROVE  NM!Next
  <2>1. IsLive(q) /\ Assign(r, ValueOf(q))
    BY <1>6 DEF Copy
  <2>2. Typed(ValueOf(q))
    BY <2>1 DEF RefsOK, MembersOK, IsFirst, ValueOf
  <2> QED BY <2>1, <2>2, AssignInMap DEF NM!Next
<1>7. ASSUME NEW r \in Refs, UseStale(r)
      PROVE  MapStep
  BY <1>7, ObjectKept DEF UseStale
<1>8. ASSUME NEW ms \in scenario.objects, Replace(ms)
      PROVE  NM!Next
  BY <1>8, ReplaceInMap DEF NM!Next
<1> QED
  BY <1>2, <1>3, <1>4, <1>5, <1>6, <1>7, <1>8 DEF Change, MapStep

LEMMA NextInMap ==
    ASSUME Inv, Next
    PROVE  MapStep
<1> USE DEF Inv
<1>1. CASE Change
  BY <1>1, ChangeInMap
<1>2. ASSUME NEW v, Convert(v)
      PROVE  MapStep
  BY <1>2, ObjectKept DEF Convert
<1>3. ASSUME NEW r \in Refs, Save(r)
      PROVE  MapStep
  <2>1. target[1] = Nothing \/ target[1][1] \in Scalars
    BY <1>3, KindShape DEF Save, Writable, MayHold
  <2>2. Typed(Reread(target[1])) /\ Assign(r, Reread(target[1]))
    BY <1>3, <2>1, RereadIsTyped DEF Save
  <2>3. NM!Write(r)
    BY <2>2, AssignInMap
  <2> QED BY <2>3 DEF NM!Next, MapStep
<1>4. ASSUME NEW r \in Refs, NEW n \in 0 .. MaxList, SaveList(r, n)
      PROVE  MapStep
  <2> DEFINE list == RereadList([i \in 1 .. n |-> AsElement(kind[1], target[1])])
  <2>1. Typed(list) /\ Assign(r, list)
    BY <1>4, ListIsTyped DEF SaveList
  <2> HIDE DEF list
  <2>2. NM!Write(r)
    BY <2>1, AssignInMap
  <2> QED BY <2>2 DEF NM!Next, MapStep
<1>5. CASE WriteNull
  BY <1>5, ObjectKept DEF WriteNull
<1>6. ASSUME NEW n \in Names, ConvertMember(n)
      PROVE  MapStep
  BY <1>2, <1>6, ObjectKept DEF ConvertMember, object
<1> QED
  BY <1>1, <1>2, <1>3, <1>4, <1>5, <1>6 DEF Next, ConvertHeld, ConvertObject

\* IsNameMap: json_object_value is a map from names to values, in which the
\* first value of a name is the one that counts, however it was entered, and
\* is changed by nothing but an assignment through a reference to that name.
THEOREM ImplementsNameMap == Spec => IsNameMap
<1>1. Init => NM!Init
  <2> SUFFICES ASSUME Init PROVE NM!Init
    OBVIOUS
  <2>1. members = <<>> /\ held = [r \in Refs |-> Unbound]
    BY DEF Init, ObjectInit
  <2>2. IsSeq(<<>>) /\ \A n : \A i \in 1 .. Len(<<>>) : <<>>[i][1] # n
    BY DEF IsSeq
  <2>3. \A n : ValueIn(<<>>, n) = Absent
    BY <2>2, ValueOfNone
  <2>4. ValueOfName = [n \in Names |-> Absent]
    BY <2>1, <2>3, Shapes
  <2>5. NameOfRef = [r \in Refs |-> Lost]
    BY <2>1 DEF NameOfRef, Unbound
  <2> QED BY <2>4, <2>5 DEF NM!Init
<1>2. Inv /\ [Next]_vars => [NM!Next]_NM!vars
  <2> SUFFICES ASSUME Inv, [Next]_vars PROVE [NM!Next]_NM!vars
    OBVIOUS
  <2>1. CASE Next
    BY <2>1, NextInMap DEF MapStep, NM!vars
  <2>2. CASE UNCHANGED vars
    <3>1. UNCHANGED object
      BY <2>2 DEF vars, object
    <3> QED BY <3>1, ObjectKept DEF MapStep, NM!vars
  <2> QED BY <2>1, <2>2
<1> QED
  BY <1>1, <1>2, InvHolds, PTL DEF Spec, IsNameMap, NM!Spec
-----------------------------------------------------------------------------
\* The limits of an integer type, cast to integer_t.

LEMMA Remainder ==
    ASSUME NEW m \in Nat \ {0}, NEW n \in 0 .. m - 1, NEW k \in {0, 1}
    PROVE  (n + k * m) % m = n
OBVIOUS

\* What integer_t holds is what it was; the rest of an unsigned type of the
\* same width turns negative.
LEMMA WrapIs ==
    ASSUME NEW n \in -Half .. 2 * Half - 1
    PROVE  Wrap(n) = IF n < Half THEN n ELSE n - 2 * Half
<1>1. Half \in Nat \ {0} /\ 2 * Half \in Nat \ {0} /\ n \in Int
  BY NumberAssumption
<1>2. CASE n < Half
  <2>1. n + Half \in 0 .. 2 * Half - 1 /\ n + Half + 0 * (2 * Half) = n + Half
    BY <1>1, <1>2
  <2>2. (n + Half) % (2 * Half) = n + Half
    BY <1>1, <2>1, Remainder
  <2> QED BY <1>1, <1>2, <2>2 DEF Wrap
<1>3. CASE ~(n < Half)
  <2> DEFINE r == n - Half
  <2>1. r \in 0 .. 2 * Half - 1 /\ r + 1 * (2 * Half) = n + Half
    BY <1>1, <1>3
  <2> HIDE DEF r
  <2>2. (n + Half) % (2 * Half) = r
    BY <1>1, <2>1, Remainder
  <2> QED BY <1>1, <1>3, <2>2 DEF Wrap, r
<1> QED BY <1>2, <1>3

\* What passes the tests is within the limits, and the other way round when
\* integer_t can hold them.
LEMMA FitsIsExact ==
    ASSUME NEW part, HasLimits(part), NEW n \in -Half .. Half - 1
    PROVE  /\ Fits(part, n) => n \in part.lo .. part.hi
           /\ n \in part.lo .. part.hi /\ part.hi < Half => Fits(part, n)
<1>1. Half \in Nat \ {0} /\ n \in Int /\ part.lo \in -Half .. 0 /\ part.hi \in 1 .. 2 * Half - 1
  BY NumberAssumption DEF HasLimits
<1>2. Wrap(part.lo) = part.lo
  BY <1>1, WrapIs
<1>3. Wrap(part.hi) = IF part.hi < Half THEN part.hi ELSE part.hi - 2 * Half
  BY <1>1, WrapIs
<1> QED BY <1>1, <1>2, <1>3 DEF Fits
-----------------------------------------------------------------------------
\* What a conversion puts into a part of the variable, and what it refuses.

\* What a getter can be asked for, and json_to_value.
Given(v) == v[1] \in Types /\ (v[1] # "object" => IsValue(v) /\ Paired(v))
Readable(v) ==
    /\ Given(v)
    /\ v[1] = "object" => IsSeq(v[2]) /\ \A i \in 1 .. Len(v[2]) : Given(v[2][i][2])

PartOK(part, x) ==
    \/ x = Nothing /\ part.in # "plain"
    \/ /\ IsScalar(x) /\ Paired(x) /\ x[1] = Zero(part.of)[1]
       /\ part.of = "narrow" => x[2] \in part.lo .. part.hi

LEMMA ZeroType ==
    ASSUME NEW of \in Kinds
    PROVE  Zero(of)[1] = IF of = "narrow" THEN "integer" ELSE of
BY DEF Zero, Kinds, Scalars

\* An integer is a number of units within the range of reals.
LEMMA UnitsOf ==
    ASSUME NEW n \in -Half .. Half - 1
    PROVE  Unit * n \in -(Half * Unit) .. Half * Unit - 1
<1>1. Half \in Nat \ {0} /\ Unit \in Nat \ {0} /\ n \in Int
  BY NumberAssumption
<1>2. PICK a \in Nat : a = n + Half
  BY <1>1
<1>3. PICK b \in Nat : b = Half - 1 - n
  BY <1>1
<1>4. Unit * a \in Nat /\ Unit * b \in Nat /\ Unit * n \in Int /\ Half * Unit \in Int
  BY <1>1
<1>5. Unit * a = Unit * n + Half * Unit /\ Unit * b = Half * Unit - Unit - Unit * n
  BY <1>1, <1>2, <1>3
<1> QED BY <1>1, <1>4, <1>5

LEMMA IntoGives ==
    ASSUME NEW part, part.of \in Kinds, part.in \in {"plain", "optional", "pointer"},
           part.of = "narrow" => HasLimits(part),
           NEW old, NEW v, Given(v), NEW o \in Into(part, old, v)
    PROVE  /\ o.how \in {"ok", "threw", "undefined"}
           /\ o.how = "ok" => PartOK(part, o.to)
           /\ o.how = "ok" => \/ Says(part, o.to, v)
                              \/ part.in = "optional" /\ old = Nothing /\ o.to = Nothing
           /\ o.how = "threw" => MayRefuse(part, old, v)
<1> USE DEF Ok, Threw, Undefined
<1>1. CASE part.in = "pointer" /\ old = Nothing
  BY <1>1 DEF Into, MayRefuse
<1>2. CASE ~(part.in = "pointer" /\ old = Nothing) /\ part.in # "plain" /\ v = Null
  <2>1. o = Ok(Nothing)
    BY <1>2 DEF Into
  <2>2. v[1] = "null" /\ part.in # "plain"
    BY <1>2 DEF Null
  <2>3. PartOK(part, Nothing) /\ Says(part, Nothing, v)
    BY <2>2 DEF PartOK, Says
  <2> QED BY <2>1, <2>3
<1>3. CASE /\ ~(part.in = "pointer" /\ old = Nothing) /\ ~(part.in # "plain" /\ v = Null)
           /\ ~Converts(part, v)
  <2>1. o = Threw(old)
    BY <1>3 DEF Into
  <2>2. MayRefuse(part, old, v)
    <3>1. CASE part.of = "narrow"
      <4>1. v[1] = "integer" => v[2] \in -Half .. Half - 1
        BY DEF Given, IsValue, IsScalar
      <4> QED BY <1>3, <3>1, <4>1, FitsIsExact, NumberAssumption DEF Converts, MayRefuse, HasLimits
    <3>2. CASE part.of = "real"
      BY <1>3, <3>2 DEF Converts, MayRefuse, GetterTakes
    <3>3. CASE part.of \notin {"narrow", "real"}
      <4>1. v[1] = part.of => v[1] = "string" /\ v[2] = <<>>
        BY <1>3, <3>3 DEF Converts, GetterTakes
      <4>2. v[1] = "string" => v = <<v[1], v[2]>>
        BY DEF Given, Paired
      <4> QED BY <1>3, <3>3, <4>1, <4>2 DEF MayRefuse
    <3> QED BY <3>1, <3>2, <3>3
  <2> QED BY <2>1, <2>2
<1>4. CASE /\ ~(part.in # "plain" /\ v = Null)
           /\ Converts(part, v) /\ part.in = "optional" /\ old = Nothing
  BY <1>4 DEF Into, PartOK
<1>5. CASE /\ ~(part.in = "pointer" /\ old = Nothing) /\ ~(part.in # "plain" /\ v = Null)
           /\ Converts(part, v) /\ ~(part.in = "optional" /\ old = Nothing)
  <2>1. o = Ok(Converted(part, v))
    BY <1>5 DEF Into
  <2>2. v[1] \in Scalars /\ (part.of \notin {"narrow", "real"} => v[1] = part.of)
    BY <1>5 DEF Converts, GetterTakes, Scalars, Kinds
  <2>3. IsScalar(v) /\ Paired(v)
    BY <2>2 DEF Given, IsValue, Scalars
  <2>4. CASE part.of = "real" /\ v[1] = "integer"
    <3>1. v[2] \in -Half .. Half - 1
      BY <2>3, <2>4 DEF IsScalar
    <3>2. Converted(part, v) = <<"real", <<Unit * v[2], 0>>>>
      BY <2>4 DEF Converted, GetReal
    <3> DEFINE u == Unit * v[2]
    <3>3. u \in -(Half * Unit) .. Half * Unit - 1
      BY <3>1, UnitsOf
    <3> HIDE DEF u
    <3>4. IsScalar(<<"real", <<u, 0>>>>)
      BY <3>3 DEF IsScalar, IsReal
    <3>5. Says(part, <<"real", <<Unit * v[2], 0>>>>, v)
      BY <2>4 DEF Says
    <3> QED BY <2>1, <2>4, <3>2, <3>4, <3>5, ZeroType DEF PartOK, Paired, u
  <2>5. CASE part.of = "real" /\ v[1] # "integer"
    <3>1. v[1] = "real"
      BY <1>5, <2>5 DEF Converts, GetterTakes
    <3>2. Converted(part, v) = v
      BY <2>3, <2>5, <3>1 DEF Converted, GetReal, Paired
    <3> QED BY <2>1, <2>3, <2>5, <3>1, <3>2, ZeroType DEF PartOK, Says
  <2>6. CASE part.of = "narrow"
    <3>1. v[1] = "integer" /\ Converted(part, v) = v /\ Fits(part, v[2])
      BY <1>5, <2>6 DEF Converts, Converted
    <3>2. v[2] \in -Half .. Half - 1
      BY <2>3, <3>1 DEF IsScalar
    <3>3. v[2] \in part.lo .. part.hi
      BY <2>6, <3>1, <3>2, FitsIsExact
    <3> QED BY <2>1, <2>3, <2>6, <3>1, <3>3, ZeroType DEF PartOK, Says
  <2>7. CASE part.of \notin {"real", "narrow"}
    <3>1. Converted(part, v) = v /\ v[1] = part.of /\ v[1] # "null"
      BY <2>2, <2>7 DEF Converted, Scalars
    <3> QED BY <2>1, <2>3, <2>7, <3>1, ZeroType DEF PartOK, Says
  <2> QED BY <2>4, <2>5, <2>6, <2>7
<1> QED
  BY <1>1, <1>2, <1>3, <1>4, <1>5

PartsOK(x) == \A i \in DOMAIN kind : PartOK(kind[i], x[i])

\* What every outcome o of the conversion of v gives.
ReadsExactly(v, o) ==
    /\ o.how \in {"ok", "threw", "undefined"} /\ PartsOK(o.to)
    /\ Len(kind) = 1 =>
          /\ o.how = "ok" => \/ Says(kind[1], o.to[1], v)
                             \/ kind[1].in = "optional" /\ target[1] = Nothing /\ o.to[1] = Nothing
          /\ o.how = "threw" => MayRefuse(kind[1], target[1], v)

LEMMA PartShape ==
    ASSUME scenario \in Scenarios, NEW i \in DOMAIN kind
    PROVE  /\ kind[i].of \in Kinds /\ kind[i].in \in {"plain", "optional", "pointer"}
           /\ kind[i].of = "narrow" => HasLimits(kind[i])
BY ScenarioAssumption DEF kind, Kinds, Scalars

LEMMA PartHolds ==
    ASSUME NEW part, part.of \in Kinds, NEW x, PartOK(part, x)
    PROVE  x = Nothing \/ x[1] \in Scalars
<1>1. Zero(part.of)[1] \in Scalars
  BY DEF Zero, Scalars
<1> QED BY <1>1 DEF PartOK

LEMMA OneGives ==
    ASSUME scenario \in Scenarios, MayHold(target), PartsOK(target), Len(kind) = 1,
           NEW v, Given(v), NEW o \in JsonToValue(kind, target, v)
    PROVE  ReadsExactly(v, o)
<1>1. PICK p \in Into(kind[1], target[1], v) : o = [p EXCEPT !.to = <<p.to>>]
  BY DEF JsonToValue
<1>2. DOMAIN kind = {1} /\ kind[1].of \in Kinds /\ kind[1].in \in {"plain", "optional", "pointer"}
  BY KindShape
<1>3. kind[1].of = "narrow" => HasLimits(kind[1])
  BY <1>2, PartShape
<1>4. target[1] = Nothing \/ target[1][1] \in Scalars
  BY <1>2 DEF MayHold
<1>5. p = [how |-> p.how, to |-> p.to] /\ (p.how # "ok" => p.to = target[1])
  BY <1>2, <1>4, IntoPart DEF Given
<1>6. /\ p.how \in {"ok", "threw", "undefined"}
      /\ p.how = "ok" => PartOK(kind[1], p.to)
      /\ p.how = "ok" => \/ Says(kind[1], p.to, v)
                         \/ kind[1].in = "optional" /\ target[1] = Nothing /\ p.to = Nothing
      /\ p.how = "threw" => MayRefuse(kind[1], target[1], v)
  BY <1>2, <1>3, IntoGives
<1>7. o.how = p.how /\ o.to = <<p.to>> /\ o.to[1] = p.to
  BY <1>1, <1>5
<1>8. PartOK(kind[1], p.to)
  BY <1>2, <1>5, <1>6 DEF PartsOK
<1>9. PartsOK(o.to)
  BY <1>2, <1>7, <1>8 DEF PartsOK
<1> QED BY <1>6, <1>7, <1>9 DEF ReadsExactly

LEMMA FoundIsGiven ==
    ASSUME NEW ms, IsSeq(ms), \A i \in 1 .. Len(ms) : Given(ms[i][2]), NEW n, HasMember(ms, n)
    PROVE  Given(ms[Find(ms, n)][2])
BY FindIsFirst DEF IsFirst

LEMMA TwoGives ==
    ASSUME scenario \in Scenarios, MayHold(target), PartsOK(target), Len(kind) = 2,
           NEW v, Readable(v), NEW o \in JsonToValue(kind, target, v)
    PROVE  ReadsExactly(v, o)
<1>1. DOMAIN kind = {1, 2}
  BY KindShape
<1>2. ASSUME o.how \in {"ok", "threw", "undefined"}, PartsOK(o.to) PROVE ReadsExactly(v, o)
  BY <1>2 DEF ReadsExactly
<1>3. ASSUME NEW p, p.how \in {"threw", "undefined"}, p = [how |-> p.how, to |-> p.to],
             o = [p EXCEPT !.to = target]
      PROVE  ReadsExactly(v, o)
  <2>1. o.how = p.how /\ o.to = target
    BY <1>3
  <2> QED BY <1>2, <1>3, <2>1
<1>4. CASE o = Threw(target)
  BY <1>2, <1>4 DEF Threw
<1>5. CASE o # Threw(target)
  <2> DEFINE ms == v[2]
  <2>1. v[1] = "object" /\ o \in ReadPair(kind, target, ms)
    BY <1>5 DEF JsonToValue
  <2>2. IsSeq(ms) /\ \A i \in 1 .. Len(ms) : Given(ms[i][2])
    BY <2>1 DEF Readable
  <2> HIDE DEF ms
  <2>3. HasMember(ms, "key")
    BY <1>5, <2>1 DEF ReadPair
  <2> DEFINE x == ms[Find(ms, "key")][2]
  <2>4. PICK k \in Into(kind[1], Nothing, x) :
           o \in IF k.how = "ok" THEN ReadValue(kind, k.to, target, ms) ELSE {[k EXCEPT !.to = target]}
    BY <1>5, <2>1 DEF ReadPair
  <2>5. Given(x)
    BY <2>2, <2>3, FoundIsGiven
  <2>6. x[1] \in Types
    BY <2>5 DEF Given
  <2> HIDE DEF x
  <2>7. /\ k = [how |-> k.how, to |-> k.to] /\ k.how \in {"ok", "threw", "undefined"}
        /\ k.how = "ok" => PartOK(kind[1], k.to)
    <3>1. /\ kind[1].of \in Kinds /\ kind[1].in \in {"plain", "optional", "pointer"}
          /\ kind[1].of = "narrow" => HasLimits(kind[1])
      BY <1>1, PartShape
    <3>2. k = [how |-> k.how, to |-> k.to]
      BY <2>4, <2>6, <3>1, IntoPart
    <3> QED BY <2>4, <2>5, <3>1, <3>2, IntoGives
  <2>8. CASE k.how # "ok"
    BY <1>3, <2>4, <2>7, <2>8
  <2>9. CASE k.how = "ok"
    <3>1. o \in ReadValue(kind, k.to, target, ms)
      BY <2>4, <2>9
    <3>2. HasMember(ms, "value")
      BY <1>5, <3>1 DEF ReadValue
    <3> DEFINE y == ms[Find(ms, "value")][2]
    <3>3. PICK w \in Into(kind[2], Nothing, y) :
             o = IF w.how = "ok" THEN Ok(<<k.to, w.to>>) ELSE [w EXCEPT !.to = target]
      BY <3>1, <3>2 DEF ReadValue
    <3>4. Given(y)
      BY <2>2, <3>2, FoundIsGiven
    <3>5. y[1] \in Types
      BY <3>4 DEF Given
    <3> HIDE DEF y
    <3>6. /\ w = [how |-> w.how, to |-> w.to] /\ w.how \in {"ok", "threw", "undefined"}
          /\ w.how = "ok" => PartOK(kind[2], w.to)
      <4>1. /\ kind[2].of \in Kinds /\ kind[2].in \in {"plain", "optional", "pointer"}
            /\ kind[2].of = "narrow" => HasLimits(kind[2])
        BY <1>1, PartShape
      <4>2. w = [how |-> w.how, to |-> w.to]
        BY <3>3, <3>5, <4>1, IntoPart
      <4> QED BY <3>3, <3>4, <4>1, <4>2, IntoGives
    <3>7. CASE w.how # "ok"
      BY <1>3, <3>3, <3>6, <3>7
    <3>8. CASE w.how = "ok"
      <4>1. o.how = "ok" /\ o.to = <<k.to, w.to>>
        BY <3>3, <3>8 DEF Ok
      <4>2. PartsOK(<<k.to, w.to>>)
        BY <1>1, <2>7, <2>9, <3>6, <3>8 DEF PartsOK
      <4> QED BY <1>2, <4>1, <4>2
    <3> QED BY <3>7, <3>8
  <2> QED BY <2>8, <2>9
<1> QED BY <1>4, <1>5

LEMMA Gives ==
    ASSUME scenario \in Scenarios, MayHold(target), PartsOK(target),
           NEW v, Readable(v), NEW o \in JsonToValue(kind, target, v)
    PROVE  ReadsExactly(v, o)
BY KindShape, OneGives, TwoGives DEF Readable
-----------------------------------------------------------------------------
\* What the program saves is a value again.

\* A real that is whole is an integer within the range of integers.
LEMMA WholeUnits ==
    ASSUME NEW u \in -(Half * Unit) .. Half * Unit - 1
    PROVE  u \div Unit \in -Half .. Half - 1
<1>1. Half \in Nat \ {0} /\ Unit \in Nat \ {0} /\ Half * Unit \in Nat /\ u \in Int
  BY NumberAssumption
<1>2. PICK q \in Int, r \in 0 .. Unit - 1 : q = u \div Unit /\ u = Unit * q + r
  BY <1>1
<1>3. ASSUME q < -Half PROVE FALSE
  <2>1. PICK a \in Nat : q = -Half - 1 - a
    BY <1>1, <1>2, <1>3
  <2>2. Unit * a \in Nat
    BY <1>1, <2>1
  <2>3. Unit * q = -(Half * Unit) - Unit - Unit * a
    BY <1>1, <2>1
  <2> QED BY <1>1, <1>2, <2>2, <2>3
<1>4. ASSUME q >= Half PROVE FALSE
  <2>1. PICK a \in Nat : q = Half + a
    BY <1>1, <1>2, <1>4
  <2>2. Unit * a \in Nat
    BY <1>1, <2>1
  <2>3. Unit * q = Half * Unit + Unit * a
    BY <1>1, <2>1
  <2> QED BY <1>1, <1>2, <2>2, <2>3
<1> QED BY <1>1, <1>2, <1>3, <1>4

\* parse_string cuts a string off at its end, and adds nothing.
LEMMA ReadStringType ==
    ASSUME NEW s \in Seq(Chars)
    PROVE  ReadString(s) = Null \/ \E t \in Seq(Chars) : ReadString(s) = <<"string", t>>
<1> DEFINE slashes(i) == {j \in 1 .. i - 1 : \A l \in j .. i - 1 : s[l] = "slash"}
           ends == {i \in DOMAIN s : s[i] = "quote" /\ Cardinality(slashes(i)) % 2 = 0}
<1>1. ReadString(s) = IF ends = {} THEN Null ELSE <<"string", SubSeq(s, 1, Min(ends) - 1)>>
  BY DEF ReadString
<1>2. Len(s) \in Nat /\ ends \subseteq 1 .. Len(s)
  BY LenProperties
<1> HIDE DEF ends
<1>3. ASSUME ends # {} PROVE SubSeq(s, 1, Min(ends) - 1) \in Seq(Chars)
  <2> DEFINE n == Min(ends) - 1
  <2>1. ends \subseteq Nat
    BY <1>2
  <2>2. n \in Int /\ n <= Len(s)
    <3>1. Min(ends) \in ends
      BY <1>3, <2>1, Least
    <3> HIDE DEF Min
    <3>2. PICK m \in 1 .. Len(s) : m = Min(ends)
      BY <1>2, <3>1
    <3> QED BY <1>2, <3>2
  <2> HIDE DEF n
  <2>3. \A i \in 1 .. n : s[i] \in Chars
    BY <1>2, <2>2, ElementOfSeq
  <2>4. SubSeq(s, 1, n) \in Seq(Chars)
    BY <2>2, <2>3, SubSeqProperties
  <2> QED BY <2>4 DEF n
<1> QED BY <1>1, <1>3

LEMMA EscapeType ==
    ASSUME NEW s \in Seq(Chars)
    PROVE  Escape(s) \in Seq(Chars)
<1> DEFINE Esc(c) == CASE c = "newline" -> <<"slash", "n">>
                       [] c \in {"quote", "slash"} -> <<"slash", c>>
                       [] OTHER -> <<c>>
           e == [i \in DOMAIN s |-> Esc(s[i])]
<1>1. ASSUME NEW c \in Chars PROVE Esc(c) \in Seq(Chars)
  <2>1. {"slash", "n"} \subseteq Chars
    BY DEF Chars
  <2> QED BY <2>1
<1> HIDE DEF Esc
<1>2. Len(s) \in Nat /\ DOMAIN s = 1 .. Len(s) /\ \A i \in 1 .. Len(s) : s[i] \in Chars
  BY LenProperties, ElementOfSeq
<1>3. e \in [1 .. Len(s) -> Seq(Chars)]
  BY <1>1, <1>2
<1>4. e \in Seq(Seq(Chars))
  BY <1>2, <1>3
<1>5. FlattenSeq(e) \in Seq(Chars)
  BY <1>4, FlattenType
<1> QED BY <1>5 DEF Escape, Esc

LEMMA RereadIsInput ==
    ASSUME NEW part, part.of \in Kinds, NEW x, PartOK(part, x)
    PROVE  IsInput(Reread(x)) /\ IsScalar(Reread(x))
<1>1. x = Nothing \/ x[1] \in Scalars
  BY PartHolds
<1>2. Typed(Reread(x)) /\ Reread(x)[1] # "object"
  BY <1>1, RereadIsTyped
<1>3. ASSUME IsScalar(Reread(x)), Paired(Reread(x)) PROVE IsInput(Reread(x))
  BY <1>2, <1>3 DEF IsInput, IsValue, IsScalar
<1>4. CASE x = Nothing
  <2>1. Reread(x) = Null
    BY <1>4 DEF Reread, Whole, Nothing
  <2> QED BY <1>3, <2>1 DEF IsScalar, Paired, Null
<1>5. CASE x # Nothing
  <2>1. IsScalar(x) /\ Paired(x) /\ x[1] \in Scalars
    BY <1>1, <1>5 DEF PartOK
  <2>2. CASE x[1] = "string"
    <3>1. Reread(x) = ReadString(Append(Escape(x[2]), "quote"))
      BY <1>5, <2>2 DEF Reread, Whole
    <3>2. Escape(x[2]) \in Seq(Chars)
      BY <2>1, <2>2, EscapeType DEF IsScalar
    <3>3. Append(Escape(x[2]), "quote") \in Seq(Chars)
      BY <3>2, AppendProperties DEF Chars
    <3>4. Reread(x) = Null \/ \E t \in Seq(Chars) : Reread(x) = <<"string", t>>
      BY <3>1, <3>3, ReadStringType
    <3>5. IsScalar(Reread(x)) /\ Paired(Reread(x))
      BY <3>4 DEF IsScalar, Paired, Null
    <3> QED BY <1>3, <3>5
  <2>3. CASE Whole(x)
    <3>1. x[1] = "real" /\ Reread(x) = <<"integer", x[2][1] \div Unit>>
      BY <1>5, <2>3 DEF Reread, Whole
    <3>2. x[2][1] \in -(Half * Unit) .. Half * Unit - 1
      BY <2>1, <3>1 DEF IsScalar, IsReal
    <3> DEFINE n == x[2][1] \div Unit
    <3>3. n \in -Half .. Half - 1
      BY <3>2, WholeUnits
    <3> HIDE DEF n
    <3>4. IsScalar(<<"integer", n>>) /\ Paired(<<"integer", n>>)
      BY <3>3 DEF IsScalar, Paired
    <3> QED BY <1>3, <3>1, <3>4 DEF n
  <2>4. CASE x[1] # "string" /\ ~Whole(x)
    BY <1>3, <1>5, <2>1, <2>4 DEF Reread
  <2> QED BY <2>2, <2>3, <2>4
<1> QED BY <1>4, <1>5

\* An element of a list is what some part may hold.
LEMMA ElementIs ==
    ASSUME NEW part, part.of \in Kinds, NEW x, PartOK(part, x)
    PROVE  /\ \E p : p.of \in Kinds /\ PartOK(p, AsElement(part, x))
           /\ IsNumber(part) => AsElement(part, x)[1] = "boolean"
<1>1. CASE IsNumber(part)
  <2>1. PICK b \in BOOLEAN : AsElement(part, x) = <<"boolean", b>>
    BY <1>1 DEF AsElement
  <2> DEFINE p == [of |-> "boolean", in |-> "plain"]
             e == <<"boolean", b>>
  <2>2. IsScalar(e) /\ Paired(e) /\ e[1] = "boolean"
    BY DEF IsScalar, Paired
  <2>3. PartOK(p, e)
    BY <2>2 DEF PartOK, Zero
  <2>4. p.of \in Kinds
    BY DEF Kinds, Scalars
  <2> QED BY <2>1, <2>2, <2>3, <2>4
<1>2. CASE ~IsNumber(part)
  BY <1>2 DEF AsElement
<1> QED BY <1>1, <1>2

LEMMA ListIsInput ==
    ASSUME NEW part, part.of \in Kinds, NEW x, PartOK(part, x), NEW n \in Nat
    PROVE  IsInput(RereadList([i \in 1 .. n |-> x]))
<1> DEFINE xs == [i \in 1 .. n |-> x]
           ys == [i \in DOMAIN xs |-> Reread(xs[i])]
<1>1. \A i \in DOMAIN ys : IsScalar(ys[i]) /\ Paired(ys[i])
  <2>1. IsScalar(Reread(x)) /\ Paired(Reread(x))
    BY RereadIsInput DEF IsInput
  <2>2. \A i \in DOMAIN ys : ys[i] = Reread(x)
    OBVIOUS
  <2> QED BY <2>1, <2>2
<1>5. ys \in Seq(Range(ys))
  <2>1. ys = [i \in 1 .. n |-> ys[i]]
    OBVIOUS
  <2> HIDE DEF ys
  <2>2. ys \in [1 .. n -> Range(ys)]
    BY <2>1 DEF Range
  <2> QED BY <2>2
<1> HIDE DEF ys
<1>2. IsInput(Null)
  BY NullIsTyped DEF IsInput, IsValue, IsScalar, Null, Paired
<1>3. IsInput(<<"array", ys>>)
  <2> DEFINE v == <<"array", ys>>
  <2>1. v[1] = "array" /\ v[2] = ys
    OBVIOUS
  <2> HIDE DEF v
  <2>2. Typed(v) /\ IsValue(v)
    BY <1>1, <2>1 DEF Typed, Types, IsValue
  <2>3. Paired(v)
    BY <2>1 DEF v, Paired
  <2>4. IsInput(v)
    BY <1>1, <1>5, <2>1, <2>2, <2>3 DEF IsInput
  <2> QED BY <2>4 DEF v
<1>4. RereadList(xs) \in {Null, <<"array", ys>>}
  BY DEF RereadList, ys
<1> QED BY <1>2, <1>3, <1>4
-----------------------------------------------------------------------------
\* What the object, its references and the variable hold, after every step.

MembersGiven == \A i \in 1 .. Len(members) : members[i][1] \in Names /\ IsInput(members[i][2])
IsClosed(h) == \A r \in Refs : h[r].is = "live" \/ h[r] \in {Unbound, Stale}

TypeInv ==
    /\ Inv /\ MembersGiven /\ PartsOK(target)
    /\ room \in 0 .. MaxRoom /\ IsClosed(held) /\ outcome \in {"ok", "threw", "undefined"}

LEMMA NullIsInput == IsInput(Null)
BY NullIsTyped DEF IsInput, IsValue, IsScalar, Null, Paired

LEMMA ScalarIsGiven ==
    ASSUME NEW x, IsScalar(x), x[1] \in Types, Paired(x)
    PROVE  Given(x)
<1>1. x[1] \notin {"array", "object"}
  BY DEF IsScalar
<1> QED BY <1>1 DEF Given, IsValue

\* A value of an object or an array is none of a container.
LEMMA InputIsReadable ==
    ASSUME NEW v, IsInput(v)
    PROVE  Readable(v)
<1>1. Given(v)
  BY DEF IsInput, Typed, Given
<1>2. CASE v[1] = "object"
  <2>1. IsSeq(v[2]) /\ DOMAIN v[2] = 1 .. Len(v[2])
    BY <1>2, SeqShape DEF IsInput, Typed, IsSeq
  <2>2. \A i \in 1 .. Len(v[2]) : IsScalar(v[2][i][2]) /\ v[2][i][2][1] \in Types /\ Paired(v[2][i][2])
    BY <1>2, <2>1 DEF IsInput, Typed, IsValue
  <2>3. \A i \in 1 .. Len(v[2]) : Given(v[2][i][2])
    BY <2>2, ScalarIsGiven
  <2> QED BY <1>1, <2>1, <2>3 DEF Readable
<1> QED BY <1>1, <1>2 DEF Readable

LEMMA InsertedGiven ==
    ASSUME TypeInv, NEW n \in Names, NEW v, IsInput(v), Inserted(<<n, v>>)
    PROVE  MembersGiven' /\ room' \in 0 .. MaxRoom
<1>1. Typed(v) /\ MembersOK
  BY DEF TypeInv, Inv, IsInput
<1>2. /\ Len(members') = Len(members) + 1
      /\ \A i \in 1 .. Len(members) : members'[i] = members[i]
      /\ members'[Len(members) + 1] = <<n, v>>
  BY <1>1, AfterInserted
<1>3. Len(members) \in Nat
  BY <1>1, SeqShape DEF MembersOK
<1>4. room' \in 0 .. MaxRoom
  BY RoomAssumption DEF TypeInv, Inserted
<1> QED BY <1>2, <1>3, <1>4 DEF MembersGiven, TypeInv

LEMMA AssignedGiven ==
    ASSUME TypeInv, NEW r \in Refs, NEW v, IsInput(v), Assign(r, v)
    PROVE  MembersGiven'
<1>1. Typed(v) /\ MembersOK /\ RefsOK
  BY DEF TypeInv, Inv, IsInput
<1>2. /\ Len(members') = Len(members)
      /\ held[r].at \in 1 .. Len(members) /\ members'[held[r].at][2] = v
      /\ \A i \in 1 .. Len(members) :
            members'[i][1] = members[i][1] /\ (i # held[r].at => members'[i] = members[i])
  BY <1>1, AfterAssigned
<1> QED BY <1>2 DEF MembersGiven, TypeInv

LEMMA ChangeGives ==
    ASSUME TypeInv, Change
    PROVE  MembersGiven' /\ room' \in 0 .. MaxRoom /\ IsClosed(held') /\ outcome' \in {"ok", "undefined"}
<1>1. IsClosed(held) /\ IsClosed(Moved) /\ IsClosed(AfterInsertion)
  BY DEF TypeInv, IsClosed, Moved, AfterInsertion, IsLive
<1>2. /\ scenario \in Scenarios /\ room \in 0 .. MaxRoom /\ MembersGiven
      /\ \A v \in scenario.inputs : IsInput(v)
  BY ScenarioAssumption DEF TypeInv, Inv
<1>3. ASSUME UNCHANGED members PROVE MembersGiven'
  BY <1>2, <1>3 DEF MembersGiven
<1>4. ASSUME NEW r \in Refs, NEW n \in Names, Subscript(r, n)
      PROVE  MembersGiven' /\ room' \in 0 .. MaxRoom /\ IsClosed(held')
  <2>1. ASSUME NEW kept \in {held, Moved}, NEW k, held' = [kept EXCEPT ![r] = Live(n, k)]
        PROVE  IsClosed(held')
    <3>1. DOMAIN kept = Refs /\ IsClosed(kept)
      <4>1. DOMAIN held = Refs
        BY DEF TypeInv, Inv, RefsOK
      <4> QED BY <1>1, <2>1, <4>1 DEF Moved
    <3>2. \A q \in Refs : held'[q] = kept[q] \/ held'[q] = Live(n, k)
      BY <2>1, <3>1
    <3> QED BY <3>1, <3>2 DEF IsClosed, Live
  <2>2. CASE /\ UNCHANGED <<members, room>>
             /\ held' = [held EXCEPT ![r] = Live(n, Find(members, n))]
    BY <1>2, <1>3, <2>1, <2>2
  <2>3. CASE /\ Inserted(<<n, Null>>)
             /\ held' = [AfterInsertion EXCEPT ![r] = Live(n, Len(members) + 1)]
    <3>1. AfterInsertion \in {held, Moved}
      BY DEF AfterInsertion
    <3> QED BY <2>1, <2>3, <3>1, NullIsInput, InsertedGiven
  <2> QED BY <1>4, <2>2, <2>3 DEF Subscript
<1>5. ASSUME NEW n \in Names, NEW v \in scenario.inputs, PushBack(n, v)
      PROVE  MembersGiven' /\ room' \in 0 .. MaxRoom /\ IsClosed(held')
  BY <1>1, <1>2, <1>5, InsertedGiven DEF PushBack
<1>6. ASSUME ShrinkToFit
      PROVE  MembersGiven' /\ room' \in 0 .. MaxRoom /\ IsClosed(held')
  BY <1>1, <1>3, <1>6, RoomAssumption DEF ShrinkToFit
<1>7. ASSUME NEW r \in Refs, NEW v, IsInput(v), Assign(r, v)
      PROVE  MembersGiven' /\ room' \in 0 .. MaxRoom /\ IsClosed(held')
  <2>1. MembersGiven'
    BY <1>7, AssignedGiven
  <2> QED BY <1>1, <1>2, <1>7, <2>1 DEF Assign
<1>8. ASSUME NEW r \in Refs, NEW q \in Refs, Copy(r, q)
      PROVE  MembersGiven' /\ room' \in 0 .. MaxRoom /\ IsClosed(held')
  <2>1. IsInput(ValueOf(q)) /\ Assign(r, ValueOf(q))
    BY <1>8 DEF Copy, TypeInv, Inv, RefsOK, IsFirst, MembersGiven, ValueOf
  <2> QED BY <1>7, <2>1
<1>9. ASSUME NEW r \in Refs, UseStale(r)
      PROVE  MembersGiven' /\ room' \in 0 .. MaxRoom /\ IsClosed(held')
  BY <1>1, <1>2, <1>3, <1>9 DEF UseStale, object
<1>10. ASSUME NEW ms \in scenario.objects, Replace(ms)
       PROVE  MembersGiven' /\ room' \in 0 .. MaxRoom /\ IsClosed(held')
  <2>1. Typed(<<"object", ms>>) /\ \A i \in DOMAIN ms : ms[i][1] \in Names /\ IsInput(ms[i][2])
    BY <1>2, ScenarioAssumption
  <2>2. DOMAIN ms = 1 .. Len(ms)
    BY <2>1, SeqShape DEF Typed, IsSeq
  <2> QED BY <1>1, <1>10, <2>1, <2>2 DEF Replace, MembersGiven
<1>11. outcome' \in {"ok", "undefined"}
  BY DEF Change, Subscript, PushBack, ShrinkToFit, Assign, Copy, UseStale, Replace
<1> QED BY <1>2, <1>4, <1>5, <1>6, <1>7, <1>8, <1>9, <1>10, <1>11 DEF Change

\* What a step that converts or saves keeps.
Kept ==
    /\ MembersGiven' /\ room' \in 0 .. MaxRoom /\ IsClosed(held')
    /\ PartsOK(target)' /\ outcome' \in {"ok", "threw", "undefined"}

LEMMA ObjectStays ==
    ASSUME TypeInv, UNCHANGED object
    PROVE  MembersGiven' /\ room' \in 0 .. MaxRoom /\ IsClosed(held')
BY DEF TypeInv, object, MembersGiven

LEMMA TargetKept ==
    ASSUME TypeInv, UNCHANGED <<scenario, target>>
    PROVE  PartsOK(target)'
BY DEF TypeInv, PartsOK, kind

LEMMA ConvertGives ==
    ASSUME TypeInv, UNCHANGED scenario, NEW v, Readable(v), Convert(v)
    PROVE  /\ Kept
           /\ \E o \in JsonToValue(kind, target, v) : target' = o.to /\ outcome' = o.how /\ ReadsExactly(v, o)
<1>1. PICK o \in JsonToValue(kind, target, v) : target' = o.to /\ outcome' = o.how
  BY DEF Convert
<1>2. ReadsExactly(v, o)
  BY Gives DEF TypeInv, Inv
<1>3. PartsOK(target)'
  BY <1>1, <1>2 DEF ReadsExactly, PartsOK, kind
<1>4. UNCHANGED object
  BY DEF Convert
<1> QED BY <1>1, <1>2, <1>3, <1>4, ObjectStays DEF Kept, ReadsExactly

LEMMA SaveGives ==
    ASSUME TypeInv, UNCHANGED <<scenario, target>>, NEW r \in Refs, NEW v, IsInput(v), Assign(r, v)
    PROVE  Kept
<1>1. MembersGiven'
  BY AssignedGiven
<1>2. room' = room /\ held' = held /\ outcome' = "ok"
  BY DEF Assign
<1> QED BY <1>1, <1>2, TargetKept DEF Kept, TypeInv

LEMMA NextGives ==
    ASSUME TypeInv, Next
    PROVE  Kept
<1>1. UNCHANGED scenario
  BY DEF Next
<1>2. CASE Change /\ UNCHANGED target
  BY <1>1, <1>2, ChangeGives, TargetKept DEF Kept
<1>3. ASSUME NEW r \in Refs, ConvertHeld(r) PROVE Kept
  <2>1. IsInput(ValueOf(r)) /\ Convert(ValueOf(r))
    BY <1>3 DEF ConvertHeld, TypeInv, Inv, RefsOK, IsFirst, MembersGiven, ValueOf
  <2> QED BY <1>1, <2>1, InputIsReadable, ConvertGives
<1>4. ASSUME NEW n \in Names, ConvertMember(n) PROVE Kept
  <2>1. CASE HasMember(members, n) /\ Convert(members[Find(members, n)][2])
    <3>1. IsInput(members[Find(members, n)][2])
      BY <2>1, FindIsFirst DEF TypeInv, Inv, MembersOK, IsFirst, MembersGiven
    <3> QED BY <1>1, <2>1, <3>1, InputIsReadable, ConvertGives
  <2>2. CASE outcome' = "threw" /\ UNCHANGED <<object, target>>
    BY <1>1, <2>2, ObjectStays, TargetKept DEF Kept
  <2> QED BY <1>4, <2>1, <2>2 DEF ConvertMember
<1>5. CASE ConvertObject
  <2>1. IsSeq(members) /\ \A i \in 1 .. Len(members) : Given(members[i][2])
    BY InputIsReadable DEF TypeInv, Inv, MembersOK, MembersGiven, Readable
  <2>2. Readable(<<"object", members>>)
    BY <2>1 DEF Readable, Given, Types
  <2> QED BY <1>1, <1>5, <2>2, ConvertGives DEF ConvertObject
<1>6. ASSUME Writable PROVE PartOK(kind[1], target[1]) /\ kind[1].of \in Kinds
  BY <1>6, KindShape DEF Writable, TypeInv, Inv, PartsOK
<1>7. ASSUME NEW r \in Refs, Save(r) PROVE Kept
  <2>1. IsInput(Reread(target[1]))
    BY <1>6, <1>7, RereadIsInput DEF Save
  <2> QED BY <1>1, <1>7, <2>1, SaveGives DEF Save
<1>8. ASSUME NEW r \in Refs, NEW n \in 0 .. MaxList, SaveList(r, n) PROVE Kept
  <2>1. n \in Nat
    OBVIOUS
  <2> DEFINE x == AsElement(kind[1], target[1])
             list == RereadList([i \in 1 .. n |-> x])
  <2>3. PICK p : p.of \in Kinds /\ PartOK(p, x)
    BY <1>6, <1>8, ElementIs DEF SaveList
  <2>4. Assign(r, list) /\ UNCHANGED target
    BY <1>8 DEF SaveList
  <2> HIDE DEF x
  <2>2. IsInput(list) /\ Assign(r, list) /\ UNCHANGED target
    BY <2>1, <2>3, <2>4, ListIsInput
  <2> HIDE DEF list
  <2> QED BY <1>1, <2>2, SaveGives
<1>9. CASE WriteNull
  BY <1>1, <1>9, ObjectStays, TargetKept DEF Kept, WriteNull
<1> QED
  BY <1>2, <1>3, <1>4, <1>5, <1>7, <1>8, <1>9 DEF Next

LEMMA TypeInvAtFirst == Init => TypeInv
<1> SUFFICES ASSUME Init PROVE TypeInv
  OBVIOUS
<1>1. Inv
  BY InvAtFirst
<1>2. MembersGiven /\ room \in 0 .. MaxRoom /\ outcome = "ok" /\ IsClosed(held)
  BY DEF Init, ObjectInit, MembersGiven, IsClosed
<1>3. PartsOK(target)
  <2> SUFFICES ASSUME NEW i \in DOMAIN kind PROVE PartOK(kind[i], target[i])
    BY DEF PartsOK
  <2>1. kind[i].of \in Kinds /\ (kind[i].of = "narrow" => HasLimits(kind[i]))
    BY <1>1, PartShape DEF Inv
  <2>2. target[i] = Zero(kind[i].of) \/ (kind[i].in # "plain" /\ target[i] = Nothing)
    BY DEF Init, kind
  <2>3. ASSUME NEW of \in Kinds PROVE IsScalar(Zero(of)) /\ Paired(Zero(of)) /\ (of = "narrow" => Zero(of)[2] = 0)
    <3>1. <<>> \in Seq(Chars) /\ 0 \in -Half .. Half - 1
          /\ 0 \in -(Half * Unit) .. Half * Unit - 1
      <4>1. Half \in Nat \ {0} /\ Unit \in Nat \ {0}
        BY NumberAssumption
      <4>2. Half * Unit \in Nat \ {0}
        BY <4>1
      <4> QED BY <4>1, <4>2
    <3>2. CASE of = "real"
      BY <3>1, <3>2 DEF IsScalar, IsReal, Paired, Zero
    <3>3. CASE of = "string"
      BY <3>1, <3>3 DEF IsScalar, Paired, Zero
    <3>4. CASE of = "boolean"
      BY <3>4 DEF IsScalar, Paired, Zero
    <3>5. CASE of \in {"integer", "narrow"}
      BY <3>1, <3>5 DEF IsScalar, Paired, Zero
    <3> QED BY <3>2, <3>3, <3>4, <3>5 DEF Kinds, Scalars
  <2>4. HasLimits(kind[i]) => 0 \in kind[i].lo .. kind[i].hi
    BY NumberAssumption DEF HasLimits
  <2> QED BY <2>1, <2>2, <2>3, <2>4 DEF PartOK
<1> QED BY <1>1, <1>2, <1>3 DEF TypeInv

LEMMA TypeInvIsKept == TypeInv /\ [Next]_vars => TypeInv'
<1> SUFFICES ASSUME TypeInv, [Next]_vars PROVE TypeInv'
  OBVIOUS
<1>1. Inv'
  BY InvIsKept DEF TypeInv
<1>2. CASE Next
  BY <1>1, <1>2, NextGives DEF Kept, TypeInv
<1>3. CASE UNCHANGED vars
  <2>1. MembersGiven' /\ room' \in 0 .. MaxRoom /\ IsClosed(held') /\ PartsOK(target)'
    BY <1>3, ObjectStays, TargetKept DEF vars, object
  <2> QED BY <1>1, <1>3, <2>1 DEF TypeInv, vars
<1> QED BY <1>2, <1>3

\* TypeOK: whatever is converted and saved, the object, the references and
\* the variable hold what their types allow, and a narrow integer nothing
\* beyond its limits, also where a limit wraps in the cast to integer_t.
THEOREM TypesHold == Spec => []TypeOK
<1>1. TypeInv => TypeOK
  <2> SUFFICES ASSUME TypeInv PROVE TypeOK
    OBVIOUS
  <2>1. ObjectTypeOK
    <3>1. DOMAIN members = 1 .. Len(members)
      BY SeqShape DEF TypeInv, Inv, MembersOK
    <3>2. \A i \in DOMAIN members : members[i][1] \in Names /\ IsValue(members[i][2])
      BY <3>1 DEF TypeInv, MembersGiven, IsInput
    <3>3. \A r \in Refs :
             \/ held[r] \in {Unbound, Stale}
             \/ IsLive(r) /\ held[r].name \in Names /\ held[r].at \in DOMAIN members
      BY <3>1 DEF TypeInv, Inv, IsClosed, RefsOK, IsLive, IsFirst
    <3> QED BY <3>2, <3>3 DEF ObjectTypeOK, TypeInv
  <2> QED BY <2>1 DEF TypeOK, TypeInv, Inv, PartsOK, PartOK
<1> QED BY <1>1, TypeInvAtFirst, TypeInvIsKept, PTL DEF Spec

LEMMA TypeInvHolds == Spec => []TypeInv
BY TypeInvAtFirst, TypeInvIsKept, PTL DEF Spec

\* What a step that converts the member of a valid reference gives.
LEMMA HeldGives ==
    ASSUME TypeInv, Next, NEW r \in Refs, ConvertHeld(r), Len(kind) = 1
    PROVE  /\ outcome' = "ok" => \/ Says(kind[1], target'[1], ValueOf(r))
                                 \/ kind[1].in = "optional" /\ target[1] = Nothing /\ target'[1] = Nothing
           /\ outcome' = "threw" => MayRefuse(kind[1], target[1], ValueOf(r))
<1>1. IsInput(ValueOf(r)) /\ Convert(ValueOf(r))
  BY DEF ConvertHeld, TypeInv, Inv, RefsOK, IsFirst, MembersGiven, ValueOf
<1>2. Readable(ValueOf(r)) /\ UNCHANGED scenario
  BY <1>1, InputIsReadable DEF Next
<1>3. PICK o \in JsonToValue(kind, target, ValueOf(r)) :
         target' = o.to /\ outcome' = o.how /\ ReadsExactly(ValueOf(r), o)
  BY <1>1, <1>2, ConvertGives
<1> QED BY <1>3 DEF ReadsExactly

\* ConversionIsExact: a conversion that returns has stored what the value
\* says, nothing of it cut off, for every width of the variable's type.
THEOREM ConversionsAreExact == Spec => ConversionIsExact
<1>1. ASSUME TypeInv, [Next]_vars
      PROVE  [\A r \in Refs : ConvertHeld(r) /\ outcome' = "ok" /\ Len(kind) = 1 =>
                \/ Says(kind[1], target'[1], ValueOf(r))
                \/ kind[1].in = "optional" /\ target[1] = Nothing /\ target'[1] = Nothing]_vars
  BY <1>1, HeldGives
<1> QED BY <1>1, TypeInvHolds, PTL DEF Spec, ConversionIsExact

\* RefusalHasReason: the tests that a conversion makes refuse nothing that
\* the type can hold, but when integer_t cannot hold its greatest value.
THEOREM RefusalsHaveReasons == Spec => RefusalHasReason
<1>1. ASSUME TypeInv, [Next]_vars
      PROVE  [\A r \in Refs : ConvertHeld(r) /\ outcome' = "threw" /\ Len(kind) = 1 =>
                MayRefuse(kind[1], target[1], ValueOf(r))]_vars
  BY <1>1, HeldGives
<1> QED BY <1>1, TypeInvHolds, PTL DEF Spec, RefusalHasReason
-----------------------------------------------------------------------------
\* What texts tell apart.

Marks == {", ", "[ ", " ]", "{ ", " }", " : "}
Sign(c) == <<"char", c>>

\* The symbols of texts with the scalars of A, and the names of N, in them.
Signs(A, N) == ({"char"} \X (Chars \cup Marks \cup N)) \cup A

IsPlain(x) == IsScalar(x) /\ Paired(x) /\ PlainScalar(x)

\* What six digits hold is rounded to itself.
LEMMA RoundedIs ==
    ASSUME NEW u \in Int, u % Step = 0
    PROVE  Step * ((u + Step \div 2) \div Step) = u
<1>1. Step \in Nat \ {0}
  BY NumberAssumption
<1>2. PICK q \in Int : u = Step * q
  BY <1>1
<1>3. PICK h \in 0 .. Step - 1 : h = Step \div 2
  BY <1>1
<1>4. (Step * q + h) \div Step = q
  BY <1>1
<1> QED BY <1>2, <1>3, <1>4

\* The text of a scalar is its own symbol, or a string in quotes.
LEMMA PlainText ==
    ASSUME NEW x, IsPlain(x), x[1] # "string"
    PROVE  ScalarText(x) = <<x>> /\ x[1] \in {"null", "integer", "real", "boolean"}
<1>1. x[1] \in {"null", "integer", "real", "boolean"}
  BY DEF IsPlain, IsScalar
<1>2. CASE x[1] = "real"
  <2> DEFINE u == x[2][1]
             e == x[2][2]
  <2>1. u \in -(Half * Unit) .. Half * Unit - 1 /\ x = <<"real", <<u, e>>>> /\ x[2] = <<u, e>>
    BY <1>2 DEF IsPlain, IsScalar, IsReal, Paired
  <2>2. e = 1 \/ (e = 0 /\ u % Step = 0)
    BY <1>2 DEF IsPlain, PlainScalar
  <2>3. ScalarText(x) = <<RealText(x[2])>>
    BY <1>2 DEF ScalarText
  <2> HIDE DEF u, e
  <2>4. u \in Int
    BY <2>1, NumberAssumption
  <2>5. RealText(<<u, e>>) = <<"real", <<u, e>>>>
    <3>1. CASE e = 1
      BY <3>1 DEF RealText
    <3>2. CASE e = 0 /\ u % Step = 0
      <4>1. Step * ((u + Step \div 2) \div Step) = u
        BY <2>4, <3>2, RoundedIs
      <4> QED BY <3>2, <4>1 DEF RealText
    <3> QED BY <2>2, <3>1, <3>2
  <2> QED BY <1>1, <2>1, <2>3, <2>5
<1>3. CASE x[1] # "real"
  BY <1>1, <1>3 DEF ScalarText
<1> QED BY <1>2, <1>3

LEMMA StringText ==
    ASSUME NEW A, NEW N, NEW x, IsPlain(x), x[1] = "string"
    PROVE  /\ ScalarText(x) = <<Quote>> \o Symbols(x[2]) \o <<Quote>>
           /\ x[2] \in Seq(Chars) /\ Symbols(x[2]) \in Seq(Signs(A, N))
           /\ Len(Symbols(x[2])) = Len(x[2])
           /\ \A i \in 1 .. Len(x[2]) : Symbols(x[2])[i] = Sign(x[2][i])
           /\ Quote \notin Range(Symbols(x[2])) /\ Quote \in Signs(A, N)
<1> DEFINE s == x[2]
<1>1. s \in Seq(Chars) /\ "quote" \notin Range(s)
  BY DEF IsPlain, IsScalar, PlainScalar
<1> HIDE DEF s
<1>2. Len(s) \in Nat /\ DOMAIN s = 1 .. Len(s) /\ \A i \in 1 .. Len(s) : s[i] \in Chars /\ s[i] # "quote"
  BY <1>1, LenProperties, ElementOfSeq DEF Range
<1>3. \A c \in Chars : Sign(c) \in Signs(A, N)
  BY DEF Sign, Signs
<1>4. Symbols(s) = [i \in 1 .. Len(s) |-> Sign(s[i])]
  BY <1>2 DEF Symbols, Sign
<1>5. \A i \in 1 .. Len(s) : Sign(s[i]) \in Signs(A, N) /\ Sign(s[i]) # Quote
  BY <1>2, <1>3 DEF Sign, Quote
<1>6. Symbols(s) \in Seq(Signs(A, N)) /\ Len(Symbols(s)) = Len(s) /\ DOMAIN Symbols(s) = 1 .. Len(s)
  BY <1>2, <1>4, <1>5
<1>7. Quote \notin Range(Symbols(s))
  BY <1>4, <1>5 DEF Range
<1>8. ScalarText(x) = <<Quote>> \o Symbols(s) \o <<Quote>>
  BY DEF ScalarText, s
<1>9. Quote \in Signs(A, N)
  BY <1>3 DEF Quote, Sign, Chars
<1> QED BY <1>1, <1>4, <1>6, <1>7, <1>8, <1>9 DEF s

LEMMA ScalarTextIs ==
    ASSUME NEW A, NEW N, NEW x \in A, IsPlain(x)
    PROVE  /\ ScalarText(x) \in Seq(Signs(A, N)) /\ ScalarText(x) # <<>>
           /\ ScalarText(x)[1] = IF x[1] = "string" THEN Quote ELSE x
<1> DEFINE S == Signs(A, N)
<1>1. x \in S
  BY DEF Signs
<1>2. CASE x[1] = "string"
  <2> DEFINE y == Symbols(x[2])
             z == y \o <<Quote>>
  <2>1. ScalarText(x) = <<Quote>> \o y \o <<Quote>> /\ y \in Seq(S) /\ Quote \in S
    BY <1>2, StringText
  <2> HIDE DEF y, S
  <2>2. <<Quote>> \in Seq(S)
    BY <2>1
  <2>3. z \in Seq(S)
    BY <2>1, <2>2, ConcatHas
  <2>4. ScalarText(x) = <<Quote>> \o z
    BY <2>1, <2>2, Associates
  <2> HIDE DEF z
  <2> QED BY <1>2, <2>1, <2>3, <2>4, FirstIs DEF S
<1>3. CASE x[1] # "string"
  <2>1. ScalarText(x) = <<x>>
    BY <1>3, PlainText
  <2> HIDE DEF S
  <2> QED BY <1>1, <1>3, <2>1 DEF S
<1> QED BY <1>2, <1>3

\* What x and y are is told from c and d, before whatever follows.
TellApart(x, y, c, d, S) == \A k, l \in Seq(S) : c \o k = d \o l => x = y /\ k = l

\* A scalar is told from its text and from what follows it.
LEMMA ScalarApart ==
    ASSUME NEW A, NEW N, NEW x \in A, NEW y \in A, IsPlain(x), IsPlain(y)
    PROVE  TellApart(x, y, ScalarText(x), ScalarText(y), Signs(A, N))
<1> SUFFICES ASSUME NEW a \in Seq(Signs(A, N)), NEW b \in Seq(Signs(A, N)),
                    ScalarText(x) \o a = ScalarText(y) \o b
             PROVE  x = y /\ a = b
  BY DEF TellApart
<1> DEFINE S == Signs(A, N)
<1>1. x \in S /\ y \in S /\ a \in Seq(S) /\ b \in Seq(S)
  BY DEF Signs
<1>2. Quote[1] = "char"
  BY DEF Quote
<1>3. CASE x[1] = "string" /\ y[1] = "string"
  <2> DEFINE p == Symbols(x[2])
             q == Symbols(y[2])
  <2>1. /\ ScalarText(x) = <<Quote>> \o p \o <<Quote>> /\ p \in Seq(S) /\ Quote \in S
        /\ x[2] \in Seq(Chars) /\ Len(p) = Len(x[2]) /\ Quote \notin Range(p)
        /\ \A i \in 1 .. Len(x[2]) : p[i] = Sign(x[2][i])
    BY <1>3, StringText
  <2>2. /\ ScalarText(y) = <<Quote>> \o q \o <<Quote>> /\ q \in Seq(S)
        /\ y[2] \in Seq(Chars) /\ Len(q) = Len(y[2]) /\ Quote \notin Range(q)
        /\ \A i \in 1 .. Len(y[2]) : q[i] = Sign(y[2][i])
    BY <1>3, StringText
  <2> HIDE DEF p, q, S
  <2>3. \A t, d \in Seq(S) :
           /\ (<<Quote>> \o t \o <<Quote>>) \o d = <<Quote>> \o (t \o (<<Quote>> \o d))
           /\ t \o (<<Quote>> \o d) \in Seq(S)
    <3> SUFFICES ASSUME NEW t \in Seq(S), NEW d \in Seq(S)
                 PROVE  /\ (<<Quote>> \o t \o <<Quote>>) \o d = <<Quote>> \o (t \o (<<Quote>> \o d))
                        /\ t \o (<<Quote>> \o d) \in Seq(S)
      OBVIOUS
    <3>1. <<Quote>> \in Seq(S)
      BY <2>1
    <3>2. <<Quote>> \o t \in Seq(S) /\ <<Quote>> \o d \in Seq(S) /\ t \o (<<Quote>> \o d) \in Seq(S)
      BY <3>1, ConcatHas
    <3>3. (<<Quote>> \o t \o <<Quote>>) \o d = (<<Quote>> \o t) \o (<<Quote>> \o d)
      BY <3>1, <3>2, Associates
    <3>4. (<<Quote>> \o t) \o (<<Quote>> \o d) = <<Quote>> \o (t \o (<<Quote>> \o d))
      BY <3>1, <3>2, Associates
    <3> QED BY <3>2, <3>3, <3>4
  <2> DEFINE u == p \o (<<Quote>> \o a)
             v == q \o (<<Quote>> \o b)
  <2>4. u \in Seq(S) /\ v \in Seq(S) /\ <<Quote>> \o u = <<Quote>> \o v
    <3>1. (<<Quote>> \o p \o <<Quote>>) \o a = <<Quote>> \o u /\ u \in Seq(S)
      BY <1>1, <2>1, <2>3, Zenon
    <3>2. (<<Quote>> \o q \o <<Quote>>) \o b = <<Quote>> \o v /\ v \in Seq(S)
      BY <1>1, <2>2, <2>3, Zenon
    <3>3. ScalarText(x) \o a = <<Quote>> \o u /\ ScalarText(y) \o b = <<Quote>> \o v
      BY <2>1, <2>2, <3>1, <3>2, Zenon
    <3> QED BY <3>1, <3>2, <3>3, Zenon
  <2>5. u = v
    <3> HIDE DEF u, v
    <3>1. \A e, f \in S, c, d \in Seq(S) : <<e>> \o c = <<f>> \o d => e = f /\ c = d
      BY FirstSame
    <3> QED BY <2>1, <2>4, <3>1, Zenon
  <2>6. p = q /\ a = b
    BY <1>1, <2>1, <2>2, <2>5, DelimitedSame
  <2>7. \A i \in 1 .. Len(x[2]) : x[2][i] = y[2][i]
    BY <2>1, <2>2, <2>6 DEF Sign
  <2>8. x[2] = y[2]
    BY <2>1, <2>2, <2>6, <2>7, SameElements
  <2> QED BY <1>3, <2>6, <2>8 DEF IsPlain, Paired
<1>4. CASE ~(x[1] = "string" /\ y[1] = "string")
  <2>1. /\ ScalarText(x) \in Seq(S) /\ ScalarText(x) # <<>>
        /\ ScalarText(x)[1] = IF x[1] = "string" THEN Quote ELSE x
    BY ScalarTextIs
  <2>2. /\ ScalarText(y) \in Seq(S) /\ ScalarText(y) # <<>>
        /\ ScalarText(y)[1] = IF y[1] = "string" THEN Quote ELSE y
    BY ScalarTextIs
  <2> HIDE DEF S
  <2>3. ScalarText(x)[1] = ScalarText(y)[1]
    <3>1. Len(ScalarText(x)) \in Nat \ {0} /\ Len(ScalarText(y)) \in Nat \ {0}
      BY <2>1, <2>2, EmptySeq
    <3>2. (ScalarText(x) \o a)[1] = ScalarText(x)[1]
      BY <1>1, <2>1, <3>1, ConcatHas
    <3>3. (ScalarText(y) \o b)[1] = ScalarText(y)[1]
      BY <1>1, <2>2, <3>1, ConcatHas
    <3> QED BY <3>2, <3>3
  <2>4. x[1] # "string" /\ y[1] # "string"
    <3>1. x[1] # "string" => x[1] # "char"
      BY PlainText
    <3>2. y[1] # "string" => y[1] # "char"
      BY PlainText
    <3> QED BY <1>2, <1>4, <2>1, <2>2, <2>3, <3>1, <3>2
  <2>5. ScalarText(x) = <<x>> /\ ScalarText(y) = <<y>>
    BY <2>4, PlainText
  <2>6. <<x>> \o a = <<y>> \o b
    BY <2>5, Zenon
  <2>7. \A e, f \in S, c, d \in Seq(S) : <<e>> \o c = <<f>> \o d => e = f /\ c = d
    BY FirstSame
  <2> QED BY <1>1, <2>6, <2>7, Zenon
<1> QED BY <1>3, <1>4
\* Texts of which none begins another.
IsCode(C, S) ==
    /\ C \subseteq Seq(S)
    /\ \A c, d \in C, a, b \in Seq(S) : c \o a = d \o b => c = d /\ a = b

Comma == Sign(", ")

\* Texts that do not begin with what ends a list of them.
IsListed(C, S, e) == IsCode(C, S) /\ Comma \in S /\ e \in S /\ e # Comma /\ \A c \in C : c # <<>> /\ c[1] # e

Parts(ts) == [i \in DOMAIN ts |-> IF i = 1 THEN ts[i] ELSE <<Comma>> \o ts[i]]

LEMMA PartsAre ==
    ASSUME NEW C, NEW S, C \subseteq Seq(S), Comma \in S, NEW ts \in Seq(C)
    PROVE  /\ Parts(ts) \in Seq(Seq(S)) /\ Len(Parts(ts)) = Len(ts) /\ Len(ts) \in Nat
           /\ \A i \in 1 .. Len(ts) : Parts(ts)[i] = IF i = 1 THEN ts[i] ELSE <<Comma>> \o ts[i]
           /\ \A i \in 1 .. Len(ts) : ts[i] \in C
           /\ Joined(ts) = FlattenSeq(Parts(ts))
<1> DEFINE part(i) == IF i = 1 THEN ts[i] ELSE <<Comma>> \o ts[i]
<1>1. Len(ts) \in Nat /\ DOMAIN ts = 1 .. Len(ts) /\ \A i \in 1 .. Len(ts) : ts[i] \in C
  BY ElementOfSeq, LenProperties
<1>2. ASSUME NEW i \in 1 .. Len(ts) PROVE part(i) \in Seq(S)
  <2>1. ts[i] \in Seq(S)
    BY <1>1
  <2> QED BY <2>1, FirstIs
<1>3. Parts(ts) = [i \in 1 .. Len(ts) |-> part(i)]
  BY <1>1 DEF Parts
<1> HIDE DEF part
<1>4. Parts(ts) \in Seq(Seq(S)) /\ Len(Parts(ts)) = Len(ts) /\ \A i \in 1 .. Len(ts) : Parts(ts)[i] = part(i)
  BY <1>1, <1>2, <1>3
<1>5. Joined(ts) = FlattenSeq(Parts(ts))
  BY DEF Joined, Parts, Comma, Sign
<1> QED BY <1>1, <1>4, <1>5 DEF part

\* r[k] is listed after the k-th text of ts, up to the end e of the list.
IsListing(r, ts, S, e) ==
    /\ r \in [0 .. Len(ts) -> Seq(S)]
    /\ r[0] = Joined(ts) \o <<e>> /\ r[Len(ts)] = <<e>>
    /\ \A k \in 1 .. Len(ts) :
          r[k - 1] = IF k = 1 THEN ts[k] \o r[k] ELSE <<Comma>> \o (ts[k] \o r[k])

LEMMA ListingExists ==
    ASSUME NEW C, NEW S, NEW e, IsListed(C, S, e), NEW ts \in Seq(C)
    PROVE  \E r : IsListing(r, ts, S, e)
<1> DEFINE ps == Parts(ts)
           n == Len(ts)
<1>1. /\ ps \in Seq(Seq(S)) /\ Len(ps) = n /\ n \in Nat /\ Joined(ts) = FlattenSeq(ps)
      /\ \A i \in 1 .. n : ps[i] = IF i = 1 THEN ts[i] ELSE <<Comma>> \o ts[i]
      /\ \A i \in 1 .. n : ts[i] \in Seq(S) /\ ps[i] \in Seq(S)
  <2>1. /\ ps \in Seq(Seq(S)) /\ Len(ps) = n /\ n \in Nat /\ Joined(ts) = FlattenSeq(ps)
        /\ \A i \in 1 .. n : ps[i] = IF i = 1 THEN ts[i] ELSE <<Comma>> \o ts[i]
        /\ \A i \in 1 .. n : ts[i] \in Seq(S)
    BY PartsAre DEF IsListed, IsCode
  <2> HIDE DEF ps, n
  <2> QED BY <2>1, ElementOfSeq
<1>2. Comma \in S /\ <<Comma>> \in Seq(S) /\ <<e>> \in Seq(S)
  BY DEF IsListed
<1> HIDE DEF ps
<1>3. PICK q \in [0 .. n -> Seq(S)] : IsRest(q, ps)
  BY <1>1, RestExists
<1>4. FlattenSeq(ps) = q[0]
  BY <1>1, <1>3, FlattenIsRest
<1>5. q[n] = <<>> /\ \A k \in 1 .. n : q[k - 1] = ps[k] \o q[k]
  <2>1. 0 + 1 = 1
    OBVIOUS
  <2>2. q[n] = <<>> /\ \A k \in 0 + 1 .. n : q[k - 1] = ps[k] \o q[k]
    BY <1>1, <1>3, Zenon DEF IsRest, IsRestFrom
  <2> QED BY <2>1, <2>2, Zenon
<1>6. \A k \in 1 .. n : q[k] \in Seq(S)
  <2>1. \A k \in 1 .. n : k \in 0 .. n
    BY <1>1
  <2> HIDE DEF n
  <2> QED BY <2>1, <1>3, Zenon
<1> DEFINE r == [k \in 0 .. n |-> q[k] \o <<e>>]
<1>7. r \in [0 .. n -> Seq(S)]
  BY <1>2, <1>3, ConcatHas
<1>8. r[0] = q[0] \o <<e>> /\ r[n] = <<e>>
  <2>1. 0 \in 0 .. n /\ n \in 0 .. n
    BY <1>1
  <2>2. <<>> \o <<e>> = <<e>>
    BY <1>2, ConcatEmptySeq
  <2> QED BY <1>5, <2>1, <2>2
<1>9. \A x, y, z \in Seq(S) : (x \o y) \o z = x \o (y \o z)
  BY Associates
<1>10. ASSUME NEW k \in 1 .. n
       PROVE  r[k - 1] = IF k = 1 THEN ts[k] \o r[k] ELSE <<Comma>> \o (ts[k] \o r[k])
  <2>1. r[k - 1] = (ps[k] \o q[k]) \o <<e>> /\ r[k] = q[k] \o <<e>> /\ r[k] \in Seq(S)
    <3>1. k - 1 \in 0 .. n /\ k \in 0 .. n
      BY <1>1
    <3>2. q[k - 1] = ps[k] \o q[k]
      BY <1>5
    <3> QED BY <1>7, <3>1, <3>2
  <2>2. ps[k] \in Seq(S) /\ q[k] \in Seq(S) /\ ts[k] \in Seq(S)
    BY <1>1, <1>6
  <2> HIDE DEF r, n
  <2>3. r[k - 1] = ps[k] \o r[k]
    <3>1. (ps[k] \o q[k]) \o <<e>> = ps[k] \o (q[k] \o <<e>>)
      BY <1>2, <1>9, <2>2, Zenon
    <3> QED BY <2>1, <3>1, Zenon
  <2>4. CASE k = 1
    BY <1>1, <2>3, <2>4
  <2>5. CASE k # 1
    <3>1. ps[k] = <<Comma>> \o ts[k]
      BY <1>1, <2>5, Zenon
    <3>2. (<<Comma>> \o ts[k]) \o r[k] = <<Comma>> \o (ts[k] \o r[k])
      BY <1>2, <1>9, <2>1, <2>2, Zenon
    <3> QED BY <2>3, <2>5, <3>1, <3>2, Zenon
  <2> QED BY <2>4, <2>5
<1> HIDE DEF r
<1>11. IsListing(r, ts, S, e)
  BY <1>1, <1>4, <1>7, <1>8, <1>10 DEF n, IsListing
<1> QED BY <1>11

LEMMA JoinedBegins ==
    ASSUME NEW C, NEW S, NEW e, IsListed(C, S, e), NEW ts \in Seq(C), NEW us \in Seq(C),
           Joined(ts) \o <<e>> = Joined(us) \o <<e>>
    PROVE  Len(ts) <= Len(us) /\ \A i \in 1 .. Len(ts) : ts[i] = us[i]
<1> DEFINE n == Len(ts)
           m == Len(us)
<1>1. n \in Nat /\ m \in Nat /\ (\A i \in 1 .. n : ts[i] \in C) /\ \A i \in 1 .. m : us[i] \in C
  BY LenProperties, ElementOfSeq
<1>11. PICK r : IsListing(r, ts, S, e)
  BY ListingExists
<1>12. PICK v : IsListing(v, us, S, e)
  BY ListingExists
<1>2. /\ r \in [0 .. n -> Seq(S)] /\ r[0] = Joined(ts) \o <<e>> /\ r[n] = <<e>>
      /\ \A k \in 1 .. n : r[k - 1] = IF k = 1 THEN ts[k] \o r[k] ELSE <<Comma>> \o (ts[k] \o r[k])
  BY <1>11, Zenon DEF IsListing
<1>3. /\ v \in [0 .. m -> Seq(S)] /\ v[0] = Joined(us) \o <<e>> /\ v[m] = <<e>>
      /\ \A k \in 1 .. m : v[k - 1] = IF k = 1 THEN us[k] \o v[k] ELSE <<Comma>> \o (us[k] \o v[k])
  BY <1>12, Zenon DEF IsListing
<1>4. (\A k \in 0 .. n : r[k] \in Seq(S)) /\ \A k \in 0 .. m : v[k] \in Seq(S)
  BY <1>2, <1>3, Zenon
<1> HIDE DEF n, m
<1> DEFINE Agree(k) == k <= m /\ r[k] = v[k] /\ \A i \in 1 .. k : ts[i] = us[i]
           P == {k \in Nat : k <= n => Agree(k)}
<1>5. 0 \in P
  <2>1. r[0] = v[0]
    BY <1>2, <1>3, Zenon
  <2> QED BY <1>1, <2>1
<1>6. ASSUME NEW k \in Nat, k \in P PROVE k + 1 \in P
  <2> SUFFICES ASSUME k + 1 <= n PROVE Agree(k + 1)
    OBVIOUS
  <2>1. k <= m /\ r[k] = v[k] /\ \A i \in 1 .. k : ts[i] = us[i]
    BY <1>1, <1>6
  <2> DEFINE j == k + 1
  <2>2. j \in 1 .. n /\ j \in 0 .. n /\ j - 1 = k /\ (j = 1 <=> k = 0)
    BY <1>1
  <2> HIDE DEF P, j
  <2>3. r[k] = (IF k = 0 THEN ts[j] \o r[j] ELSE <<Comma>> \o (ts[j] \o r[j]))
    BY <1>2, <2>2
  <2>4. ts[j] \in C /\ ts[j] \in Seq(S) /\ r[j] \in Seq(S) /\ ts[j] # <<>> /\ ts[j][1] # e
    BY <1>1, <1>4, <2>2 DEF IsListed, IsCode
  <2>5. Comma \in S /\ e \in S /\ e # Comma /\ <<e>>[1] = e
    BY DEF IsListed
  <2> DEFINE x == ts[j] \o r[j]
  <2>6. x \in Seq(S) /\ x[1] # e
    <3> DEFINE c == ts[j]
               d == r[j]
    <3>1. c \in Seq(S) /\ d \in Seq(S) /\ c # <<>> /\ c[1] # e
      BY <2>4
    <3> HIDE DEF c, d
    <3>2. Len(c) \in Nat \ {0}
      BY <3>1, EmptySeq
    <3>3. c \o d \in Seq(S) /\ (c \o d)[1] = c[1]
      BY <3>1, <3>2, ConcatHas
    <3> QED BY <3>1, <3>3 DEF c, d
  <2>7. r[k][1] # e
    <3>1. CASE k = 0
      BY <2>3, <2>6, <3>1
    <3>2. CASE k # 0
      <4>1. r[k] = <<Comma>> \o x
        BY <2>3, <3>2
      <4> HIDE DEF x
      <4> QED BY <2>5, <2>6, <4>1, FirstIs
    <3> QED BY <3>1, <3>2
  <2>8. k # m
    BY <1>3, <2>1, <2>5, <2>7
  <2>9. j \in 1 .. m /\ j \in 0 .. m /\ j <= m
    BY <1>1, <2>1, <2>8 DEF j
  <2>10. v[k] = (IF k = 0 THEN us[j] \o v[j] ELSE <<Comma>> \o (us[j] \o v[j]))
    BY <1>3, <2>2, <2>9
  <2>11. us[j] \in C /\ us[j] \in Seq(S) /\ v[j] \in Seq(S)
    BY <1>1, <1>4, <2>9 DEF IsListed, IsCode
  <2> DEFINE y == us[j] \o v[j]
  <2>12. y \in Seq(S)
    BY <2>11, ConcatHas
  <2>13. x = y
    <3>1. CASE k = 0
      BY <2>1, <2>3, <2>10, <3>1, Zenon
    <3>2. CASE k # 0
      <4>1. <<Comma>> \o x = <<Comma>> \o y
        BY <2>1, <2>3, <2>10, <3>2, Zenon
      <4> HIDE DEF x, y
      <4>2. \A c, d \in S, a, b \in Seq(S) : <<c>> \o a = <<d>> \o b => c = d /\ a = b
        BY FirstSame
      <4> QED BY <2>5, <2>6, <2>12, <4>1, <4>2, Zenon
    <3> QED BY <3>1, <3>2
  <2>14. ts[j] = us[j] /\ r[j] = v[j]
    <3>1. \A c, d \in C, a, b \in Seq(S) : c \o a = d \o b => c = d /\ a = b
      BY DEF IsListed, IsCode
    <3> DEFINE c == ts[j]
               d == us[j]
               a == r[j]
               b == v[j]
    <3>2. c \in C /\ d \in C /\ a \in Seq(S) /\ b \in Seq(S)
      BY <2>4, <2>11, Zenon
    <3>3. c \o a = d \o b
      BY <2>13, Zenon
    <3> HIDE DEF c, d, a, b
    <3>4. \A h \in C, f, g \in Seq(S) : c \o f = h \o g => c = h /\ f = g
      BY <3>1, <3>2, Zenon
    <3>5. \A f, g \in Seq(S) : c \o f = d \o g => c = d /\ f = g
      BY <3>2, <3>4, Zenon
    <3>6. \A g \in Seq(S) : c \o a = d \o g => c = d /\ a = g
      BY <3>2, <3>5, Zenon
    <3>7. c = d /\ a = b
      BY <3>2, <3>3, <3>6, Zenon
    <3> QED BY <3>7 DEF c, d, a, b
  <2>15. \A i \in 1 .. j : ts[i] = us[i]
    BY <2>1, <2>14 DEF j
  <2> QED BY <2>9, <2>14, <2>15 DEF j
<1> HIDE DEF P
<1>7. n \in P
  BY <1>1, <1>5, <1>6, NumberInduction
<1> QED BY <1>1, <1>7 DEF P, n, m

LEMMA JoinedApart ==
    ASSUME NEW C, NEW S, NEW e, IsListed(C, S, e), NEW ts \in Seq(C), NEW us \in Seq(C),
           Joined(ts) \o <<e>> = Joined(us) \o <<e>>
    PROVE  ts = us
<1>1. Len(ts) <= Len(us) /\ \A i \in 1 .. Len(ts) : ts[i] = us[i]
  BY JoinedBegins
<1>2. Len(us) <= Len(ts)
  BY JoinedBegins
<1>3. Len(ts) = Len(us)
  BY <1>1, <1>2, LenProperties
<1> QED BY <1>1, <1>3, SameElements

ScalarTexts(A) == {ScalarText(x) : x \in A}
ItemTexts(A, N) == UNION {{ItemText(<<n, x>>) : x \in A} : n \in N}

\* No scalar begins like the end of an array, and no item like that of an
\* object.
LEMMA ScalarBegins ==
    ASSUME NEW A, NEW N, NEW x \in A, IsPlain(x), NEW c \in Marks
    PROVE  ScalarText(x)[1] # Sign(c)
<1>1. ScalarText(x)[1] = IF x[1] = "string" THEN Quote ELSE x
  BY ScalarTextIs
<1>2. Quote # Sign(c)
  BY DEF Quote, Sign, Marks
<1>3. x[1] # "string" => x[1] # "char"
  BY PlainText
<1>4. x[1] # "string" => x # Sign(c)
  BY <1>3 DEF Sign
<1> QED BY <1>1, <1>2, <1>4

LEMMA ScalarsListed ==
    ASSUME NEW A, NEW N, \A x \in A : IsPlain(x)
    PROVE  IsListed(ScalarTexts(A), Signs(A, N), Sign(" ]"))
<1> DEFINE S == Signs(A, N)
           C == ScalarTexts(A)
<1>1. C \subseteq Seq(S) /\ \A c \in C : c # <<>>
  BY ScalarTextIs DEF ScalarTexts
<1>2. \A c \in C : c[1] # Sign(" ]")
  BY ScalarBegins DEF ScalarTexts, Marks
<1>3. \A c, d \in C : \A k, l \in Seq(S) : c \o k = d \o l => c = d /\ k = l
  <2> TAKE c, d \in C
  <2>1. PICK x \in A : c = ScalarText(x)
    BY DEF ScalarTexts
  <2>2. PICK y \in A : d = ScalarText(y)
    BY DEF ScalarTexts
  <2>3. TellApart(x, y, ScalarText(x), ScalarText(y), S)
    BY ScalarApart
  <2>4. TellApart(x, y, c, d, S)
    BY <2>1, <2>2, <2>3
  <2> QED BY <2>1, <2>2, <2>4, Zenon DEF TellApart
<1>4. Comma \in S /\ Sign(" ]") \in S /\ Comma # Sign(" ]")
  BY DEF Comma, Sign, Signs, Marks
<1> QED BY <1>1, <1>2, <1>3, <1>4 DEF IsListed, IsCode

LEMMA FourAre ==
    ASSUME NEW S, NEW a \in S, NEW b \in S, NEW c \in S, NEW d \in S
    PROVE  <<a, b, c, d>> \in Seq(S) /\ Len(<<a, b, c, d>>) = 4 /\ <<a, b, c, d>>[1] = a
OBVIOUS

LEMMA ItemTextIs ==
    ASSUME NEW A, NEW N, NEW n \in N, NEW x \in A, IsPlain(x)
    PROVE  LET h == <<Quote, Sign(n), Quote, Sign(" : ")>>
           IN /\ ItemText(<<n, x>>) = h \o ScalarText(x) /\ h \in Seq(Signs(A, N)) /\ Len(h) = 4
              /\ ItemText(<<n, x>>) \in Seq(Signs(A, N)) /\ ItemText(<<n, x>>) # <<>>
              /\ ItemText(<<n, x>>)[1] = Quote
<1> DEFINE S == Signs(A, N)
           h == <<Quote, Sign(n), Quote, Sign(" : ")>>
           t == ScalarText(x)
<1>1. Quote \in S /\ Sign(n) \in S /\ Sign(" : ") \in S
  BY DEF Quote, Sign, Signs, Marks, Chars
<1>2. t \in Seq(S)
  BY ScalarTextIs
<1>3. ItemText(<<n, x>>) = h \o t
  BY DEF ItemText, Sign
<1> HIDE DEF S, t
<1>4. h \in Seq(S) /\ Len(h) = 4 /\ h[1] = Quote
  <2> DEFINE c == Sign(n)
             d == Sign(" : ")
  <2>1. c \in S /\ d \in S
    BY <1>1
  <2> HIDE DEF c, d
  <2>2. <<Quote, c, Quote, d>> \in Seq(S) /\ Len(<<Quote, c, Quote, d>>) = 4 /\ <<Quote, c, Quote, d>>[1] = Quote
    BY <1>1, <2>1, FourAre
  <2> QED BY <2>2, Zenon DEF c, d
<1> HIDE DEF h
<1>5. h \o t \in Seq(S) /\ Len(h \o t) = 4 + Len(t) /\ (h \o t)[1] = h[1]
  <2>1. h \o t \in Seq(S) /\ Len(h \o t) = Len(h) + Len(t) /\ \A i \in 1 .. Len(h) : (h \o t)[i] = h[i]
    <3>1. h \in Seq(S) /\ t \in Seq(S)
      BY <1>2, <1>4
    <3>2. h \o t \in Seq(S) /\ Len(h \o t) = Len(h) + Len(t)
      BY <3>1, ConcatHas, ZenonT(30)
    <3>3. \A i \in 1 .. Len(h) : (h \o t)[i] = h[i]
      BY <3>1, ConcatHas, ZenonT(30)
    <3> QED BY <3>2, <3>3
  <2> QED BY <1>4, <2>1
<1>6. h \o t # <<>>
  BY <1>2, <1>5, LenProperties, EmptySeq
<1> QED BY <1>3, <1>4, <1>5, <1>6 DEF S, h, t

\* Heads of the same length, each before a text and what follows it.
CanBeCut(h, g, S) ==
    \A t, a \in Seq(S) : \A u, b \in Seq(S) :
        (h \o t) \o a = (g \o u) \o b => h = g /\ t \o a = u \o b

LEMMA HeadsSame ==
    ASSUME NEW S, NEW h \in Seq(S), NEW g \in Seq(S), Len(h) = Len(g)
    PROVE  CanBeCut(h, g, S)
<1> SUFFICES \A t, a \in Seq(S) : \A u, b \in Seq(S) :
                (h \o t) \o a = (g \o u) \o b => h = g /\ t \o a = u \o b
  BY DEF CanBeCut
<1>1. \A t, a \in Seq(S) : (h \o t) \o a = h \o (t \o a)
  BY Associates
<1>2. \A t, a \in Seq(S) : (g \o t) \o a = g \o (t \o a)
  BY Associates
<1>3. \A x, y \in Seq(S) : h \o x = g \o y => h = g /\ x = y
  BY ConcatSame
<1>4. \A x, y \in Seq(S) : x \o y \in Seq(S)
  BY ConcatHas
<1> TAKE t, a \in Seq(S)
<1> TAKE u, b \in Seq(S)
<1>5. HAVE (h \o t) \o a = (g \o u) \o b
<1> DEFINE x == t \o a
           y == u \o b
<1>6. x \in Seq(S) /\ y \in Seq(S)
  BY <1>4, Zenon
<1>7. (h \o t) \o a = h \o x
  BY <1>1, Zenon
<1>8. (g \o u) \o b = g \o y
  BY <1>2, Zenon
<1>9. h \o x = g \o y
  BY <1>5, <1>7, <1>8, Zenon
<1> HIDE DEF x, y
<1>10. h = g /\ x = y
  BY <1>3, <1>6, <1>9, Zenon
<1> QED BY <1>10, Zenon DEF x, y

LEMMA ItemApart ==
    ASSUME NEW A, NEW N, NEW n \in N, NEW m \in N, NEW x \in A, NEW y \in A, IsPlain(x), IsPlain(y)
    PROVE  TellApart(<<n, x>>, <<m, y>>, ItemText(<<n, x>>), ItemText(<<m, y>>), Signs(A, N))
<1>0. SUFFICES ASSUME NEW a \in Seq(Signs(A, N)), NEW b \in Seq(Signs(A, N)),
                    ItemText(<<n, x>>) \o a = ItemText(<<m, y>>) \o b
             PROVE  n = m /\ x = y /\ a = b
  BY DEF TellApart
<1> DEFINE S == Signs(A, N)
           h == <<Quote, Sign(n), Quote, Sign(" : ")>>
           g == <<Quote, Sign(m), Quote, Sign(" : ")>>
           t == ScalarText(x)
           u == ScalarText(y)
<1>1. ItemText(<<n, x>>) = h \o t /\ h \in Seq(S) /\ Len(h) = 4 /\ t \in Seq(S)
  BY ItemTextIs, ScalarTextIs
<1>2. ItemText(<<m, y>>) = g \o u /\ g \in Seq(S) /\ Len(g) = 4 /\ u \in Seq(S)
  BY ItemTextIs, ScalarTextIs
<1>3. h[2] = Sign(n) /\ g[2] = Sign(m)
  OBVIOUS
<1>6. h = g /\ t \o a = u \o b
  <2> HIDE DEF S, h, g, t, u
  <2>1. a \in Seq(S) /\ b \in Seq(S)
    BY DEF S
  <2>2. (h \o t) \o a = (g \o u) \o b
    BY <1>0, <1>1, <1>2, Zenon
  <2>4. h \in Seq(S) /\ g \in Seq(S) /\ Len(h) = Len(g)
    BY <1>1, <1>2
  <2>3. \A t1, a1 \in Seq(S) : \A u1, b1 \in Seq(S) :
           (h \o t1) \o a1 = (g \o u1) \o b1 => h = g /\ t1 \o a1 = u1 \o b1
    <3>1. CanBeCut(h, g, S)
      BY <2>4, HeadsSame
    <3> QED BY <3>1, Zenon DEF CanBeCut
  <2>5. \A u1, b1 \in Seq(S) : (h \o t) \o a = (g \o u1) \o b1 => h = g /\ t \o a = u1 \o b1
    BY <1>1, <2>1, <2>3, Zenon
  <2> QED BY <1>2, <2>1, <2>2, <2>5, Zenon
<1>7. n = m
  <2> HIDE DEF h, g
  <2> QED BY <1>3, <1>6 DEF Sign
<1>8. TellApart(x, y, t, u, S)
  BY ScalarApart
<1> QED BY <1>6, <1>7, <1>8, Zenon DEF TellApart

LEMMA ItemsListed ==
    ASSUME NEW A, NEW N, \A x \in A : IsPlain(x)
    PROVE  IsListed(ItemTexts(A, N), Signs(A, N), Sign(" }"))
<1> DEFINE S == Signs(A, N)
           C == ItemTexts(A, N)
<1>1. ASSUME NEW c \in C PROVE c \in Seq(S) /\ c # <<>> /\ c[1] # Sign(" }")
  <2>1. PICK n \in N, x \in A : c = ItemText(<<n, x>>)
    BY DEF ItemTexts
  <2>2. c \in Seq(S) /\ c # <<>> /\ c[1] = Quote
    BY <2>1, ItemTextIs
  <2>3. Quote # Sign(" }")
    BY DEF Quote, Sign
  <2> QED BY <2>2, <2>3
<1>4. \A c, d \in C : \A k, l \in Seq(S) : c \o k = d \o l => c = d /\ k = l
  <2> TAKE c, d \in C
  <2>1. PICK n \in N, x \in A : c = ItemText(<<n, x>>)
    BY DEF ItemTexts
  <2>2. PICK m \in N, y \in A : d = ItemText(<<m, y>>)
    BY DEF ItemTexts
  <2>3. TellApart(<<n, x>>, <<m, y>>, ItemText(<<n, x>>), ItemText(<<m, y>>), S)
    BY ItemApart
  <2>4. TellApart(<<n, x>>, <<m, y>>, c, d, S)
    BY <2>1, <2>2, <2>3
  <2> QED BY <2>1, <2>2, <2>4, Zenon DEF TellApart
<1>3. Comma \in S /\ Sign(" }") \in S /\ Comma # Sign(" }")
  BY DEF Comma, Sign, Signs, Marks
<1> QED BY <1>1, <1>3, <1>4 DEF IsListed, IsCode

\* A list is told from its text in brackets.
Listed(b, ts, e) == <<b>> \o Joined(ts) \o <<e>>

LEMMA ListedIs ==
    ASSUME NEW C, NEW S, NEW e, IsListed(C, S, e), NEW b \in S, NEW ts \in Seq(C)
    PROVE  /\ Joined(ts) \o <<e>> \in Seq(S)
           /\ Listed(b, ts, e) = <<b>> \o (Joined(ts) \o <<e>>)
<1> DEFINE j == Joined(ts)
           end == <<e>>
           x == j \o end
<1>1. j \in Seq(S)
  <2>1. Parts(ts) \in Seq(Seq(S)) /\ j = FlattenSeq(Parts(ts))
    BY PartsAre DEF IsListed, IsCode
  <2> QED BY <2>1, FlattenType
<1>2. end \in Seq(S) /\ <<b>> \in Seq(S)
  BY DEF IsListed
<1>3. Listed(b, ts, e) = (<<b>> \o j) \o end
  BY DEF Listed
<1> HIDE DEF j, end
<1>4. x \in Seq(S)
  BY <1>1, <1>2, ConcatHas
<1>5. (<<b>> \o j) \o end = <<b>> \o x
  BY <1>1, <1>2, ConcatAssociative
<1> HIDE DEF x
<1>6. Listed(b, ts, e) = <<b>> \o x
  BY <1>3, <1>5, Zenon
<1> QED BY <1>4, <1>6 DEF x, j, end

LEMMA ListedBegins ==
    ASSUME NEW C, NEW S, NEW e, IsListed(C, S, e)
    PROVE  \A b \in S, ts \in Seq(C) : Listed(b, ts, e)[1] = b
<1> TAKE b \in S, ts \in Seq(C)
<1> DEFINE x == Joined(ts) \o <<e>>
<1>1. x \in Seq(S) /\ Listed(b, ts, e) = <<b>> \o x
  BY ListedIs
<1> HIDE DEF x
<1> QED BY <1>1, FirstIs

LEMMA ListedApart ==
    ASSUME NEW C, NEW S, NEW e, IsListed(C, S, e), NEW b \in S, NEW ts \in Seq(C), NEW us \in Seq(C),
           Listed(b, ts, e) = Listed(b, us, e)
    PROVE  ts = us
<1> DEFINE x == Joined(ts) \o <<e>>
           y == Joined(us) \o <<e>>
<1>1. x \in Seq(S) /\ Listed(b, ts, e) = <<b>> \o x
  BY ListedIs
<1>2. y \in Seq(S) /\ Listed(b, us, e) = <<b>> \o y
  BY ListedIs
<1> HIDE DEF x, y
<1>3. <<b>> \o x = <<b>> \o y
  BY <1>1, <1>2, Zenon
<1>4. \A c, d \in S, k, l \in Seq(S) : <<c>> \o k = <<d>> \o l => c = d /\ k = l
  BY FirstSame
<1>5. x = y
  BY <1>1, <1>2, <1>3, <1>4, Zenon
<1>6. Joined(ts) \o <<e>> = Joined(us) \o <<e>>
  BY <1>5, Zenon DEF x, y
<1> QED BY <1>6, JoinedApart

\* Two scalars that are told apart have different texts.
LEMMA ApartByText ==
    ASSUME NEW S, NEW x, NEW y, NEW c, TellApart(x, y, c, c, S)
    PROVE  x = y
<1>1. <<>> \in Seq(S) /\ c \o <<>> = c \o <<>>
  OBVIOUS
<1> QED BY <1>1 DEF TellApart

ScalarsText(xs) == [i \in DOMAIN xs |-> ScalarText(xs[i])]
ItemsText(ms) == [i \in DOMAIN ms |-> ItemText(ms[i])]

LEMMA ScalarsTextIs ==
    ASSUME NEW A, NEW xs \in Seq(A)
    PROVE  /\ ScalarsText(xs) \in Seq(ScalarTexts(A)) /\ Len(ScalarsText(xs)) = Len(xs)
           /\ \A i \in 1 .. Len(xs) : ScalarsText(xs)[i] = ScalarText(xs[i]) /\ xs[i] \in A
<1>1. Len(xs) \in Nat /\ DOMAIN xs = 1 .. Len(xs) /\ \A i \in 1 .. Len(xs) : xs[i] \in A
  BY LenProperties, ElementOfSeq
<1>2. \A i \in 1 .. Len(xs) : ScalarText(xs[i]) \in ScalarTexts(A)
  BY <1>1 DEF ScalarTexts
<1>3. ScalarsText(xs) = [i \in 1 .. Len(xs) |-> ScalarText(xs[i])]
  BY <1>1 DEF ScalarsText
<1> QED BY <1>1, <1>2, <1>3

LEMMA ArraysApart ==
    ASSUME NEW A, \A x \in A : IsPlain(x), NEW xs \in Seq(A), NEW ys \in Seq(A),
           Listed(Sign("[ "), ScalarsText(xs), Sign(" ]")) = Listed(Sign("[ "), ScalarsText(ys), Sign(" ]"))
    PROVE  xs = ys
<1> DEFINE S == Signs(A, {})
           C == ScalarTexts(A)
<1>1. /\ ScalarsText(xs) \in Seq(C) /\ Len(ScalarsText(xs)) = Len(xs)
      /\ \A i \in 1 .. Len(xs) : ScalarsText(xs)[i] = ScalarText(xs[i]) /\ xs[i] \in A
  BY ScalarsTextIs
<1>2. /\ ScalarsText(ys) \in Seq(C) /\ Len(ScalarsText(ys)) = Len(ys)
      /\ \A i \in 1 .. Len(ys) : ScalarsText(ys)[i] = ScalarText(ys[i]) /\ ys[i] \in A
  BY ScalarsTextIs
<1>3. IsListed(C, S, Sign(" ]")) /\ Sign("[ ") \in S
  BY ScalarsListed DEF Sign, Signs, Marks
<1> HIDE DEF C, S
<1>4. ScalarsText(xs) = ScalarsText(ys)
  BY <1>1, <1>2, <1>3, ListedApart
<1>5. ASSUME NEW i \in 1 .. Len(xs) PROVE xs[i] = ys[i]
  <2>1. ScalarText(xs[i]) = ScalarText(ys[i]) /\ xs[i] \in A /\ ys[i] \in A
    BY <1>1, <1>2, <1>4
  <2>2. TellApart(xs[i], ys[i], ScalarText(xs[i]), ScalarText(ys[i]), S)
    BY <2>1, ScalarApart DEF S
  <2> QED BY <2>1, <2>2, ApartByText
<1>6. Len(xs) = Len(ys)
  BY <1>1, <1>2, <1>4
<1> QED BY <1>5, <1>6, SameElements

LEMMA ItemsTextIs ==
    ASSUME NEW A, NEW N, NEW ms \in Seq(N \X A)
    PROVE  /\ ItemsText(ms) \in Seq(ItemTexts(A, N)) /\ Len(ItemsText(ms)) = Len(ms)
           /\ \A i \in 1 .. Len(ms) : /\ ItemsText(ms)[i] = ItemText(<<ms[i][1], ms[i][2]>>)
                                      /\ ms[i] = <<ms[i][1], ms[i][2]>> /\ ms[i][1] \in N /\ ms[i][2] \in A
<1>1. Len(ms) \in Nat /\ DOMAIN ms = 1 .. Len(ms) /\ \A i \in 1 .. Len(ms) : ms[i] \in N \X A
  BY LenProperties, ElementOfSeq
<1>2. \A i \in 1 .. Len(ms) : ms[i] = <<ms[i][1], ms[i][2]>> /\ ms[i][1] \in N /\ ms[i][2] \in A
  BY <1>1
<1>6. \A n \in N, x \in A : ItemText(<<n, x>>) \in ItemTexts(A, N)
  <2> DEFINE T(n) == {ItemText(<<n, x>>) : x \in A}
  <2>1. \A n \in N, x \in A : ItemText(<<n, x>>) \in T(n)
    OBVIOUS
  <2>2. ItemTexts(A, N) = UNION {T(n) : n \in N}
    BY DEF ItemTexts
  <2> HIDE DEF T
  <2> QED BY <2>1, <2>2
<1>3. \A i \in 1 .. Len(ms) : ItemText(ms[i]) \in ItemTexts(A, N)
  <2> TAKE i \in 1 .. Len(ms)
  <2> DEFINE n == ms[i][1]
             x == ms[i][2]
  <2>1. ms[i] = <<n, x>> /\ n \in N /\ x \in A
    BY <1>2
  <2> HIDE DEF n, x
  <2> QED BY <1>6, <2>1
<1>4. ItemsText(ms) = [i \in 1 .. Len(ms) |-> ItemText(ms[i])]
  BY <1>1 DEF ItemsText
<1>5. /\ ItemsText(ms) \in Seq(ItemTexts(A, N)) /\ Len(ItemsText(ms)) = Len(ms)
      /\ \A i \in 1 .. Len(ms) : ItemsText(ms)[i] = ItemText(ms[i])
  BY <1>1, <1>3, <1>4
<1> QED BY <1>2, <1>5

LEMMA ObjectsApart ==
    ASSUME NEW A, NEW N, \A x \in A : IsPlain(x), NEW ms \in Seq(N \X A), NEW ns \in Seq(N \X A),
           Listed(Sign("{ "), ItemsText(ms), Sign(" }")) = Listed(Sign("{ "), ItemsText(ns), Sign(" }"))
    PROVE  ms = ns
<1> DEFINE S == Signs(A, N)
           C == ItemTexts(A, N)
<1>1. /\ ItemsText(ms) \in Seq(C) /\ Len(ItemsText(ms)) = Len(ms)
      /\ \A i \in 1 .. Len(ms) : /\ ItemsText(ms)[i] = ItemText(<<ms[i][1], ms[i][2]>>)
                                 /\ ms[i] = <<ms[i][1], ms[i][2]>> /\ ms[i][1] \in N /\ ms[i][2] \in A
  BY ItemsTextIs
<1>2. /\ ItemsText(ns) \in Seq(C) /\ Len(ItemsText(ns)) = Len(ns)
      /\ \A i \in 1 .. Len(ns) : /\ ItemsText(ns)[i] = ItemText(<<ns[i][1], ns[i][2]>>)
                                 /\ ns[i] = <<ns[i][1], ns[i][2]>> /\ ns[i][1] \in N /\ ns[i][2] \in A
  BY ItemsTextIs
<1>3. IsListed(C, S, Sign(" }")) /\ Sign("{ ") \in S
  BY ItemsListed DEF Sign, Signs, Marks
<1> HIDE DEF C, S
<1>4. ItemsText(ms) = ItemsText(ns)
  BY <1>1, <1>2, <1>3, ListedApart
<1>5. Len(ms) = Len(ns)
  BY <1>1, <1>2, <1>4
<1>6. ASSUME NEW i \in 1 .. Len(ms) PROVE ms[i] = ns[i]
  <2> DEFINE n == ms[i][1]
             m == ns[i][1]
             x == ms[i][2]
             y == ns[i][2]
  <2>1. n \in N /\ m \in N /\ x \in A /\ y \in A
    BY <1>1, <1>2, <1>5
  <2>2. ms[i] = <<n, x>> /\ ns[i] = <<m, y>> /\ ItemText(<<n, x>>) = ItemText(<<m, y>>)
    BY <1>1, <1>2, <1>4, <1>5
  <2> HIDE DEF n, m, x, y
  <2>3. TellApart(<<n, x>>, <<m, y>>, ItemText(<<n, x>>), ItemText(<<m, y>>), S)
    BY <2>1, ItemApart DEF S
  <2>4. <<n, x>> = <<m, y>>
    BY <2>2, <2>3, ApartByText
  <2> QED BY <2>2, <2>4
<1> QED BY <1>5, <1>6, SameElements

\* The kinds of values, by what their texts begin with.
LEMMA InputIsPlain ==
    ASSUME NEW v, IsInput(v), Plain(v), v[1] \notin {"array", "object"}
    PROVE  IsPlain(v) /\ Text(v) = ScalarText(v)
BY DEF IsInput, IsValue, Plain, IsPlain, Text

LEMMA ArrayIsPlain ==
    ASSUME NEW v, IsInput(v), Plain(v), v[1] = "array"
    PROVE  /\ v = <<"array", v[2]>> /\ v[2] \in Seq(Range(v[2])) /\ \A x \in Range(v[2]) : IsPlain(x)
           /\ Text(v) = Listed(Sign("[ "), ScalarsText(v[2]), Sign(" ]"))
<1>1. v = <<"array", v[2]>> /\ v[2] \in Seq(Range(v[2]))
  BY DEF IsInput, Paired
<1>2. \A i \in DOMAIN v[2] : IsPlain(v[2][i])
  BY DEF IsInput, IsValue, Plain, IsPlain
<1>3. \A x \in Range(v[2]) : IsPlain(x)
  BY <1>2 DEF Range
<1>4. Text(v) = Listed(Sign("[ "), ScalarsText(v[2]), Sign(" ]"))
  BY DEF Text, Listed, ScalarsText, Sign
<1> QED BY <1>1, <1>3, <1>4

NamesOf(ms) == {ms[i][1] : i \in DOMAIN ms}
ValuesOf(ms) == {ms[i][2] : i \in DOMAIN ms}

LEMMA ObjectIsPlain ==
    ASSUME NEW v, IsInput(v), Plain(v), v[1] = "object"
    PROVE  /\ v = <<"object", v[2]>> /\ v[2] \in Seq(NamesOf(v[2]) \X ValuesOf(v[2]))
           /\ \A x \in ValuesOf(v[2]) : IsPlain(x)
           /\ Text(v) = Listed(Sign("{ "), ItemsText(v[2]), Sign(" }"))
<1>1. v = <<"object", v[2]>> /\ v[2] \in Seq(Range(v[2]))
  BY DEF IsInput, Typed, Paired
<1>2. \A i \in DOMAIN v[2] : IsPlain(v[2][i][2])
  BY DEF IsInput, IsValue, Plain, IsPlain
<1>3. \A x \in ValuesOf(v[2]) : IsPlain(x)
  BY <1>2 DEF ValuesOf
<1>4. Text(v) = Listed(Sign("{ "), ItemsText(v[2]), Sign(" }"))
  BY DEF Text, Listed, ItemsText, Sign
<1>5. \A i \in DOMAIN v[2] : v[2][i] = <<v[2][i][1], v[2][i][2]>>
  BY DEF IsInput, Paired
<1> DEFINE ms == v[2]
<1>6. ms \in Seq(NamesOf(ms) \X ValuesOf(ms))
  <2>1. ms \in Seq(Range(ms)) /\ \A i \in DOMAIN ms : ms[i] = <<ms[i][1], ms[i][2]>>
    BY <1>1, <1>5
  <2> HIDE DEF ms
  <2>2. Len(ms) \in Nat /\ DOMAIN ms = 1 .. Len(ms) /\ ms = [i \in 1 .. Len(ms) |-> ms[i]]
    BY <2>1, LenProperties
  <2>3. \A i \in 1 .. Len(ms) : ms[i] \in NamesOf(ms) \X ValuesOf(ms)
    <3>1. \A i \in 1 .. Len(ms) : ms[i][1] \in NamesOf(ms) /\ ms[i][2] \in ValuesOf(ms)
      BY <2>2 DEF NamesOf, ValuesOf
    <3> TAKE i \in 1 .. Len(ms)
    <3> DEFINE n == ms[i][1]
               x == ms[i][2]
    <3>2. ms[i] = <<n, x>>
      BY <2>1, <2>2
    <3>3. n \in NamesOf(ms) /\ x \in ValuesOf(ms)
      BY <3>1
    <3> HIDE DEF n, x
    <3> QED BY <3>2, <3>3
  <2> QED BY <2>2, <2>3
<1> QED BY <1>1, <1>3, <1>4, <1>6

BeginsAsItsKind(v) ==
    CASE v[1] = "array" -> Text(v)[1] = Sign("[ ")
      [] v[1] = "object" -> Text(v)[1] = Sign("{ ")
      [] OTHER -> \A c \in Marks : Text(v)[1] # Sign(c)

LEMMA TextBegins ==
    ASSUME NEW v, IsInput(v), Plain(v)
    PROVE  BeginsAsItsKind(v)
<1>1. CASE v[1] = "array"
  <2> DEFINE A == Range(v[2])
             ts == ScalarsText(v[2])
  <2>1. v[2] \in Seq(A) /\ (\A x \in A : IsPlain(x)) /\ Text(v) = Listed(Sign("[ "), ts, Sign(" ]"))
    BY <1>1, ArrayIsPlain
  <2>2. IsListed(ScalarTexts(A), Signs(A, {}), Sign(" ]")) /\ Sign("[ ") \in Signs(A, {})
    BY <2>1, ScalarsListed DEF Sign, Signs, Marks
  <2>3. ts \in Seq(ScalarTexts(A))
    BY <2>1, ScalarsTextIs
  <2> DEFINE C == ScalarTexts(A)
             S == Signs(A, {})
  <2> HIDE DEF A, ts, C, S
  <2>4. Listed(Sign("[ "), ts, Sign(" ]"))[1] = Sign("[ ")
    <3>1. IsListed(C, S, Sign(" ]")) /\ Sign("[ ") \in S /\ ts \in Seq(C)
      BY <2>2, <2>3 DEF C, S
    <3>2. \A b \in S, us \in Seq(C) : Listed(b, us, Sign(" ]"))[1] = b
      BY <3>1, ListedBegins
    <3> QED BY <3>1, <3>2, Zenon
  <2> QED BY <1>1, <2>1, <2>4 DEF BeginsAsItsKind
<1>2. CASE v[1] = "object"
  <2> DEFINE A == ValuesOf(v[2])
             N == NamesOf(v[2])
             ts == ItemsText(v[2])
  <2>1. v[2] \in Seq(N \X A) /\ (\A x \in A : IsPlain(x)) /\ Text(v) = Listed(Sign("{ "), ts, Sign(" }"))
    BY <1>2, ObjectIsPlain
  <2>2. IsListed(ItemTexts(A, N), Signs(A, N), Sign(" }")) /\ Sign("{ ") \in Signs(A, N)
    BY <2>1, ItemsListed DEF Sign, Signs, Marks
  <2>3. ts \in Seq(ItemTexts(A, N))
    BY <2>1, ItemsTextIs
  <2> DEFINE C == ItemTexts(A, N)
             S == Signs(A, N)
  <2> HIDE DEF A, N, ts, C, S
  <2>4. Listed(Sign("{ "), ts, Sign(" }"))[1] = Sign("{ ")
    <3>1. IsListed(C, S, Sign(" }")) /\ Sign("{ ") \in S /\ ts \in Seq(C)
      BY <2>2, <2>3 DEF C, S
    <3>2. \A b \in S, us \in Seq(C) : Listed(b, us, Sign(" }"))[1] = b
      BY <3>1, ListedBegins
    <3> QED BY <3>1, <3>2, Zenon
  <2> QED BY <1>2, <2>1, <2>4 DEF BeginsAsItsKind
<1>3. CASE v[1] \notin {"array", "object"}
  <2>1. IsPlain(v) /\ Text(v) = ScalarText(v) /\ v \in {v}
    BY <1>3, InputIsPlain
  <2>2. \A c \in Marks : ScalarText(v)[1] # Sign(c)
    BY <2>1, ScalarBegins
  <2> QED BY <1>3, <2>1, <2>2 DEF BeginsAsItsKind
<1> QED BY <1>1, <1>2, <1>3

LEMMA WiderSeq ==
    ASSUME NEW A, NEW B, A \subseteq B, NEW s \in Seq(A)
    PROVE  s \in Seq(B)
<1>1. Len(s) \in Nat /\ s = [i \in 1 .. Len(s) |-> s[i]] /\ \A i \in 1 .. Len(s) : s[i] \in B
  BY LenProperties, ElementOfSeq
<1> QED BY <1>1

LEMMA TextsTellApart ==
    ASSUME NEW v, NEW w, IsInput(v), IsInput(w), Plain(v), Plain(w), SameText(v, w)
    PROVE  v = w
<1>1. Text(v) = Text(w)
  BY DEF SameText
<1>2. Sign("[ ") # Sign("{ ") /\ "[ " \in Marks /\ "{ " \in Marks
  BY DEF Sign, Marks
<1>3. (v[1] = "array" <=> w[1] = "array") /\ (v[1] = "object" <=> w[1] = "object")
  <2>1. BeginsAsItsKind(v) /\ BeginsAsItsKind(w)
    BY TextBegins
  <2> QED BY <1>1, <1>2, <2>1 DEF BeginsAsItsKind
<1>4. CASE v[1] = "array"
  <2> DEFINE xs == v[2]
             ys == w[2]
             A == Range(xs) \cup Range(ys)
  <2>1. /\ v = <<"array", xs>> /\ xs \in Seq(Range(xs)) /\ \A x \in Range(xs) : IsPlain(x)
        /\ Text(v) = Listed(Sign("[ "), ScalarsText(xs), Sign(" ]"))
    BY <1>4, ArrayIsPlain
  <2>2. /\ w = <<"array", ys>> /\ ys \in Seq(Range(ys)) /\ \A x \in Range(ys) : IsPlain(x)
        /\ Text(w) = Listed(Sign("[ "), ScalarsText(ys), Sign(" ]"))
    BY <1>3, <1>4, ArrayIsPlain
  <2> HIDE DEF xs, ys
  <2>3. xs \in Seq(A) /\ ys \in Seq(A) /\ \A x \in A : IsPlain(x)
    BY <2>1, <2>2, WiderSeq
  <2>4. xs = ys
    <3> HIDE DEF A
    <3>1. Listed(Sign("[ "), ScalarsText(xs), Sign(" ]")) = Listed(Sign("[ "), ScalarsText(ys), Sign(" ]"))
      BY <1>1, <2>1, <2>2, Zenon
    <3> QED BY <2>3, <3>1, ArraysApart
  <2> QED BY <2>1, <2>2, <2>4
<1>5. CASE v[1] = "object"
  <2> DEFINE ms == v[2]
             ns == w[2]
             A == ValuesOf(ms) \cup ValuesOf(ns)
             N == NamesOf(ms) \cup NamesOf(ns)
  <2>1. /\ v = <<"object", ms>> /\ ms \in Seq(NamesOf(ms) \X ValuesOf(ms))
        /\ \A x \in ValuesOf(ms) : IsPlain(x)
        /\ Text(v) = Listed(Sign("{ "), ItemsText(ms), Sign(" }"))
    BY <1>5, ObjectIsPlain
  <2>2. /\ w = <<"object", ns>> /\ ns \in Seq(NamesOf(ns) \X ValuesOf(ns))
        /\ \A x \in ValuesOf(ns) : IsPlain(x)
        /\ Text(w) = Listed(Sign("{ "), ItemsText(ns), Sign(" }"))
    BY <1>3, <1>5, ObjectIsPlain
  <2> HIDE DEF ms, ns
  <2>3. ms \in Seq(N \X A) /\ ns \in Seq(N \X A) /\ \A x \in A : IsPlain(x)
    <3>1. NamesOf(ms) \X ValuesOf(ms) \subseteq N \X A /\ NamesOf(ns) \X ValuesOf(ns) \subseteq N \X A
      OBVIOUS
    <3>2. \A x \in A : IsPlain(x)
      BY <2>1, <2>2
    <3> HIDE DEF N, A
    <3> QED BY <2>1, <2>2, <3>1, <3>2, WiderSeq
  <2>4. ms = ns
    <3> HIDE DEF A, N
    <3>1. Listed(Sign("{ "), ItemsText(ms), Sign(" }")) = Listed(Sign("{ "), ItemsText(ns), Sign(" }"))
      BY <1>1, <2>1, <2>2, Zenon
    <3> QED BY <2>3, <3>1, ObjectsApart
  <2> QED BY <2>1, <2>2, <2>4
<1>6. CASE v[1] \notin {"array", "object"}
  <2> DEFINE A == {v, w}
  <2>1. IsPlain(v) /\ Text(v) = ScalarText(v) /\ IsPlain(w) /\ Text(w) = ScalarText(w)
    BY <1>3, <1>6, InputIsPlain
  <2>2. v \in A /\ w \in A
    OBVIOUS
  <2>3. TellApart(v, w, ScalarText(v), ScalarText(w), Signs(A, {}))
    BY <2>1, <2>2, ScalarApart
  <2>4. ScalarText(v) = ScalarText(w)
    BY <1>1, <2>1, Zenon
  <2> QED BY <2>3, <2>4, ApartByText
<1> QED BY <1>4, <1>5, <1>6

\* EqualMeansSame: operator==, which compares the texts, takes two values of
\* the object for equal only if they are the same, of the same type, names,
\* order and elements, however many there are, unless a string has a quote in
\* it or a real more than six digits.
THEOREM EqualValuesAreSame == Spec => []EqualMeansSame
<1>1. TypeInv => EqualMeansSame
  <2> SUFFICES ASSUME TypeInv, NEW r \in Refs, NEW q \in Refs, IsLive(r), IsLive(q),
                      Plain(ValueOf(r)), Plain(ValueOf(q)), SameText(ValueOf(r), ValueOf(q))
               PROVE  ValueOf(r) = ValueOf(q)
    BY DEF EqualMeansSame
  <2>1. IsInput(ValueOf(r)) /\ IsInput(ValueOf(q))
    BY DEF TypeInv, Inv, RefsOK, IsFirst, MembersGiven, ValueOf
  <2> QED BY <2>1, TextsTellApart
<1> QED BY <1>1, TypeInvHolds, PTL

-----------------------------------------------------------------------------
\* Strings that are escaped and read again.

\* The run of backslashes before place i of t is of even length.
SlashesBefore(t, i) == {j \in 1 .. i - 1 : \A l \in j .. i - 1 : t[l] = "slash"}
IsEven(t, i) == Cardinality(SlashesBefore(t, i)) % 2 = 0

LEMMA NoSlash ==
    ASSUME NEW t, NEW i \in Nat \ {0}, i = 1 \/ t[i - 1] # "slash"
    PROVE  IsEven(t, i)
<1>1. SlashesBefore(t, i) = {}
  BY DEF SlashesBefore
<1>2. Cardinality({}) = 0
  BY FS_EmptySet
<1> QED BY <1>1, <1>2 DEF IsEven

LEMMA SlashTurns ==
    ASSUME NEW t, NEW i \in Nat \ {0}, t[i] = "slash"
    PROVE  IsEven(t, i + 1) <=> ~IsEven(t, i)
<1> DEFINE A == SlashesBefore(t, i)
           B == SlashesBefore(t, i + 1)
<1>1. B = A \cup {i} /\ i \notin A /\ A \subseteq 1 .. i
  BY DEF SlashesBefore
<1> HIDE DEF A, B
<1>2. IsFiniteSet(A)
  <2>1. IsFiniteSet(1 .. i)
    BY FS_Interval
  <2> QED BY <1>1, <2>1, FS_Subset
<1>3. Cardinality(A) \in Nat /\ Cardinality(B) = Cardinality(A) + 1
  BY <1>1, <1>2, FS_CardinalityType, FS_AddElement
<1>4. \A n \in Nat : (n + 1) % 2 = 0 <=> ~(n % 2 = 0)
  OBVIOUS
<1> QED BY <1>3, <1>4 DEF IsEven, A, B

LEMMA SameRun ==
    ASSUME NEW t, NEW u, NEW i \in Nat \ {0}, \A l \in 1 .. i - 1 : t[l] = u[l]
    PROVE  IsEven(t, i) <=> IsEven(u, i)
<1>1. SlashesBefore(t, i) = SlashesBefore(u, i)
  BY DEF SlashesBefore
<1> QED BY <1>1 DEF IsEven

\* No quote of t ends it, and none of its backslashes is for what follows.
IsEscaped(t) ==
    /\ IsEven(t, Len(t) + 1)
    /\ \A i \in 1 .. Len(t) : t[i] = "quote" => ~IsEven(t, i)

\* What escape_string makes of one character.
Block(c) == CASE c = "newline" -> <<"slash", "n">>
              [] c \in {"quote", "slash"} -> <<"slash", c>>
              [] OTHER -> <<c>>

LEMMA BlockIs ==
    ASSUME NEW c \in Chars
    PROVE  /\ Block(c) \in Seq(Chars)
           /\ c \in {"x", "n"} => Len(Block(c)) = 1 /\ Block(c)[1] = c
           /\ c \notin {"x", "n"} => /\ Len(Block(c)) = 2 /\ Block(c)[1] = "slash"
                                     /\ Block(c)[2] = IF c = "newline" THEN "n" ELSE c
<1>1. c \in {"x", "n"} \cup {"newline", "quote", "slash"}
  BY DEF Chars
<1>2. CASE c \in {"x", "n"}
  BY <1>2 DEF Block
<1>3. CASE c \in {"newline", "quote", "slash"}
  <2> DEFINE d == IF c = "newline" THEN "n" ELSE c
  <2>1. Block(c) = <<"slash", d>>
    BY <1>3 DEF Block
  <2>2. "slash" \in Chars /\ d \in Chars
    BY DEF Chars
  <2> HIDE DEF d
  <2>3. Block(c) \in Seq(Chars) /\ Len(Block(c)) = 2 /\ Block(c)[1] = "slash" /\ Block(c)[2] = d
    BY <2>1, <2>2
  <2> QED BY <1>3, <2>3 DEF d
<1> QED BY <1>1, <1>2, <1>3

LEMMA EscapedGrows ==
    ASSUME NEW t \in Seq(Chars), IsEscaped(t), NEW c \in Chars
    PROVE  IsEscaped(t \o Block(c))
<1> DEFINE b == Block(c)
           u == t \o b
           n == Len(t)
<1>1. b \in Seq(Chars)
  BY BlockIs
<1>2. n \in Nat
  BY LenProperties
<1> HIDE DEF b
<1>3. Len(u) = n + Len(b) /\ (\A i \in 1 .. n : u[i] = t[i]) /\ \A i \in 1 .. Len(b) : u[n + i] = b[i]
  BY <1>1, ConcatHas
<1> HIDE DEF u
<1>4. IsEven(u, n + 1)
  BY <1>2, <1>3, SameRun DEF IsEscaped, n
<1>5. ASSUME NEW i \in 1 .. n, u[i] = "quote" PROVE ~IsEven(u, i)
  <2>1. ~IsEven(t, i)
    BY <1>3, <1>5 DEF IsEscaped
  <2>2. i \in Nat \ {0} /\ \A l \in 1 .. i - 1 : t[l] = u[l]
    BY <1>2, <1>3
  <2> QED BY <2>1, <2>2, SameRun
<1> HIDE DEF n
<1>6. CASE c \in {"x", "n"}
  <2>1. Len(u) = n + 1 /\ u[n + 1] = c
    BY <1>3, <1>6, BlockIs DEF b
  <2>2. n + 2 \in Nat \ {0} /\ (n + 2) - 1 = n + 1 /\ c # "slash" /\ c # "quote"
    BY <1>2, <1>6
  <2>3. IsEven(u, n + 2)
    BY <2>1, <2>2, NoSlash
  <2> QED BY <1>2, <1>5, <2>1, <2>2, <2>3 DEF IsEscaped, u, b
<1>7. CASE c \notin {"x", "n"}
  <2> DEFINE d == IF c = "newline" THEN "n" ELSE c
  <2>1. Len(u) = n + 2 /\ u[n + 1] = "slash" /\ u[n + 2] = d
    <3>1. Len(b) = 2 /\ b[1] = "slash" /\ b[2] = d
      BY <1>7, BlockIs DEF b
    <3> HIDE DEF d
    <3> QED BY <1>3, <3>1
  <2>2. n + 1 \in Nat \ {0} /\ n + 2 \in Nat \ {0} /\ n + 3 \in Nat \ {0} /\ (n + 3) - 1 = n + 2
    BY <1>2
  <2>3. ~IsEven(u, n + 2)
    BY <1>2, <1>4, <2>1, <2>2, SlashTurns
  <2>4. IsEven(u, n + 3)
    <3>1. CASE d = "slash"
      BY <1>2, <2>1, <2>2, <2>3, <3>1, SlashTurns
    <3>2. CASE d # "slash"
      <4> HIDE DEF d
      <4> QED BY <2>1, <2>2, <3>2, NoSlash
    <3> QED BY <3>1, <3>2
  <2>5. \A i \in 1 .. Len(u) : i \in 1 .. n \/ i = n + 1 \/ i = n + 2
    BY <1>2, <2>1
  <2> QED BY <1>2, <1>5, <2>1, <2>3, <2>4, <2>5 DEF IsEscaped, u, b
<1> QED BY <1>6, <1>7

\* Up to the quote behind it, an escaped string is read as it is.
LEMMA EscapedIsRead ==
    ASSUME NEW t \in Seq(Chars), IsEscaped(t)
    PROVE  ReadString(Append(t, "quote")) = <<"string", t>>
<1> DEFINE u == Append(t, "quote")
           n == Len(t)
           ends == {i \in DOMAIN u : u[i] = "quote" /\ Cardinality(SlashesBefore(u, i)) % 2 = 0}
<1>1. n \in Nat /\ "quote" \in Chars
  BY LenProperties DEF Chars
<1>2. /\ u \in Seq(Chars) /\ Len(u) = n + 1 /\ u[n + 1] = "quote" /\ DOMAIN u = 1 .. n + 1
      /\ \A i \in 1 .. n : u[i] = t[i]
  BY <1>1, AppendProperties
<1>3. ReadString(u) = IF ends = {} THEN Null ELSE <<"string", SubSeq(u, 1, Min(ends) - 1)>>
  BY DEF ReadString, SlashesBefore
<1> HIDE DEF u
<1>4. IsEven(u, n + 1)
  BY <1>1, <1>2, SameRun DEF IsEscaped
<1>5. \A i \in 1 .. n : u[i] = "quote" => ~IsEven(u, i)
  <2> TAKE i \in 1 .. n
  <2>1. i \in Nat \ {0} /\ \A l \in 1 .. i - 1 : t[l] = u[l]
    BY <1>1, <1>2
  <2>2. t[i] = "quote" => ~IsEven(t, i)
    BY DEF IsEscaped
  <2> QED BY <1>2, <2>1, <2>2, SameRun
<1>6. ends = {n + 1}
  <2>1. ends = {i \in DOMAIN u : u[i] = "quote" /\ IsEven(u, i)}
    BY DEF IsEven
  <2> HIDE DEF ends, n
  <2>2. \A i \in 1 .. n + 1 : i \in 1 .. n \/ i = n + 1
    BY <1>1
  <2> QED BY <1>1, <1>2, <1>4, <1>5, <2>1, <2>2
<1>7. Min(ends) = n + 1
  <2>1. ends \subseteq Nat /\ ends # {}
    BY <1>1, <1>6
  <2> HIDE DEF ends
  <2> QED BY <1>6, <2>1, Least
<1>8. SubSeq(u, 1, n) = t
  <2>1. n \in Int /\ \A i \in 1 .. n : u[i] \in Chars
    BY <1>1, <1>2, ElementOfSeq
  <2>2. SubSeq(u, 1, n) \in Seq(Chars) /\ Len(SubSeq(u, 1, n)) = n /\ \A i \in 1 .. n : SubSeq(u, 1, n)[i] = u[i]
    BY <1>1, <1>2, <2>1, SubSeqProperties
  <2> HIDE DEF u
  <2> QED BY <1>2, <2>2, SameElements
<1>9. ReadString(u) = <<"string", SubSeq(u, 1, n)>>
  <2> HIDE DEF ends, n
  <2>1. ends # {} /\ (n + 1) - 1 = n
    BY <1>1, <1>6
  <2> QED BY <1>3, <1>7, <2>1
<1> QED BY <1>8, <1>9 DEF u

\* g[k] is what escape_string has written after k characters of s.
Blocks(s) == [i \in DOMAIN s |-> Block(s[i])]
IsWritten(g, s) ==
    /\ g \in [0 .. Len(s) -> Seq(Chars)] /\ g[0] = <<>> /\ g[Len(s)] = Escape(s)
    /\ \A k \in 1 .. Len(s) : g[k] = g[k - 1] \o Block(s[k])
    /\ \A k \in 0 .. Len(s) :
          Len(g[k]) <= Len(g[Len(s)]) /\ \A j \in 1 .. Len(g[k]) : g[Len(s)][j] = g[k][j]

LEMMA WrittenExists ==
    ASSUME NEW s \in Seq(Chars)
    PROVE  \E g : IsWritten(g, s)
<1> DEFINE bs == Blocks(s)
           n == Len(s)
<1>1. n \in Nat /\ DOMAIN s = 1 .. n /\ \A i \in 1 .. n : s[i] \in Chars
  BY LenProperties, ElementOfSeq
<1>2. \A i \in 1 .. n : Block(s[i]) \in Seq(Chars)
  BY <1>1, BlockIs
<1>3. Escape(s) = FlattenSeq(bs)
  BY DEF Escape, Blocks, Block
<1>4. bs \in Seq(Seq(Chars)) /\ Len(bs) = n /\ \A i \in 1 .. n : bs[i] = Block(s[i])
  <2>1. bs = [i \in 1 .. n |-> Block(s[i])]
    BY <1>1 DEF Blocks
  <2> HIDE DEF bs
  <2> QED BY <1>1, <1>2, <2>1
<1> HIDE DEF bs
<1>5. PICK g : IsBeginnings(g, bs, Chars) /\ FlattenSeq(bs) = g[Len(bs)]
  BY <1>4, BeginningsExist
<1>6. \A k \in 0 .. n : Len(g[k]) <= Len(g[n]) /\ \A j \in 1 .. Len(g[k]) : g[n][j] = g[k][j]
  BY <1>4, <1>5, BeginningsAgree
<1>7. /\ g \in [0 .. n -> Seq(Chars)] /\ g[0] = <<>> /\ g[n] = Escape(s)
      /\ \A k \in 1 .. n : g[k] = g[k - 1] \o Block(s[k])
  BY <1>3, <1>4, <1>5 DEF IsBeginnings
<1> QED BY <1>6, <1>7 DEF IsWritten

LEMMA EscapeIsEscaped ==
    ASSUME NEW s \in Seq(Chars)
    PROVE  IsEscaped(Escape(s))
<1> DEFINE n == Len(s)
<1>1. n \in Nat /\ \A i \in 1 .. n : s[i] \in Chars
  BY LenProperties, ElementOfSeq
<1>2. PICK g : IsWritten(g, s)
  BY WrittenExists
<1>3. /\ \A k \in 0 .. n : g[k] \in Seq(Chars)
      /\ g[0] = <<>> /\ g[n] = Escape(s) /\ \A k \in 1 .. n : g[k] = g[k - 1] \o Block(s[k])
  BY <1>2 DEF IsWritten
<1> HIDE DEF n
<1> DEFINE P == {k \in Nat : k <= n => IsEscaped(g[k])}
<1>4. 0 \in P
  <2>1. Len(<<>>) = 0 /\ 0 + 1 = 1
    OBVIOUS
  <2>2. IsEven(<<>>, 1)
    BY NoSlash
  <2>3. IsEscaped(<<>>)
    BY <2>1, <2>2 DEF IsEscaped
  <2> QED BY <1>3, <2>3
<1>5. ASSUME NEW k \in Nat, k \in P PROVE k + 1 \in P
  <2> SUFFICES ASSUME k + 1 <= n PROVE IsEscaped(g[k + 1])
    OBVIOUS
  <2> DEFINE m == k + 1
  <2>1. m \in 1 .. n /\ m - 1 = k /\ k \in 0 .. n /\ IsEscaped(g[k])
    BY <1>1, <1>5
  <2> HIDE DEF m
  <2>2. g[m] = g[k] \o Block(s[m]) /\ g[k] \in Seq(Chars) /\ s[m] \in Chars
    BY <1>1, <1>3, <2>1
  <2> QED BY <2>1, <2>2, EscapedGrows DEF m
<1> HIDE DEF P
<1>6. n \in P
  BY <1>1, <1>4, <1>5, NumberInduction
<1> QED BY <1>1, <1>3, <1>6 DEF P

\* What is saved of a string is read again with its escapes.
LEMMA SavedStringIsRead ==
    ASSUME NEW s \in Seq(Chars)
    PROVE  ReadString(Append(Escape(s), "quote")) = <<"string", Escape(s)>>
BY EscapeType, EscapeIsEscaped, EscapedIsRead

\* A string without a character to escape is written as it is.
LEMMA PlainIsKept ==
    ASSUME NEW s \in Seq(Chars), Range(s) \subseteq {"x", "n"}
    PROVE  Escape(s) = s
<1> DEFINE n == Len(s)
<1>1. n \in Nat /\ \A i \in 1 .. n : s[i] \in {"x", "n"} /\ s[i] \in Chars
  BY LenProperties, ElementOfSeq DEF Range
<1>2. PICK g : IsWritten(g, s)
  BY WrittenExists
<1>3. /\ \A k \in 0 .. n : g[k] \in Seq(Chars)
      /\ g[0] = <<>> /\ g[n] = Escape(s) /\ \A k \in 1 .. n : g[k] = g[k - 1] \o Block(s[k])
  BY <1>2 DEF IsWritten
<1> HIDE DEF n
<1> DEFINE Same(k) == Len(g[k]) = k /\ \A i \in 1 .. k : g[k][i] = s[i]
           P == {k \in Nat : k <= n => Same(k)}
<1>4. 0 \in P
  BY <1>3
<1>5. ASSUME NEW k \in Nat, k \in P PROVE k + 1 \in P
  <2> SUFFICES ASSUME k + 1 <= n PROVE Same(k + 1)
    OBVIOUS
  <2> DEFINE m == k + 1
  <2>1. m \in 1 .. n /\ m - 1 = k /\ k \in 0 .. n /\ Same(k)
    BY <1>1, <1>5
  <2> HIDE DEF m
  <2> DEFINE t == g[k]
             b == Block(s[m])
  <2>2. g[m] = t \o b /\ t \in Seq(Chars) /\ s[m] \in Chars
    BY <1>1, <1>3, <2>1
  <2>3. b \in Seq(Chars) /\ Len(b) = 1 /\ b[1] = s[m]
    BY <1>1, <2>1, BlockIs
  <2>4. Len(t) = k /\ \A i \in 1 .. k : t[i] = s[i]
    BY <2>1
  <2> HIDE DEF t, b
  <2>5. /\ Len(t \o b) = Len(t) + Len(b)
        /\ (\A i \in 1 .. Len(t) : (t \o b)[i] = t[i])
        /\ \A i \in 1 .. Len(b) : (t \o b)[Len(t) + i] = b[i]
    <3>1. t \in Seq(Chars) /\ b \in Seq(Chars)
      BY <2>2, <2>3
    <3> QED BY <3>1, ConcatHas
  <2>6. Len(t \o b) = m /\ (t \o b)[m] = s[m] /\ \A i \in 1 .. k : (t \o b)[i] = s[i]
    <3> DEFINE u == t \o b
    <3>1. /\ Len(u) = Len(t) + Len(b)
          /\ (\A i \in 1 .. Len(t) : u[i] = t[i])
          /\ \A i \in 1 .. Len(b) : u[Len(t) + i] = b[i]
      BY <2>5
    <3> HIDE DEF u
    <3> QED BY <2>3, <2>4, <3>1 DEF u, m
  <2>7. \A i \in 1 .. m : i \in 1 .. k \/ i = m
    BY <2>1
  <2>8. Same(m)
    BY <2>2, <2>6, <2>7
  <2> QED BY <2>8 DEF m
<1> HIDE DEF P
<1>6. n \in P
  BY <1>1, <1>4, <1>5, NumberInduction
<1>7. Len(Escape(s)) = n /\ \A i \in 1 .. n : Escape(s)[i] = s[i]
  BY <1>1, <1>3, <1>6 DEF P
<1>8. Escape(s) \in Seq(Chars)
  BY EscapeType
<1> QED BY <1>7, <1>8, SameElements DEF n

\* Unescaped, as a function of the place where the rest begins.
UnescapedAt(f, t, i) ==
    IF i = Len(t) + 1 THEN <<>>
    ELSE IF t[i] = "slash" /\ i < Len(t)
         THEN <<IF t[i + 1] = "n" THEN "newline" ELSE t[i + 1]>> \o f[i + 2]
         ELSE <<t[i]>> \o f[i + 1]
IsUnescaped(f, t, m) == f = [i \in m .. Len(t) + 1 |-> UnescapedAt(f, t, i)]

LEMMA UnescapedGrows ==
    ASSUME NEW t \in Seq(Chars), NEW m \in 1 .. Len(t), \E f : IsUnescaped(f, t, m + 1)
    PROVE  \E f : IsUnescaped(f, t, m)
<1> DEFINE n == Len(t)
<1>1. n \in Nat
  BY LenProperties
<1> HIDE DEF n
<1>2. PICK f : IsUnescaped(f, t, m + 1)
  OBVIOUS
<1>3. \A i \in m + 1 .. n + 1 : f[i] = UnescapedAt(f, t, i)
  BY <1>2, Zenon DEF IsUnescaped, n
<1> DEFINE x == UnescapedAt(f, t, m)
<1> HIDE DEF x
<1> DEFINE h == [i \in m .. n + 1 |-> IF i = m THEN x ELSE f[i]]
<1>4. DOMAIN h = m .. n + 1 /\ h[m] = x /\ \A i \in m + 1 .. n + 1 : h[i] = f[i]
  BY <1>1 DEF n
<1> HIDE DEF h
<1>5. ASSUME NEW i \in m .. n + 1 PROVE UnescapedAt(h, t, i) = UnescapedAt(f, t, i)
  <2>1. CASE i = n + 1
    BY <2>1 DEF UnescapedAt, n
  <2>2. CASE i < n
    <3>1. h[i + 1] = f[i + 1] /\ h[i + 2] = f[i + 2]
      <4>1. i + 1 \in m + 1 .. n + 1 /\ i + 2 \in m + 1 .. n + 1
        BY <1>1, <2>2 DEF n
      <4> QED BY <1>4, <4>1
    <3> QED BY <3>1, Zenon DEF UnescapedAt
  <2>3. CASE i = n
    <3>1. i + 1 \in m + 1 .. n + 1 /\ ~(i < Len(t)) /\ i # Len(t) + 1
      BY <1>1, <2>3 DEF n
    <3>2. h[i + 1] = f[i + 1]
      BY <1>4, <3>1
    <3> QED BY <3>1, <3>2, Zenon DEF UnescapedAt
  <2> QED BY <1>1, <2>1, <2>2, <2>3
<1>6. ASSUME NEW i \in m .. n + 1 PROVE h[i] = UnescapedAt(h, t, i)
  <2>1. CASE i = m
    BY <1>4, <1>5, <2>1 DEF x
  <2>2. CASE i # m
    <3>1. i \in m + 1 .. n + 1
      BY <1>1, <2>2
    <3> QED BY <1>3, <1>4, <1>5, <3>1, Zenon
  <2> QED BY <2>1, <2>2
<1>7. h = [i \in m .. n + 1 |-> h[i]]
  BY <1>4 DEF h
<1>8. h = [i \in m .. n + 1 |-> UnescapedAt(h, t, i)]
  BY <1>6, <1>7
<1> QED BY <1>8 DEF IsUnescaped, n

LEMMA UnescapedExists ==
    ASSUME NEW t \in Seq(Chars)
    PROVE  \E f : IsUnescaped(f, t, 1) /\ Unescaped(t) = f[1]
<1> DEFINE n == Len(t)
           Has(m) == \E f : IsUnescaped(f, t, m)
           P == {d \in Nat : d <= n => Has(n + 1 - d)}
<1>1. n \in Nat
  BY LenProperties
<1>2. 0 \in P
  <2> DEFINE f == [i \in n + 1 .. n + 1 |-> <<>>]
  <2>1. \A i \in n + 1 .. n + 1 : i = n + 1
    BY <1>1
  <2>2. \A i \in n + 1 .. n + 1 : UnescapedAt(f, t, i) = <<>>
    BY <2>1 DEF UnescapedAt
  <2>3. f = [i \in n + 1 .. n + 1 |-> UnescapedAt(f, t, i)]
    BY <2>2
  <2> HIDE DEF f
  <2>4. IsUnescaped(f, t, n + 1)
    BY <2>3 DEF IsUnescaped
  <2>5. n + 1 - 0 = n + 1
    BY <1>1
  <2> QED BY <2>4, <2>5
<1>3. ASSUME NEW d \in Nat, d \in P PROVE d + 1 \in P
  <2> SUFFICES ASSUME d + 1 <= n PROVE Has(n + 1 - (d + 1))
    OBVIOUS
  <2>1. PICK m \in 1 .. n : m = n + 1 - (d + 1) /\ m + 1 = n + 1 - d
    BY <1>1
  <2>2. Has(m + 1)
    BY <1>1, <1>3, <2>1
  <2>3. Has(m)
    BY <2>2, UnescapedGrows
  <2> QED BY <2>1, <2>3
<1> HIDE DEF P
<1>4. n \in P
  BY <1>1, <1>2, <1>3, NumberInduction
<1>5. n + 1 - n = 1
  BY <1>1
<1>6. Has(1)
  BY <1>1, <1>4, <1>5 DEF P
<1> DEFINE Is(f) == f = [i \in 1 .. Len(t) + 1 |->
              IF i = Len(t) + 1 THEN <<>>
              ELSE IF t[i] = "slash" /\ i < Len(t)
                   THEN <<IF t[i + 1] = "n" THEN "newline" ELSE t[i + 1]>> \o f[i + 2]
                   ELSE <<t[i]>> \o f[i + 1]]
           from == CHOOSE f : Is(f)
<1>7. Unescaped(t) = from[1]
  BY DEF Unescaped
<1>8. \E f : Is(f)
  BY <1>6 DEF IsUnescaped, UnescapedAt
<1> HIDE DEF Is
<1>9. Is(from)
  BY <1>8, Zenon
<1>10. IsUnescaped(from, t, 1)
  BY <1>9 DEF Is, IsUnescaped, UnescapedAt
<1> QED BY <1>7, <1>10

LEMMA UnescapedType ==
    ASSUME NEW t \in Seq(Chars), NEW f, IsUnescaped(f, t, 1)
    PROVE  \A i \in 1 .. Len(t) + 1 : f[i] \in Seq(Chars)
<1> DEFINE n == Len(t)
<1>1. n \in Nat /\ \A i \in 1 .. n : t[i] \in Chars
  BY LenProperties, ElementOfSeq
<1>2. \A i \in 1 .. n + 1 : f[i] = UnescapedAt(f, t, i)
  BY Zenon DEF IsUnescaped
<1> HIDE DEF n
<1> DEFINE P == {d \in Nat : d <= n => \A i \in n + 1 - d .. n + 1 : f[i] \in Seq(Chars)}
<1>3. 0 \in P
  <2>1. f[n + 1] = <<>>
    <3>1. n + 1 \in 1 .. n + 1
      BY <1>1
    <3>2. f[n + 1] = UnescapedAt(f, t, n + 1)
      BY <1>2, <3>1
    <3>3. UnescapedAt(f, t, n + 1) = <<>>
      BY DEF UnescapedAt, n
    <3> QED BY <3>2, <3>3
  <2>2. \A i \in n + 1 - 0 .. n + 1 : i = n + 1
    BY <1>1
  <2>3. <<>> \in Seq(Chars)
    OBVIOUS
  <2> QED BY <2>1, <2>2, <2>3
<1>4. ASSUME NEW d \in Nat, d \in P PROVE d + 1 \in P
  <2> SUFFICES ASSUME d + 1 <= n, NEW i \in n + 1 - (d + 1) .. n + 1 PROVE f[i] \in Seq(Chars)
    OBVIOUS
  <2>1. \A j \in n + 1 - d .. n + 1 : f[j] \in Seq(Chars)
    BY <1>1, <1>4
  <2>2. CASE i \in n + 1 - d .. n + 1
    BY <2>1, <2>2
  <2>3. CASE i \notin n + 1 - d .. n + 1
    <3>1. i \in 1 .. n /\ i + 1 \in n + 1 - d .. n + 1 /\ (i < n => i + 2 \in n + 1 - d .. n + 1)
      BY <1>1, <2>3
    <3>2. f[i + 1] \in Seq(Chars) /\ (i < n => f[i + 2] \in Seq(Chars))
      BY <2>1, <3>1
    <3>3. i \in 1 .. n + 1 /\ i # Len(t) + 1
      BY <1>1, <3>1 DEF n
    <3>4. CASE t[i] = "slash" /\ i < n
      <4> DEFINE c == IF t[i + 1] = "n" THEN "newline" ELSE t[i + 1]
                 z == f[i + 2]
      <4>1. f[i] = <<c>> \o z
        BY <1>2, <3>3, <3>4 DEF UnescapedAt, n
      <4>2. c \in Chars
        <5>1. i + 1 \in 1 .. n
          BY <1>1, <3>1, <3>4
        <5> QED BY <1>1, <5>1 DEF Chars
      <4>3. z \in Seq(Chars)
        BY <3>2, <3>4
      <4> HIDE DEF c, z
      <4> QED BY <4>1, <4>2, <4>3, FirstIs
    <3>5. CASE ~(t[i] = "slash" /\ i < n)
      <4> DEFINE c == t[i]
                 z == f[i + 1]
      <4>1. f[i] = <<c>> \o z
        BY <1>2, <3>3, <3>5 DEF UnescapedAt, n
      <4>2. c \in Chars /\ z \in Seq(Chars)
        BY <1>1, <3>1, <3>2
      <4> HIDE DEF c, z
      <4> QED BY <4>1, <4>2, FirstIs
    <3> QED BY <3>4, <3>5
  <2> QED BY <2>2, <2>3
<1> HIDE DEF P
<1>5. n \in P /\ n + 1 - n = 1
  BY <1>1, <1>3, <1>4, NumberInduction
<1> QED BY <1>1, <1>5 DEF P, n

\* One block of what escape_string wrote is one character again.
LEMMA BlockUnescaped ==
    ASSUME NEW t \in Seq(Chars), NEW f, IsUnescaped(f, t, 1), NEW c \in Chars, NEW p \in Nat \ {0},
           p + Len(Block(c)) <= Len(t) + 1, \A i \in 1 .. Len(Block(c)) : t[p + i - 1] = Block(c)[i]
    PROVE  f[p] = <<c>> \o f[p + Len(Block(c))]
<1> DEFINE n == Len(t)
           b == Block(c)
<1>1. n \in Nat
  BY LenProperties
<1>2. \A i \in 1 .. n + 1 : f[i] = UnescapedAt(f, t, i)
  BY Zenon DEF IsUnescaped
<1>3. CASE c \in {"x", "n"}
  <2>1. Len(b) = 1 /\ b[1] = c
    BY <1>3, BlockIs
  <2>2. t[p] = c /\ p \in 1 .. n + 1 /\ p # n + 1
    BY <1>1, <2>1
  <2>3. f[p] = UnescapedAt(f, t, p)
    BY <1>2, <2>2
  <2>4. UnescapedAt(f, t, p) = <<c>> \o f[p + 1]
    BY <1>3, <2>2 DEF UnescapedAt
  <2> QED BY <2>1, <2>3, <2>4
<1>4. CASE c \notin {"x", "n"}
  <2> DEFINE d == IF c = "newline" THEN "n" ELSE c
  <2>1. Len(b) = 2 /\ b[1] = "slash" /\ b[2] = d
    BY <1>4, BlockIs
  <2>2. t[p] = "slash" /\ t[p + 1] = d /\ p \in 1 .. n + 1 /\ p # n + 1 /\ p < n
    <3>1. 1 \in 1 .. Len(b) /\ 2 \in 1 .. Len(b) /\ p + 1 - 1 = p /\ p + 2 - 1 = p + 1
      BY <2>1
    <3>2. t[p] = b[1] /\ t[p + 1] = b[2]
      BY <3>1, Zenon
    <3> QED BY <1>1, <2>1, <3>2
  <2>3. f[p] = UnescapedAt(f, t, p)
    BY <1>2, <2>2
  <2>4. (IF d = "n" THEN "newline" ELSE d) = c
    BY <1>4
  <2> HIDE DEF d
  <2>5. UnescapedAt(f, t, p) = <<IF d = "n" THEN "newline" ELSE d>> \o f[p + 2]
    BY <2>2 DEF UnescapedAt
  <2> QED BY <2>1, <2>3, <2>4, <2>5
<1> QED BY <1>3, <1>4

LEMMA EscapesUndone ==
    ASSUME NEW s \in Seq(Chars)
    PROVE  Unescaped(Escape(s)) = s
<1> DEFINE n == Len(s)
           t == Escape(s)
<1>1. n \in Nat /\ \A i \in 1 .. n : s[i] \in Chars
  BY LenProperties, ElementOfSeq
<1>2. t \in Seq(Chars)
  BY EscapeType
<1>3. PICK g : IsWritten(g, s)
  BY WrittenExists
<1>4. /\ \A k \in 0 .. n : g[k] \in Seq(Chars)
      /\ g[0] = <<>> /\ g[n] = t /\ \A k \in 1 .. n : g[k] = g[k - 1] \o Block(s[k])
      /\ \A k \in 0 .. n : Len(g[k]) <= Len(t) /\ \A j \in 1 .. Len(g[k]) : t[j] = g[k][j]
  BY <1>3 DEF IsWritten
<1>5. PICK f : IsUnescaped(f, t, 1) /\ Unescaped(t) = f[1]
  BY <1>2, UnescapedExists
<1>6. \A i \in 1 .. Len(t) + 1 : f[i] \in Seq(Chars)
  BY <1>2, <1>5, UnescapedType
<1> HIDE DEF n, t
<1> DEFINE Done(k, w) == /\ w \in Seq(Chars) /\ Len(w) = k /\ \A i \in 1 .. k : w[i] = s[i]
                         /\ f[1] = w \o f[Len(g[k]) + 1]
           P == {k \in Nat : k <= n => \E w : Done(k, w)}
<1>7. 0 \in P
  <2>1. Len(g[0]) + 1 = 1 /\ <<>> \in Seq(Chars) /\ Len(<<>>) = 0
    BY <1>4
  <2>2. f[1] \in Seq(Chars)
    <3>1. 1 \in 1 .. Len(t) + 1
      BY <1>2, LenProperties
    <3> QED BY <1>6, <3>1
  <2>3. <<>> \o f[1] = f[1]
    BY <2>2, ConcatEmptySeq
  <2>4. Done(0, <<>>)
    BY <2>1, <2>3
  <2> QED BY <2>4
<1>8. ASSUME NEW k \in Nat, k \in P PROVE k + 1 \in P
  <2> SUFFICES ASSUME k + 1 <= n PROVE \E w : Done(k + 1, w)
    OBVIOUS
  <2> DEFINE m == k + 1
  <2>1. m \in 1 .. n /\ m - 1 = k /\ k \in 0 .. n /\ m \in 0 .. n /\ k <= n
    BY <1>1
  <2>2. PICK w : Done(k, w)
    BY <1>8, <2>1
  <2> HIDE DEF m
  <2> DEFINE a == g[k]
             c == s[m]
             b == Block(c)
             p == Len(a) + 1
  <2>3. a \in Seq(Chars) /\ c \in Chars /\ g[m] = a \o b
    BY <1>1, <1>4, <2>1
  <2>4. b \in Seq(Chars)
    BY <2>3, BlockIs
  <2> HIDE DEF c, b
  <2>5. Len(a) \in Nat /\ Len(b) \in Nat /\ Len(t) \in Nat
    BY <1>2, <2>3, <2>4, LenProperties
  <2>6. /\ Len(g[m]) = Len(a) + Len(b) /\ \A i \in 1 .. Len(b) : g[m][Len(a) + i] = b[i]
    <3>1. a \in Seq(Chars) /\ b \in Seq(Chars)
      BY <2>3, <2>4
    <3> HIDE DEF a
    <3>2. Len(a \o b) = Len(a) + Len(b) /\ \A i \in 1 .. Len(b) : (a \o b)[Len(a) + i] = b[i]
      BY <3>1, ConcatHas
    <3> QED BY <2>3, <3>2
  <2>7. Len(g[m]) <= Len(t) /\ \A j \in 1 .. Len(g[m]) : t[j] = g[m][j]
    BY <1>4, <2>1
  <2> HIDE DEF a
  <2>8. p \in Nat \ {0} /\ p + Len(b) <= Len(t) + 1 /\ p + Len(b) = Len(g[m]) + 1
    BY <2>5, <2>6, <2>7
  <2>9. \A i \in 1 .. Len(b) : t[p + i - 1] = b[i]
    <3> TAKE i \in 1 .. Len(b)
    <3>1. p + i - 1 = Len(a) + i /\ Len(a) + i \in 1 .. Len(g[m])
      BY <2>5, <2>6
    <3> QED BY <2>6, <2>7, <3>1
  <2>10. f[p] = <<c>> \o f[p + Len(b)]
    <3> HIDE DEF p
    <3> QED BY <1>2, <1>5, <2>3, <2>8, <2>9, BlockUnescaped DEF b
  <2> DEFINE z == f[p + Len(b)]
  <2>11. z \in Seq(Chars)
    <3>1. p + Len(b) \in 1 .. Len(t) + 1
      BY <2>5, <2>8
    <3> QED BY <1>6, <3>1
  <2>12. w \in Seq(Chars) /\ Len(w) = k /\ (\A i \in 1 .. k : w[i] = s[i]) /\ f[1] = w \o f[p]
    BY <2>2 DEF a
  <2>13. z = f[Len(g[m]) + 1]
    BY <2>8
  <2> HIDE DEF z, p
  <2>14. f[1] = w \o (<<c>> \o z)
    BY <2>10, <2>12, Zenon DEF z
  <2> DEFINE v == w \o <<c>>
  <2>15. v \in Seq(Chars) /\ Len(v) = m /\ v[m] = c /\ \A i \in 1 .. k : v[i] = w[i]
    <3>1. <<c>> \in Seq(Chars) /\ Len(<<c>>) = 1 /\ <<c>>[1] = c
      BY <2>3
    <3>2. w \in Seq(Chars)
      BY <2>12
    <3>3. v = Append(w, c)
      BY <2>3, <3>2, AppendIsConcat
    <3>4. Append(w, c) \in Seq(Chars) /\ Len(Append(w, c)) = Len(w) + 1 /\ Append(w, c)[Len(w) + 1] = c
          /\ \A i \in 1 .. Len(w) : Append(w, c)[i] = w[i]
      BY <2>3, <3>2, AppendProperties
    <3> HIDE DEF v
    <3> QED BY <2>12, <3>3, <3>4 DEF m
  <2>16. f[1] = v \o z
    <3>1. <<c>> \in Seq(Chars) /\ w \in Seq(Chars) /\ z \in Seq(Chars)
      BY <2>3, <2>11, <2>12
    <3>2. (w \o <<c>>) \o z = w \o (<<c>> \o z)
      BY <3>1, ConcatAssociative
    <3> QED BY <2>14, <3>2, Zenon
  <2> HIDE DEF v
  <2>17. \A i \in 1 .. m : v[i] = s[i]
    <3>1. \A i \in 1 .. m : i \in 1 .. k \/ i = m
      BY <2>1
    <3> QED BY <2>12, <2>15, <3>1 DEF c
  <2>18. Done(m, v)
    BY <2>13, <2>15, <2>16, <2>17
  <2> QED BY <2>18 DEF m
<1> HIDE DEF P
<1>9. n \in P
  BY <1>1, <1>7, <1>8, NumberInduction
<1>10. PICK w : Done(n, w)
  BY <1>1, <1>9 DEF P
<1>11. w = s
  BY <1>10, SameElements DEF n
<1>12. f[Len(t) + 1] = <<>>
  <2>1. Len(t) + 1 \in 1 .. Len(t) + 1
    BY <1>2, LenProperties
  <2>2. f[Len(t) + 1] = UnescapedAt(f, t, Len(t) + 1)
    BY <1>5, <2>1, Zenon DEF IsUnescaped
  <2> QED BY <2>2 DEF UnescapedAt
<1>13. s \o <<>> = s
  BY ConcatEmptySeq
<1>14. f[1] = s \o <<>>
  BY <1>4, <1>10, <1>11, <1>12
<1> QED BY <1>5, <1>13, <1>14 DEF t

\* What a step that saves the variable makes of the member.
LEMMA AssignedIs ==
    ASSUME TypeInv, NEW r \in Refs, NEW v, Typed(v), Assign(r, v)
    PROVE  ValueOf(r)' = v
<1>1. held' = held
  BY DEF Assign
<1>2. members'[held[r].at][2] = v
  BY AfterAssigned DEF TypeInv, Inv
<1> QED BY <1>1, <1>2 DEF ValueOf

LEMMA OneHeld ==
    ASSUME TypeInv, Writable
    PROVE  /\ kind[1].of \in Kinds /\ kind[1].in \in {"plain", "optional"}
           /\ kind[1].of = "narrow" => HasLimits(kind[1])
           /\ PartOK(kind[1], target[1]) /\ target = <<target[1]>>
<1>1. DOMAIN kind = {1}
  BY KindShape DEF TypeInv, Inv, Writable
<1>2. /\ kind[1].of \in Kinds /\ kind[1].in \in {"plain", "optional", "pointer"}
      /\ kind[1].of = "narrow" => HasLimits(kind[1])
  BY <1>1, PartShape DEF TypeInv, Inv
<1>3. PartOK(kind[1], target[1])
  BY <1>1 DEF TypeInv, PartsOK
<1>4. target = <<target[1]>>
  <2>1. target = [i \in {1} |-> target[i]]
    BY <1>1 DEF TypeInv, Inv, MayHold
  <2>2. {1} = 1 .. 1
    OBVIOUS
  <2> QED BY <2>1, <2>2
<1> QED BY <1>2, <1>3, <1>4 DEF Writable

LEMMA SavedIs ==
    ASSUME TypeInv, NEW r \in Refs, Save(r)
    PROVE  ValueOf(r)' = Reread(target[1])
<1>1. IsInput(Reread(target[1]))
  BY OneHeld, RereadIsInput DEF Save
<1> QED BY <1>1, AssignedIs DEF Save, IsInput

LEMMA SavedListIs ==
    ASSUME TypeInv, NEW r \in Refs, NEW n \in 0 .. MaxList, SaveList(r, n)
    PROVE  n \in Nat /\ ValueOf(r)' = RereadList([i \in 1 .. n |-> AsElement(kind[1], target[1])])
<1> DEFINE x == AsElement(kind[1], target[1])
           list == RereadList([i \in 1 .. n |-> x])
<1>1. n \in Nat
  OBVIOUS
<1>5. PICK p : p.of \in Kinds /\ PartOK(p, x)
  BY OneHeld, ElementIs DEF SaveList
<1>3. Assign(r, list)
  BY DEF SaveList
<1> HIDE DEF x
<1>2. IsInput(list)
  BY <1>1, <1>5, ListIsInput
<1> HIDE DEF list
<1>4. ValueOf(r)' = list
  BY <1>2, <1>3, AssignedIs DEF IsInput
<1> QED BY <1>1, <1>4 DEF list, x

\* EscapesAreKept: of a saved string, whatever is in it and however long it
\* is, parse_json keeps every character that escape_string wrote: undoing the
\* escapes of one save gives the string that was saved.
THEOREM EscapesStay == Spec => EscapesAreKept
<1>1. ASSUME TypeInv, [Next]_vars
      PROVE  [\A r \in Refs : Save(r) /\ target[1][1] = "string" =>
                LET v == ValueOf(r)'
                IN v[1] = "string" /\ Unescaped(v[2]) = target[1][2]]_vars
  <2> SUFFICES ASSUME NEW r \in Refs, Save(r), target[1][1] = "string"
               PROVE  ValueOf(r)'[1] = "string" /\ Unescaped(ValueOf(r)'[2]) = target[1][2]
    OBVIOUS
  <2> DEFINE s == target[1][2]
  <2>1. ValueOf(r)' = Reread(target[1])
    BY <1>1, SavedIs
  <2>2. s \in Seq(Chars)
    BY <1>1, OneHeld DEF Save, PartOK, Nothing, IsScalar
  <2>3. Reread(target[1]) = ReadString(Append(Escape(s), "quote"))
    <3>1. Nothing[1] = "nothing"
      BY DEF Nothing
    <3>2. target[1] # Nothing /\ ~Whole(target[1])
      BY <3>1 DEF Whole
    <3> QED BY <3>2 DEF Reread
  <2> HIDE DEF s
  <2>4. Reread(target[1]) = <<"string", Escape(s)>>
    BY <2>2, <2>3, SavedStringIsRead
  <2>5. Unescaped(Escape(s)) = s
    BY <2>2, EscapesUndone
  <2> QED BY <2>1, <2>4, <2>5 DEF s
<1> QED BY <1>1, TypeInvHolds, PTL DEF Spec, EscapesAreKept

\* What is read of a part that was saved is the part.
LEMMA PartComesBack ==
    ASSUME NEW part, part.of \in Kinds, part.in \in {"plain", "optional"},
           part.of = "narrow" => HasLimits(part), NEW x, PartOK(part, x), Portable(part, x)
    PROVE  Into(part, x, Reread(x)) = {Ok(x)}
<1>1. CASE x = Nothing
  <2>1. Reread(x) = Null /\ part.in = "optional"
    <3>1. Nothing[1] = "nothing"
      BY DEF Nothing
    <3>2. ~IsScalar(Nothing)
      BY <3>1 DEF IsScalar
    <3>3. part.in = "optional"
      BY <1>1, <3>2 DEF PartOK
    <3>4. Nothing[1] # "string" /\ ~Whole(Nothing)
      BY <3>1 DEF Whole
    <3>5. Reread(x) = Null
      BY <1>1, <3>4 DEF Reread
    <3> QED BY <3>3, <3>5
  <2> QED BY <1>1, <2>1 DEF Into
<1>2. CASE x # Nothing
  <2> DEFINE v == Reread(x)
  <2>1. /\ IsScalar(x) /\ Paired(x) /\ x[1] = Zero(part.of)[1]
        /\ part.of = "narrow" => x[2] \in part.lo .. part.hi
    BY <1>2 DEF PartOK
  <2>2. x[1] = IF part.of = "narrow" THEN "integer" ELSE part.of
    BY <2>1, ZeroType
  <2>3. ASSUME v # Null, Converts(part, v), Converted(part, v) = x PROVE Into(part, x, v) = {Ok(x)}
    BY <1>2, <2>3 DEF Into
  <2> HIDE DEF v
  <2>4. CASE x[1] = "string"
    <3> DEFINE s == x[2]
    <3>1. s \in Seq(Chars) /\ s # <<>> /\ Range(s) \subseteq {"x", "n"} /\ x = <<"string", s>>
      BY <1>2, <2>1, <2>4 DEF IsScalar, Portable, Paired
    <3>2. v = ReadString(Append(Escape(s), "quote"))
      <4>1. ~Whole(x)
        BY <2>4 DEF Whole
      <4> QED BY <1>2, <2>4, <4>1 DEF v, Reread
    <3> HIDE DEF s
    <3>3. v = x
      BY <3>1, <3>2, PlainIsKept, SavedStringIsRead
    <3>4. part.of = "string" /\ x[1] = "string" /\ x[2] = s
      BY <2>2, <2>4 DEF s
    <3>5. Converts(part, v) /\ Converted(part, v) = x /\ v # Null
      BY <3>1, <3>3, <3>4 DEF Converts, GetterTakes, Converted, Null
    <3> QED BY <2>3, <3>5 DEF v
  <2>5. CASE x[1] = "real"
    <3> DEFINE u == x[2][1]
               e == x[2][2]
    <3>1. u \in -(Half * Unit) .. Half * Unit - 1 /\ x = <<"real", <<u, e>>>>
      BY <2>1, <2>5 DEF IsScalar, IsReal, Paired
    <3>2. part.of = "real"
      BY <2>2, <2>5
    <3>3. CASE Whole(x)
      <4>1. u % Unit = 0 /\ e = 0
        BY <1>2, <3>3 DEF Whole, Portable, LeavesExponent
      <4>2. v = <<"integer", u \div Unit>>
        BY <1>2, <2>5, <3>3 DEF v, Reread
      <4> HIDE DEF u, e
      <4>3. u \in Int /\ Unit \in Nat \ {0}
        BY <3>1, NumberAssumption
      <4>4. Unit * (u \div Unit) = u
        BY <4>1, <4>3
      <4>5. Converted(part, v) = <<"real", <<Unit * (u \div Unit), 0>>>>
        BY <3>2, <4>2 DEF Converted, GetReal
      <4>6. Converted(part, v) = x
        BY <3>1, <4>1, <4>4, <4>5
      <4>7. Converts(part, v) /\ v # Null
        BY <3>2, <4>2 DEF Converts, GetterTakes, Null
      <4> QED BY <2>3, <4>6, <4>7 DEF v
    <3>4. CASE ~Whole(x)
      <4>1. v = x
        BY <1>2, <2>5, <3>4 DEF v, Reread
      <4>2. Converts(part, v) /\ Converted(part, v) = x /\ v # Null
        BY <2>1, <2>5, <3>2, <4>1 DEF Converts, GetterTakes, Converted, GetReal, Paired, Null
      <4> QED BY <2>3, <4>2 DEF v
    <3> QED BY <3>3, <3>4
  <2>6. CASE x[1] \notin {"string", "real"}
    <3>1. v = x /\ v # Null
      <4>1. x[1] # "null"
        BY <2>2 DEF Kinds, Scalars
      <4> QED BY <1>2, <2>6, <4>1 DEF v, Reread, Whole, Null
    <3>2. CASE part.of = "narrow"
      <4>1. x[1] = "integer" /\ x[2] \in -Half .. Half - 1 /\ x[2] \in part.lo .. part.hi /\ part.hi < Half
        BY <1>2, <2>1, <2>2, <3>2 DEF IsScalar, Portable
      <4>2. Fits(part, x[2])
        BY <3>2, <4>1, FitsIsExact
      <4> QED BY <2>3, <3>1, <3>2, <4>1, <4>2 DEF Converts, Converted, v
    <3>3. CASE part.of # "narrow"
      <4>1. part.of = x[1]
        BY <2>2, <3>3
      <4> QED BY <2>3, <2>6, <3>1, <3>3, <4>1 DEF Converts, Converted, GetterTakes, v
    <3> QED BY <3>2, <3>3
  <2> QED BY <2>4, <2>5, <2>6
<1> QED BY <1>1, <1>2

LEMMA TargetComesBack ==
    ASSUME TypeInv, Writable, Portable(kind[1], target[1])
    PROVE  JsonToValue(kind, target, Reread(target[1])) = {Ok(target)}
<1> DEFINE v == Reread(target[1])
           x == target[1]
<1>1. Into(kind[1], x, v) = {Ok(x)}
  BY OneHeld, PartComesBack
<1>2. target = <<x>> /\ Len(kind) = 1
  BY OneHeld DEF Writable
<1>3. JsonToValue(kind, target, v) = {[o EXCEPT !.to = <<o.to>>] : o \in Into(kind[1], x, v)}
  BY <1>2 DEF JsonToValue
<1> HIDE DEF v, x
<1>4. [Ok(x) EXCEPT !.to = <<Ok(x).to>>] = Ok(<<x>>)
  BY DEF Ok
<1>5. JsonToValue(kind, target, v) = {Ok(<<x>>)}
  BY <1>1, <1>3, <1>4
<1> QED BY <1>2, <1>5 DEF v

\* No number is read of a boolean.
LEMMA BooleanIsRefused ==
    ASSUME TypeInv, Writable, IsNumber(kind[1]), NEW v, v[1] = "boolean"
    PROVE  JsonToValue(kind, target, v) = {Threw(target)}
<1> DEFINE x == target[1]
<1>1. kind[1].in = "plain" /\ kind[1].of \in {"narrow", "integer", "real"}
  BY DEF IsNumber
<1>2. ~Converts(kind[1], v)
  BY <1>1 DEF Converts, GetterTakes
<1>3. Into(kind[1], x, v) = {Threw(x)}
  BY <1>1, <1>2 DEF Into
<1>4. target = <<x>> /\ Len(kind) = 1
  BY OneHeld DEF Writable
<1>5. JsonToValue(kind, target, v) = {[o EXCEPT !.to = <<o.to>>] : o \in Into(kind[1], x, v)}
  BY <1>4 DEF JsonToValue
<1> HIDE DEF x
<1>6. [Threw(x) EXCEPT !.to = <<Threw(x).to>>] = Threw(<<x>>)
  BY DEF Threw
<1>7. JsonToValue(kind, target, v) = {Threw(<<x>>)}
  BY <1>3, <1>5, <1>6
<1> QED BY <1>4, <1>7

\* SavedComesBack: what the program saves, alone or in a list of any length,
\* is converted back to exactly what it was, if it is portable; but a number
\* in a list, other than in an optional, is written as a boolean and refused.
THEOREM SavedIsSame == Spec => SavedComesBack
<1> DEFINE Element(v) == IF IsNumber(kind[1]) THEN JsonToValue(kind, target, v) = {Threw(target)}
                                              ELSE JsonToValue(kind, target, v) = {Ok(target)}
<1>1. ASSUME TypeInv, [Next]_vars
      PROVE  [\A r \in Refs : Portable(kind[1], target[1]) =>
                LET comesBack(v) == JsonToValue(kind, target, v) = {Ok(target)}
                    isRefused(v) == JsonToValue(kind, target, v) = {Threw(target)}
                IN /\ Save(r) => comesBack(ValueOf(r)')
                   /\ \A n \in 0 .. MaxList : SaveList(r, n) =>
                         LET list == ValueOf(r)'
                         IN list[1] = "array" /\ Len(list[2]) = n
                               /\ \A i \in 1 .. n : IF IsNumber(kind[1]) THEN isRefused(list[2][i])
                                                                         ELSE comesBack(list[2][i])]_vars
  <2> SUFFICES ASSUME NEW r \in Refs, Portable(kind[1], target[1])
               PROVE  /\ Save(r) => JsonToValue(kind, target, ValueOf(r)') = {Ok(target)}
                      /\ \A n \in 0 .. MaxList : SaveList(r, n) =>
                            /\ ValueOf(r)'[1] = "array" /\ Len(ValueOf(r)'[2]) = n
                            /\ \A i \in 1 .. n : Element(ValueOf(r)'[2][i])
    OBVIOUS
  <2>1. ASSUME Save(r) PROVE JsonToValue(kind, target, ValueOf(r)') = {Ok(target)}
    <3>1. ValueOf(r)' = Reread(target[1]) /\ Writable
      BY <1>1, <2>1, SavedIs DEF Save
    <3>2. JsonToValue(kind, target, Reread(target[1])) = {Ok(target)}
      BY <1>1, <3>1, TargetComesBack
    <3> QED BY <3>1, <3>2
  <2>2. ASSUME NEW n \in 0 .. MaxList, SaveList(r, n)
        PROVE  /\ ValueOf(r)'[1] = "array" /\ Len(ValueOf(r)'[2]) = n
               /\ \A i \in 1 .. n : Element(ValueOf(r)'[2][i])
    <3> DEFINE x == AsElement(kind[1], target[1])
               xs == [i \in 1 .. n |-> x]
               ys == [i \in 1 .. n |-> Reread(x)]
    <3>1. n \in Nat /\ ValueOf(r)' = RereadList(xs) /\ Writable
      BY <1>1, <2>2, SavedListIs DEF SaveList
    <3>2. ~LeavesExponent(x) /\ Element(Reread(x))
      <4>1. CASE IsNumber(kind[1])
        <5>1. x[1] = "boolean"
          BY <1>1, <3>1, <4>1, OneHeld, ElementIs
        <5>2. ~Whole(x) /\ x # Nothing
          BY <5>1 DEF Whole, Nothing
        <5> HIDE DEF x
        <5>3. Reread(x) = x
          BY <5>1, <5>2 DEF Reread
        <5>4. JsonToValue(kind, target, x) = {Threw(target)}
          BY <1>1, <3>1, <4>1, <5>1, BooleanIsRefused
        <5> QED BY <4>1, <5>2, <5>3, <5>4 DEF LeavesExponent
      <4>2. CASE ~IsNumber(kind[1])
        <5>1. x = target[1]
          BY <4>2 DEF AsElement
        <5>2. ~LeavesExponent(x)
          BY <5>1 DEF Portable, LeavesExponent, Whole, Nothing
        <5> HIDE DEF x
        <5>3. JsonToValue(kind, target, Reread(x)) = {Ok(target)}
          BY <1>1, <3>1, <5>1, TargetComesBack
        <5> QED BY <4>2, <5>2, <5>3
      <4> QED BY <4>1, <4>2
    <3> HIDE DEF x
    <3>3. RereadList(xs) = <<"array", ys>>
      BY <3>2 DEF RereadList
    <3>5. Len(ys) = n /\ \A i \in 1 .. n : ys[i] = Reread(x)
      BY <3>1
    <3> HIDE DEF ys
    <3>6. ValueOf(r)'[1] = "array" /\ ValueOf(r)'[2] = ys
      BY <3>1, <3>3
    <3> QED BY <3>2, <3>5, <3>6
  <2> QED BY <2>1, <2>2
<1> QED BY <1>1, TypeInvHolds, PTL DEF Spec, SavedComesBack
=============================================================================
