---------------------------- MODULE MCLinkedClass ----------------------------
(* Values for the constants of LinkedClass under TLC: a class with an integer *)
(* and an object, whose class links a string, a real and integers.            *)
EXTENDS LinkedClass

Link1(name, kind) == [name |-> name, kind |-> kind, array |-> FALSE]
TwoClasses == {"outer", "inner"}
TwoLinks ==
    [c \in TwoClasses |->
        IF c = "outer" THEN <<Link1("a", "integer"), Link1("o", "inner")>>
        ELSE <<Link1("s", "string"), Link1("r", "real"),
               [name |-> "w", kind |-> "integer", array |-> TRUE]>>]

ObjectOf(a, s, r, w) ==
    [p \in Paths |-> CASE p = <<"a">> -> a
                       [] p = <<"o", "s">> -> s
                       [] p = <<"o", "r">> -> r
                       [] p = <<"o", "w">> -> w]
Constructed == ObjectOf(0, "fresh", 0, <<>>)
Filled ==
    {ObjectOf(1, "plain", 4, <<-1>>), ObjectOf(1, "plain", 5, <<>>),
     ObjectOf(1, "empty", 4, <<>>), ObjectOf(1, "broken", 4, <<>>)}

\* Half is 2: the integer 3 is cut to -1.
Whole(n) == <<"integer", n>>
Plain == <<"s", <<"string", "plain">>>>
Inner ==
    {<<>>, <<Plain>>, <<<<"s", <<"string", "empty">>>>>>,
     <<<<"r", Whole(1)>>, <<"r", <<"real", 5>>>>>>,
     <<<<"w", <<"array", <<Whole(3), Whole(1)>>>>>>, <<"s", <<"null", "null">>>>>>,
     <<<<"z", Whole(1)>>, <<"w", <<"array", <<Whole(1), <<"string", "plain">>>>>>>>>>}
As == {"a"} \X {Whole(0), Whole(3), <<"real", 4>>}
Os == {"o"} \X ({<<"object", i>> : i \in Inner} \cup {<<"null", "null">>})
Items == As \cup Os \cup {<<"z", Whole(1)>>}
First == {<<"array", <<>>>>} \cup
         {<<"object", ms>> : ms \in SeqOf(Items, 2) \cup (As \X Os \X Os) \cup (As \X Os \X As)}
Short(inner) == <<"object", <<<<"a", Whole(1)>>, <<"o", <<"object", inner>>>>>>>>
Second == {Short(<<Plain>>), <<"null", "null">>,
           <<"array", <<Short(<<Plain>>), Short(<<<<"r", Whole(1)>>>>)>>>>,
           <<"array", <<Short(<<>>), <<"null", "null">>>>>>,
           <<"array", <<Short(<<Plain>>), <<"object", <<>>>>>>>>}
Third == {Short(<<Plain>>)}
ThreeCalls == <<First, Second, Third>>

\* The values that are read, and those in them.
Parts(v) == CASE v[1] = "array" -> Range(v[2])
              [] v[1] = "object" -> {m[2] : m \in Range(v[2])}
              [] OTHER -> {}
ThreeLevels(vs) == LET inner == UNION {Parts(v) : v \in vs}
                       inmost == UNION {Parts(v) : v \in inner}
                   IN vs \cup inner \cup inmost \cup UNION {Parts(v) : v \in inmost}
ReadValues == ThreeLevels(UNION Range(Inputs))

\* A program that writes an object with an empty string and reads it back.
EmptyString == {ObjectOf(1, "empty", 4, <<>>)}
WriteAndRead == <<{}, {}>>
=============================================================================
