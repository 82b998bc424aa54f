--------------------------- MODULE MCValueProgram ---------------------------
(* Types of a variable and values for ValueProgram: a scenario per hazard. *)
EXTENDS ValueProgram, TLC

Num(n) == <<"integer", n>>
Real(u, scale) == <<"real", <<u, scale>>>>
Str(s) == <<"string", s>>
List(xs) == <<"array", xs>>

Part(of, in) == [of |-> of, in |-> in, lo |-> -Half, hi |-> Half - 1]
Narrow(lo, hi, in) == [of |-> "narrow", in |-> in, lo |-> lo, hi |-> hi]

Case(k, ins, obs, n) == [kind |-> k, inputs |-> ins, objects |-> obs, most |-> n]
OfOne == {<<<<"key", Str(<<"x">>)>>, <<"key", Num(1)>>>>}
OfTwo == {<<<<"value", Num(1)>>, <<"key", Num(2)>>>>}

MCScenarios ==
    {Case(<<Narrow(-2, 1, "plain")>>, {Num(-3), Num(-2), Num(1), Num(2)}, {}, 1),
     Case(<<Narrow(0, 2 * Half - 1, "optional")>>, {Num(-1), Num(0), Num(3)}, {}, 2),
     Case(<<Part("integer", "pointer")>>, {Num(-Half), Str(<<"x">>)}, {}, 2),
     Case(<<Part("string", "optional")>>, {Str(<<>>), Str(<<"x">>)}, {}, 2),
     Case(<<Part("string", "plain")>>,
          {Str(<<>>), Str(<<"x", "n">>), Str(<<"quote", "slash">>), Str(<<"newline">>)}, {}, 1),
     Case(<<Part("real", "optional")>>,
          {Num(2), Real(5, 0), Real(4, 1), Real(6, 1), Real(-4, -1), Real(6, -1)}, {}, 1),
     Case(<<Part("real", "plain")>>, {Num(0), Real(5, 0), Real(4, -1), Real(6, 1)}, {}, 1),
     Case(<<Part("boolean", "plain")>>,
          {<<"boolean", TRUE>>, List(<<>>), List(<<Str(<<>>)>>), List(<<Null, Num(0)>>),
           <<"object", <<<<"key", Real(5, 0)>>>>>>, <<"object", <<<<"key", Real(4, 0)>>>>>>}, {}, 2),
     Case(<<Part("string", "plain"), Part("integer", "optional")>>, {Num(1)}, OfOne, 3),
     Case(<<Narrow(-2, 1, "plain"), Part("integer", "plain")>>, {Num(-1)}, OfTwo, 2),
     Case(<<Part("integer", "plain"), Part("integer", "pointer")>>, {Num(1)}, OfTwo, 2)}

RefSymmetry == Permutations(Refs)
=============================================================================
