----------------------------- MODULE Characters -----------------------------
(***************************************************************************)
(* The characters of a text, one per class that the parsers tell apart:    *)
(* "ws" is any of the four insignificant spaces, two digits stand for ten, *)
(* "quote" and "slash" for the two that need no other name here, and "x"   *)
(* for every other one.                                                    *)
(***************************************************************************)

CONSTANT Alphabet     \* the characters that inputs are made of

Whitespace == {"ws"}
Digits == {"0", "1"}
ExponentMarks == {"e", "E"}
Char == Whitespace \cup Digits \cup ExponentMarks \cup
        {"{", "}", "[", "]", ",", ":", "quote", "slash", "-", "+", ".",
         "t", "r", "u", "f", "a", "l", "s", "n", "x"}

ASSUME AlphabetAssumption == Alphabet \subseteq Char
=============================================================================
