--------------------------- MODULE MCEventParser ---------------------------
(* Values for the constants of EventParser and EventDialect under TLC. *)
EXTENDS EventDialect

\* Nesting, lists, names and values; a digit is the only scalar but strings.
StructuralAlphabet == {"{", "}", "[", "]", ",", ":", "quote", "1", "ws"}

\* The same with no spaces, for several parses in one process.
ResidueAlphabet == {"{", "}", "[", "]", ",", ":", "quote", "1"}

\* Arrays of numbers, strings and literals.
LexicalAlphabet == {"[", "]", ",", "quote", "slash", "-", "+", ".", "e", "0",
                    "t", "r", "u", "f", "a", "l", "s", "n"}
=============================================================================
