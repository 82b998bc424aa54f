---------------------------- MODULE MCTreeParser ----------------------------
(* Values for the constants of TreeParser and TreeDialect under TLC. *)
EXTENDS TreeDialect

\* Nesting, lists, names and values, with one digit.
Structure == {"{", "}", "[", "]", ",", ":", "quote", "1", "ws"}

\* The characters of numbers, strings and literals as well.
Everything == Structure \cup {"slash", "-", "+", ".", "e", "0",
                              "t", "r", "u", "n", "l"}
=============================================================================
