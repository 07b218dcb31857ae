------------------------------- MODULE MCParser -------------------------------
(***************************************************************************)
(* Instances of the parser: every token sequence, cut off at its first     *)
(* error.                                                                  *)
(***************************************************************************)
EXTENDS SyntaxTree

\* The classes of the lexer, and two of the characters it passes on.
MCClasses == {"INT", "RETURN", "CONST", "IDENT", "OPT", "INT_CONST",
              "(", ")", "{", "}", ";", "=", ","}

\* Literals of each form, in turn: as ints of six bits 16, 8, -1 and 7.
MCLiteralAt == [n \in 1..MaxTokens |->
    <<<<"0", "x", "1", "0">>, <<"0", "1", "0">>, <<"6", "3">>, <<"7">>>>[1 + (n % 4)]]
=============================================================================
