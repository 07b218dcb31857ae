------------------------------- MODULE MCLexer -------------------------------
(***************************************************************************)
(* Instances of the scanner: every short file over a few alphabets, one    *)
(* for each group of rules that compete for the same text.                 *)
(***************************************************************************)
EXTENDS Lexer

MCChars == Range(Digits) \cup Letter \cup Blank
           \cup {"+", "-", "*", "/", "=", "<", ">", "!", "&", "|", "(", ";"} \cup Ending

Files(chars, n) == UNION {[1..k -> chars] : k \in 0..n}

MCInputs ==
    Files({"/", "*", "a", "\n"}, 6)
    \cup Files({"/", "*", "\n", "foreign", "NUL"}, 5)
    \cup {<<"/", "*">> \o body : body \in Files({"/", "*", "a"}, 6)}
    \cup Files({"0", "1", "8", "x", "a", "b", "-"}, 4)
    \cup Files({"i", "n", "t", "0", " "}, 5)
    \cup Files({"<", ">", "=", "!", "&", "|", "/"}, 4)
    \cup {a \o RETURN \o b : a, b \in Files({"1", "a", ";", "\t"}, 2)}
    \cup {a \o CONST \o b : a, b \in Files({"1", "a", "(", "\n"}, 2)}
=============================================================================
