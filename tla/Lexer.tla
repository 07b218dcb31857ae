-------------------------------- MODULE Lexer --------------------------------
(***************************************************************************)
(* yylex, the scanner flex makes of src/src/sysy.l, on one file.  The      *)
(* patterns are written as flex reads them, over single characters.        *)
(***************************************************************************)
EXTENDS NumberText

CONSTANTS
    Chars,          \* the characters that a file may hold
    Inputs          \* the files

ASSUME InputsAssumption == Inputs \subseteq Seq(Chars)

VARIABLES
    input,          \* the characters of the file
    pos,            \* the first one that is not scanned yet
    tokens          \* what yylex returned

vars == <<input, pos, tokens>>

-----------------------------------------------------------------------------
\* The places of the file, the last one behind its end.
Places == 1..Len(input)+1

\* A pattern: for each place, the places where a match that begins there may end.
One(chars) ==
    [k \in Places |-> IF k <= Len(input) /\ input[k] \in chars THEN {k + 1} ELSE {}]
Char(c) == One({c})
Text(text) ==
    [k \in Places |->
        LET e == k + Len(text)
        IN  IF e \in Places /\ \A j \in 1..Len(text) : input[k+j-1] = text[j] THEN {e} ELSE {}]
Then(p, q) == [k \in Places |-> UNION {q[j] : j \in p[k]}]
Or(p, q) == [k \in Places |-> p[k] \cup q[k]]

\* Any number of matches of p, from the ends of longer ones.
StarEnds(Of, p, k) == {k} \cup UNION {Of[j] : j \in p[k] \ {k}}
Star(p) == LET From[k \in Places] == StarEnds(From, p, k) IN From
Plus(p) == Then(p, Star(p))

Except(c) == One(Chars \ {c})

Blank == {" ", "\t", "\n", "\r"}
Letter == {"a", "b", "c", "d", "e", "f", "g", "h", "i", "j", "k", "l", "m",
           "n", "o", "p", "q", "r", "s", "t", "u", "v", "w", "x", "y", "z",
           "A", "B", "C", "D", "E", "F", "G", "H", "I", "J", "K", "L", "M",
           "N", "O", "P", "Q", "R", "S", "T", "U", "V", "W", "X", "Y", "Z", "_"}

\* Mutant of WhiteSpace: the end of a line is not white space.
WhiteSpaceInLine == Star(One(Blank \ {"\n"}))

WhiteSpace == Star(One(Blank))

LineComment == Then(Text(<<"/", "/">>), Star(Except("\n")))

\* Mutant of LinesComment: only one * may stand before a character that goes on.
LinesCommentOneStar ==
    Then(Text(<<"/", "*">>),
    Then(Star(Or(Except("*"), Then(Char("*"), One(Chars \ {"*", "/"})))),
    Then(Plus(Char("*")), Char("/"))))

LinesComment ==
    Then(Text(<<"/", "*">>),
    Then(Star(Or(Except("*"), Then(Plus(Char("*")), One(Chars \ {"*", "/"})))),
    Then(Plus(Char("*")), Char("/"))))

INT == <<"i", "n", "t">>
RETURN == <<"r", "e", "t", "u", "r", "n">>
CONST == <<"c", "o", "n", "s", "t">>

Identifier == Then(One(Letter), Star(One(Letter \cup Below(10))))

Decimal == Then(One(Below(10) \ {"0"}), Star(One(Below(10))))

\* Mutant of Octal: any digits.
OctalAnyDigit == Then(Char("0"), Star(One(Below(10))))

Octal == Then(Char("0"), Star(One(Below(8))))
Hexadecimal == Then(Char("0"), Then(One({"x", "X"}), Plus(One(Below(16)))))

Twice(c) == Text(<<c, c>>)
Equal(c) == Text(<<c, "=">>)
Operator ==
    Or(One({"!", ">", "<", "+", "-", "*", "/", "%", "^"}),
    Or(Equal("!"), Or(Equal("="), Or(Equal(">"), Or(Equal("<"),
    Or(Twice("&"), Or(Twice("|"), Or(Twice("<"), Twice(">")))))))))

\* Mutant of Patterns: the keywords behind the identifiers.
PatternsIdentFirst == <<
    <<"", WhiteSpace>>, <<"", LineComment>>, <<"", LinesComment>>,
    <<"IDENT", Identifier>>, <<"INT", Text(INT)>>, <<"RETURN", Text(RETURN)>>,
    <<"CONST", Text(CONST)>>,
    <<"INT_CONST", Decimal>>, <<"INT_CONST", Octal>>, <<"INT_CONST", Hexadecimal>>,
    <<"OPT", Operator>>, <<"CHAR", Except("\n")>> >>

\* The rules in order: the class each returns, if it returns, and its pattern.
Patterns == <<
    <<"", WhiteSpace>>, <<"", LineComment>>, <<"", LinesComment>>,
    <<"INT", Text(INT)>>, <<"RETURN", Text(RETURN)>>, <<"CONST", Text(CONST)>>,
    <<"IDENT", Identifier>>,
    <<"INT_CONST", Decimal>>, <<"INT_CONST", Octal>>, <<"INT_CONST", Hexadecimal>>,
    <<"OPT", Operator>>, <<"CHAR", Except("\n")>> >>

-----------------------------------------------------------------------------
Init ==
    /\ input \in Inputs
    /\ pos = 1
    /\ tokens = <<>>

\* How far the rules get from pos, as pairs of an end and a rule.
Matches == UNION {{<<e, i>> : e \in Patterns[i][2][pos]} : i \in DOMAIN Patterns}

\* The longest match, and of several rules the first.
Longest(matches) ==
    CHOOSE m \in matches : \A n \in matches :
        n[1] < m[1] \/ (n[1] = m[1] /\ n[2] >= m[2])

\* The bytes that are the end of the file for yyparse when the last rule returns
\* them as a char: 0, and those outside ASCII, which are negative on the
\* processors that have signed chars.
Zero == {"NUL"}
Foreign == {"foreign"}
Ending == Zero \cup Foreign

\* Mutant of ClassOf: a char is unsigned.
ClassOfUnsigned(rule, text) ==
    IF Patterns[rule][1] = "CHAR" /\ text[1] \in Zero THEN "$end" ELSE Patterns[rule][1]

ClassOf(rule, text) ==
    IF Patterns[rule][1] = "CHAR" /\ text[1] \in Ending THEN "$end" ELSE Patterns[rule][1]

\* Mutant of Literal: the value stays a long.
LiteralLong(class, text) == IF class = "INT_CONST" THEN StrToL(text, 0) ELSE 0

\* yylval of a literal: strtol tells the base from the text, and its long is
\* truncated.
Literal(class, text) == IF class = "INT_CONST" THEN Wrap(StrToL(text, 0)) ELSE 0

TokenOf(m) ==
    LET text == SubSeq(input, pos, m[1] - 1)
        class == ClassOf(m[2], text)
    IN  [class |-> class, text |-> text, rule |-> m[2], from |-> pos,
         int_val |-> Literal(class, text)]

Ended == pos > Len(input) \/ (tokens # <<>> /\ Last(tokens).class = "$end")

\* One match: a token is returned, white space and comments are skipped.
Match ==
    /\ ~Ended
    /\ \E m \in {Longest(Matches)} :
          /\ pos' = m[1]
          /\ tokens' = IF Patterns[m[2]][1] = "" THEN tokens ELSE Append(tokens, TokenOf(m))
    /\ UNCHANGED input

Next == Match

EndOfFile == Ended /\ UNCHANGED vars

Spec == Init /\ [][Next \/ EndOfFile]_vars

-----------------------------------------------------------------------------
\* What a reader takes the characters of a file for, one by one: "code", or
\* part of a comment.  A comment that is opened with /* and never closed is no
\* comment.
Pair(k, c, d) == k < Len(input) /\ input[k] = c /\ input[k+1] = d

Closes(from) == {k \in from..Len(input)-1 : Pair(k, "*", "/")}

\* Where the comment that begins at k ends, or k.
CommentEnd(k) ==
    CASE Pair(k, "/", "/") ->
            Min({j \in k..Len(input) : input[j] = "\n"} \cup {Len(input) + 1})
      [] Pair(k, "/", "*") /\ Closes(k + 2) # {} -> Min(Closes(k + 2)) + 2
      [] OTHER -> k

\* The places of code, from k on.
CodeOf(Of, k) ==
    CASE k > Len(input) -> {}
      [] k <= Len(input) /\ CommentEnd(k) > k -> Of[CommentEnd(k)]
      [] OTHER -> {k} \cup Of[k + 1]

CodeFrom[k \in Places] == CodeOf(CodeFrom, k)

Covered == UNION {t.from..(t.from + Len(t.text) - 1) : t \in Range(tokens)}

WordChars == Letter \cup Below(10)

\* The type invariant of the scanner.
LexerTypeOK ==
    /\ input \in Inputs
    /\ pos \in 1..Len(input)+1
    /\ \A i \in DOMAIN tokens : tokens[i].text # <<>> /\ tokens[i].int_val \in Word

\* The comment patterns take exactly the comments of a file, each up to the first
\* */ behind its beginning: the tokens cover the code, white space apart, and no
\* character of a comment, and what only looks like the beginning of a comment
\* is operators.
TokensCoverCode ==
    Covered = {k \in CodeFrom[1] : k < pos /\ input[k] \notin Blank}

\* A byte 0, and one outside ASCII, ends the program if it is no part of a comment:
\* the parser is told that the file ends there, and nothing that follows is scanned.
ForeignByteEnds ==
    /\ tokens # <<>> /\ Last(tokens).class = "$end" =>
          Last(tokens).from \in CodeFrom[1] /\ pos = Last(tokens).from + 1
    /\ \A k \in CodeFrom[1] : k < pos /\ input[k] \in Ending => Ended /\ pos = k + 1

\* A rule takes at least the next character, wherever the scanner is: flex's own
\* rule, which would print the character, is not needed, though the pattern of
\* white space matches the empty text and the last rule matches no end of a line.
EveryCharacterHasRule == ~Ended => Longest(Matches)[1] > pos

\* A keyword is never cut out of the beginning of a longer name, and a name is
\* never the text of a keyword.
KeywordsAreWhole ==
    \A t \in Range(tokens) :
        LET next == t.from + Len(t.text)
        IN  /\ t.class \in {"INT", "RETURN", "CONST"} /\ next <= Len(input) =>
                  input[next] \notin WordChars
            /\ t.class = "IDENT" => t.text \notin {INT, RETURN, CONST}

\* The base of the rule that matched a literal, and its digits.
BaseOf(t) == CASE t.rule = 8 -> 10 [] t.rule = 9 -> 8 [] t.rule = 10 -> 16

DigitsOf(t) == IF BaseOf(t) = 16 THEN SubSeq(t.text, 3, Len(t.text)) ELSE t.text

\* What a sequence of digits is worth.
Worth(digits, base) ==
    LET Upto[n \in 0..Len(digits)] ==
            IF n = 0 THEN 0 ELSE Upto[n-1] * base + DigitValue[digits[n]]
    IN  Upto[Len(digits)]

\* strtol takes a literal in the base of the rule that matched it, to the last
\* digit; and the int that is left of the value survives the way to the folder:
\* std::to_string writes it so that __is_int_ knows it for an operand and
\* __str2int_, which reads base 10 only, reads it back, signs included.
LiteralsSurvive ==
    \A t \in {u \in Range(tokens) : u.class = "INT_CONST"} :
        LET value == Worth(DigitsOf(t), BaseOf(t))
        IN  /\ Range(DigitsOf(t)) \subseteq Below(BaseOf(t))
            /\ value < TwoTo[LongBits-1] => t.int_val = Wrap(value)
            /\ IsInt(Int2Str(t.int_val))
            /\ Str2Int(Int2Str(t.int_val)) = t.int_val

\* The texts that items 1 and 2 of the comment of __is_int_ ask for: a sign or
\* none, and a decimal, hexadecimal, octal or binary number.
Unsigned == Or(Or(Decimal, Octal), Or(Hexadecimal,
    Then(Char("0"), Then(One({"b", "B"}), Plus(One(Below(2)))))))

\* __is_int_, which walks through its text with an iterator, accepts exactly the
\* numbers of items 1 and 2 of its comment, however large, and stops at the end of
\* each.  Item 3 of the comment is IsIntInBounds.
IsIntTakesNumbers ==
    pos = 1 =>
        (IsInt(input) <=>
            Len(input) + 1 \in Or(Unsigned, Then(One(Signs), Unsigned))[1])

\* Item 3 of the comment of __is_int_, "boundary, bits": what it accepts is an int,
\* so that the folder's conversion of an operand cannot change its value.
IsIntInBounds ==
    pos = 1 /\ IsInt(input) =>
        LET signed == input[1] \in Signs
            digits == IF signed THEN Tail(input) ELSE input
            value == Worth(digits, 10)
        IN  Range(digits) \subseteq Below(10) =>
                (IF signed /\ input[1] = "-" THEN -value ELSE value) \in Word
=============================================================================
