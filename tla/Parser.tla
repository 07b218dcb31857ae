-------------------------------- MODULE Parser --------------------------------
(***************************************************************************)
(* yyparse, the parser Bison makes of src/src/sysy.y, reading tokens one   *)
(* by one from yylex.  Where the grammar is ambiguous Bison shifts, and    *)
(* between two rules takes the first; no precedence is declared.  The      *)
(* only state with two complete rules is the one where an item of a block  *)
(* may begin, so that this needs no lookahead sets.  (Where only one       *)
(* reduction is possible Bison may do it before it asks for the token.)    *)
(*                                                                         *)
(* A value is a pointer to an object of nodes: a token, or a node of the   *)
(* syntax tree, which points to its sub-trees in its turn.                 *)
(* The text of a token is the number of its place in the program: texts    *)
(* are never compared, and two strings of equal letters are two objects.   *)
(***************************************************************************)
EXTENDS Grammar

CONSTANTS
    Classes,        \* the classes of tokens that yylex returns
    MaxTokens,      \* bound on the length of a program
    MaxDepth        \* YYMAXDEPTH, the limit of Bison's stacks

\* The end of the file is no class of tokens: yylex returns 0 for it alone.  And
\* no rule of the lexer returns one of the tokens in double quotes.
ASSUME ClassesAssumption == {"$end", "str;", "str,", "str="} \cap Classes = {}

ASSUME BoundsAssumption == MaxTokens \in Nat /\ MaxDepth \in Nat

VARIABLES
    read,           \* classes of the tokens that yylex has returned
    lookahead,      \* <<>>, or the token that is not shifted yet
    states,         \* Bison's stack of states
    values,         \* Bison's stack of values, one shorter
    nodes,          \* the objects made so far: tokens and nodes of the tree
    pc              \* "parse", or how yyparse returned

vars == <<read, lookahead, states, values, nodes, pc>>

\* The classes with a string or a number in yylval.
TextClasses == {"IDENT", "OPT", "INT_CONST"}

NoText == 0

Token(c) == [tid |-> "TOKEN", sub |-> c, kids |-> <<>>,
             tok |-> IF c \in TextClasses THEN Len(read) ELSE NoText]

\* Mutant of Build: the action moves the last value twice.
BuildTwice(rule, rhs) ==
    [tid |-> rule.tid, sub |-> rule.sub,
     kids |-> [k \in DOMAIN rule.kids |-> rhs[rule.kids[Len(rule.kids)]]],
     tok |-> IF rule.own = 0 THEN NoText ELSE nodes[rhs[rule.own]].tok]

\* What the action of a rule makes of the values of its right-hand side.
Build(rule, rhs) ==
    [tid |-> rule.tid, sub |-> rule.sub,
     kids |-> [k \in DOMAIN rule.kids |-> rhs[rule.kids[k]]],
     tok |-> IF rule.own = 0 THEN NoText ELSE nodes[rhs[rule.own]].tok]

\* Mutant of Shiftable: the conflict after a complete AddExp is not shifted.
ShiftableNoOpt ==
    (UNION {AfterDot(item) : item \in Items(Last(states))})
        \ (Nonterminals \cup
           IF \E i \in Complete(Last(states)) : Rules[i].rhs = <<"MulExp">>
           THEN {"OPT"} ELSE {})

Shiftable == (UNION {AfterDot(item) : item \in Items(Last(states))}) \ Nonterminals

-----------------------------------------------------------------------------
Init ==
    /\ read = <<>>
    /\ lookahead = <<>>
    /\ states = <<StartState>>
    /\ values = <<>>
    /\ nodes = <<>>
    /\ pc = "parse"

\* yylex: any token, or the end of the file.
Lex ==
    /\ pc = "parse"
    /\ lookahead = <<>>
    /\ \/ \E c \in Classes :
            /\ Len(read) < MaxTokens
            /\ read' = Append(read, c)
            /\ lookahead' = <<c>>
       \/ /\ lookahead' = <<"$end">>
          /\ UNCHANGED read
    /\ UNCHANGED <<states, values, nodes, pc>>

Deciding == pc = "parse" /\ lookahead # <<>>

\* Mutant of Push: a state is left on the stack for each value that is replaced.
PushKeeps(X, below, v) ==
    /\ states' = Append(states, Goto(Last(below), X))
    /\ nodes' = Append(nodes, v)
    /\ values' = Append(SubSeq(values, 1, Len(below) - 1), Len(nodes) + 1)
    /\ UNCHANGED pc

\* A stack that this fills ends the parse with "memory exhausted".
Push(X, below, v) ==
    /\ states' = Append(below, Goto(Last(below), X))
    /\ nodes' = Append(nodes, v)
    /\ values' = Append(SubSeq(values, 1, Len(below) - 1), Len(nodes) + 1)
    /\ pc' = IF Len(below) + 1 = MaxDepth THEN "exhausted" ELSE pc

Shift ==
    /\ Deciding
    /\ lookahead[1] \in Shiftable \ {"$end"}
    /\ Push(lookahead[1], states, Token(lookahead[1]))
    /\ lookahead' = <<>>
    /\ UNCHANGED read

\* Mutant of Chosen: the last one.
ChosenLast(rules) == {i \in rules : \A j \in rules : i >= j}

\* Of two complete rules the first one is reduced.
Chosen(rules) == {i \in rules : \A j \in rules : i <= j}

\* The reduction of rule i: its right-hand side on the stacks is replaced.
ReduceBy(i) ==
    LET keep == Len(values) - Len(Rules[i].rhs)
    IN  Push(Rules[i].lhs, SubSeq(states, 1, keep + 1),
             Build(Rules[i], SubSeq(values, keep + 1, Len(values))))

\* Mutant of Reduce: a rule with an empty right-hand side is not reduced.
ReduceNonempty ==
    /\ Deciding
    /\ lookahead[1] \notin Shiftable
    /\ \E i \in Chosen(Complete(Last(states))) :
          /\ Rules[i].rhs # <<>>
          /\ ReduceBy(i)
    /\ UNCHANGED <<read, lookahead>>

Reduce ==
    /\ Deciding
    /\ lookahead[1] \notin Shiftable
    /\ \E i \in Chosen(Complete(Last(states))) : ReduceBy(i)
    /\ UNCHANGED <<read, lookahead>>

\* yyerror; there is no error rule to resume at.
Error ==
    /\ Deciding
    /\ lookahead[1] \notin Shiftable
    /\ Complete(Last(states)) = {}
    /\ pc' = "error"
    /\ UNCHANGED <<read, lookahead, states, values, nodes>>

Accept ==
    /\ Deciding
    /\ lookahead[1] = "$end"
    /\ "$end" \in Shiftable
    /\ pc' = "accept"
    /\ UNCHANGED <<read, lookahead, states, values, nodes>>

Next == Lex \/ Shift \/ Reduce \/ Error \/ Accept

Returned == pc # "parse" /\ UNCHANGED vars

Spec == Init /\ [][Next \/ Returned]_vars /\ WF_vars(Next)

-----------------------------------------------------------------------------
(***************************************************************************)
(* What the parser accepts, told without its grammar: where the n-th token *)
(* leaves a reader who knows that a program is a function of return        *)
(* statements, and how many parentheses are open there.                    *)
(***************************************************************************)
Header == <<"INT", "IDENT", "(", ")", "{">>

\* count is the number of tokens read of the header, or of open parentheses.
At(place, count) == [place |-> place, count |-> count]

AfterToken(at, c) ==
    CASE at.place = "header" /\ c = Header[at.count + 1] ->
            IF at.count + 1 < Len(Header) THEN At("header", at.count + 1) ELSE At("item", 0)
      [] at.place = "item" /\ c = "RETURN" -> At("operand", 0)
      [] at.place = "item" /\ c = "}" -> At("end", 0)
      [] at.place = "operand" /\ c = "OPT" -> at
      [] at.place = "operand" /\ c = "(" -> At("operand", at.count + 1)
      [] at.place = "operand" /\ c \in {"INT_CONST", "IDENT"} -> At("operator", at.count)
      [] at.place = "operator" /\ c = "OPT" -> At("operand", at.count)
      [] at.place = "operator" /\ c = ")" /\ at.count > 0 -> At("operator", at.count - 1)
      [] at.place = "operator" /\ c = ";" /\ at.count = 0 -> At("item", 0)
      [] OTHER -> At("rejected", 0)

\* Where the first n tokens of the program lead.
PlaceAt[n \in 0..Len(read)] ==
    IF n = 0 THEN At("header", 0) ELSE AfterToken(PlaceAt[n-1], read[n])

Place == PlaceAt[Len(read)].place

-----------------------------------------------------------------------------
\* The type invariant of the parser: the stacks go together, and what is on the
\* stack of states is never the empty state an undefined goto would give.
ParserTypeOK ==
    /\ read \in Seq(Classes) /\ Len(read) <= MaxTokens
    /\ lookahead \in {<<>>, <<"$end">>} \cup {<<c>> : c \in Classes}
    /\ pc \in {"parse", "accept", "error", "exhausted"}
    /\ Len(states) = Len(values) + 1
    /\ \A k \in DOMAIN states : states[k] # {}

\* The conflicts of the grammar are resolved so that the parser accepts exactly
\* the functions of return statements, with any operator as prefix and between
\* operands: a program with a declaration or an assignment, which the grammar
\* has rules for, is never accepted, and no other program is refused.
AcceptedExactly ==
    /\ pc = "accept" => Place = "end"
    /\ pc = "error" => Place = "rejected" \/ (lookahead = <<"$end">> /\ Place # "end")

\* The stacks never hold more entries than tokens were read, but for one: the
\* empty list at the end of a block.  So yyparse runs out of stack on a long
\* program only, and no chain of empty reductions is endless.
StackFits ==
    /\ Len(values) <= Len(read) + 1
    /\ pc = "exhausted" => Len(read) >= MaxDepth - 2

\* A file ends, so yyparse returns.
ParserEnds == <>(pc # "parse")

\* Its sample program, test/hello.sysy, is not refused by the compiler.
Hello == Header \o <<"CONST", "INT", "IDENT", "=", "INT_CONST", ";",
                     "RETURN", "IDENT", ";", "}">>
HelloParses ==
    pc = "error" =>
        IF lookahead = <<"$end">> THEN read # Hello ELSE ~IsPrefix(read, Hello)
=============================================================================
