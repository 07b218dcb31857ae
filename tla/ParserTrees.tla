----------------------------- MODULE ParserTrees -----------------------------
(***************************************************************************)
(* The syntax trees that yyparse builds.                                   *)
(***************************************************************************)
EXTENDS Parser

\* The tokens that are not ahead of the stacks.
Shifted == Len(read) - (IF lookahead \in {<<>>, <<"$end">>} THEN 0 ELSE 1)

\* The texts of a tree in the order of the program: a node's own text stands
\* between two sub-trees, or before the only one.
Texts[n \in DOMAIN nodes] ==
    LET node == nodes[n]
        Kid(k) == IF k \in DOMAIN node.kids THEN Texts[node.kids[k]] ELSE <<>>
        own == IF node.tok = NoText THEN <<>> ELSE <<node.tok>>
    IN  IF Len(node.kids) = 2
        THEN Kid(1) \o own \o Kid(2)
        ELSE own \o Kid(1) \o Kid(2) \o Kid(3)

\* The texts of the k lowest values on the stack.
StackTexts[k \in 0..Len(values)] ==
    IF k = 0 THEN <<>> ELSE StackTexts[k-1] \o Texts[values[k]]

\* The tokens with a text among the first k of the program.
ReadTexts[k \in 0..Len(read)] ==
    IF k = 0 THEN <<>>
    ELSE ReadTexts[k-1] \o IF read[k] \in TextClasses THEN <<k>> ELSE <<>>

-----------------------------------------------------------------------------
\* At every moment each identifier, operator and literal that was shifted is
\* the text of exactly one node or token on the stack, and they are in the order
\* of the program: no action forgets a string, moves one twice or swaps two.
TreesSpellProgram == StackTexts[Len(values)] = ReadTexts[Shifted]

\* Only MUL_EXPR ever has a node with two operands, whatever the operators are:
\* the binary rules of every other level are never reduced.  Which operator
\* takes which operand is left to midExpr2RPN.
ChainsAreFlat ==
    \A n \in DOMAIN nodes :
        nodes[n].tid \in {"ADD_EXPR", "REL_EXPR", "EQ_EXPR", "LAND_EXPR", "LOR_EXPR"}
            => Len(nodes[n].kids) = 1
=============================================================================
