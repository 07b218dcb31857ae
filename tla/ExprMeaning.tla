----------------------------- MODULE ExprMeaning -----------------------------
(***************************************************************************)
(* What a return statement promises: the value of its syntax tree, as a    *)
(* reader of the source would work it out, with no token queue.  A chain   *)
(* of operators at any level of the grammar is grouped by the priorities   *)
(* of the table, a unary operator applies to the one operand behind it,    *)
(* and a variable has no constant value.                                   *)
(***************************************************************************)
EXTENDS BasicBlockIR

CONSTANT
    Levels(_)       \* the number of levels of nodes below a node

\* The nodes that the chains of binary operators are made of.
OperandClasses == {"NUMBER", "PRIMARY_EXPR", "UNARY_EXPR"}

\* Trees are finite, and what a unary operator or a literal's node has below it
\* is an operand.
AreTrees(N) ==
    \A n \in N :
        /\ Levels(n) \in Nat
        /\ \A k \in DOMAIN n.kids : n.kids[k] \in N =>
              /\ Levels(n.kids[k]) < Levels(n)
              /\ n.tid \in OperandClasses /\ n.sub # "Expr" =>
                    n.kids[k].tid \in OperandClasses

\* The text that a unary operator is given as its left operand denotes 0, and
\* the folder's ! is a comparison.
ASSUME TreesAssumption ==
    /\ AreTrees(Nodes)
    /\ IntOf["0"] = 0
    /\ \A v \in I32 : OptOutcomes(0, "!", v) = OptOutcomes(0, "==", v)

-----------------------------------------------------------------------------
\* A chain of binary operators: the outcomes of its operands, and the operators
\* between them.
Single(V) == [operands |-> <<V>>, operators |-> <<>>]

Joined(a, o, b) ==
    [operands  |-> a.operands \o b.operands,
     operators |-> a.operators \o <<o>> \o b.operators]

\* The operator between the i-th and the j-th operand that is applied last.
LastApplied(c, i, j) ==
    LET o == c.operators
    IN  Max({k \in i..j-1 : \A l \in i..j-1 : Prio[o[l]] <= Prio[o[k]]})

\* The outcomes of the part of a chain from its p[1]-th to its p[2]-th operand,
\* from those of shorter parts.
PartMeaning(Of, c, p) ==
    LET i == p[1]
        j == p[2]
        k == LastApplied(c, i, j)
    IN  IF i = j THEN c.operands[i]
        ELSE Table!Apply(Of[<<i, k>>], c.operators[k], Of[<<k+1, j>>])

Spans(c) ==
    LET n == Len(c.operands)
    IN  {p \in (1..n) \X (1..n) : p[1] <= p[2]}

\* The outcomes of a chain.
Grouped(c) ==
    LET Of[p \in Spans(c)] == PartMeaning(Of, c, p)
    IN  Of[<<1, Len(c.operands)>>]

\* A sign, a negation; any other operator is applied to 0 and the operand.
ApplyUnary(o, V) ==
    Table!Apply({<<"val", 0>>}, IF o = "!" THEN "==" ELSE o, V)

\* The chain that the binary levels of the tree n spell, from those of the nodes
\* below it.
ChainOf(Of, n) ==
    CASE n.tid = "NUMBER" -> Single({<<"val", IntOf[n.tok]>>})
      [] n.tid = "PRIMARY_EXPR" /\ n.sub = "LVal" -> Single({})
      [] n.tid = "PRIMARY_EXPR" /\ n.sub = "Expr" -> Single(Grouped(Of[n.kids[1]]))
      [] n.tid = "UNARY_EXPR" /\ n.sub = "Una" ->
            Single(ApplyUnary(n.kids[1].tok, Of[n.kids[2]].operands[1]))
      [] n.tid = "LAND_EXPR" /\ n.sub = "LAnd" -> Joined(Of[n.kids[1]], "&&", Of[n.kids[2]])
      [] n.tid = "LOR_EXPR" /\ n.sub = "LOr" -> Joined(Of[n.kids[1]], "||", Of[n.kids[2]])
      [] <<n.tid, n.sub>> \in TwoOperands ->
            Joined(Of[n.kids[1]], n.kids[2].tok, Of[n.kids[3]])
      [] OTHER -> Of[n.kids[1]]

Chain[n \in Nodes] == ChainOf(Chain, n)

\* The outcomes of an expression.
MeaningOf(n) == Grouped(Chain[n])

-----------------------------------------------------------------------------
\* The constant in the return instruction is the value of the expression as it
\* was written, and the constructor stops only at a division the expression
\* really has.  An expression with a variable gets no instruction.
FoldMeansExpression ==
    HasStatement =>
        /\ pc = "done" => <<"val", instructions[1][2]>> \in MeaningOf(block.stmt.expr)
        /\ pc \in {"abort", "trap"} /\ ~NamesVariable(block.stmt.expr) =>
              <<pc, 0>> \in MeaningOf(block.stmt.expr)

\* The constructor finishes, with an instruction or at a division that has no
\* result, if the block is a return of an expression without variables.
ConstantReturnIsDefined ==
    (HasStatement /\ block.stmt.sub = "Ret" /\ ~NamesVariable(block.stmt.expr))
        ~> pc \in {"done", "abort", "trap"}
=============================================================================
