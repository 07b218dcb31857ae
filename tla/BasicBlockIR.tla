----------------------------- MODULE BasicBlockIR -----------------------------
(***************************************************************************)
(* The constructor BasicBlockIR(BlockAST&) (src/src/_ir.cpp): it casts the *)
(* block's contents to one block item, takes its statement's expression,   *)
(* traverses that into __mid_op_stk_, folds the queue (EvalRPN) and pushes *)
(* one return instruction.                                                 *)
(*                                                                         *)
(* A node of the syntax tree is a record: tid and sub are its class and    *)
(* its __sub_expr_type_, tok the text of a leaf, kids the sub-trees that   *)
(* sub says are set, in source order.  The recursion of traverseExpr is    *)
(* the sequence of the nodes that the calls in progress still have to      *)
(* visit.                                                                  *)
(***************************************************************************)
EXTENDS EvalRPN

CONSTANTS
    BlockContents,      \* what __block_items_ of a BlockAST may point to
    Nodes,              \* the nodes of the expressions in them
    NamesVariable(_)    \* the expression below a node names a variable

VARIABLES
    block,          \* the object __block_items_ points to
    to_visit,       \* nodes and tokens that traverseExpr has yet to come to
    instructions    \* __instructions_

blockVars == <<block, to_visit, instructions>>
vars == <<folderVars, blockVars>>

-----------------------------------------------------------------------------
Leaf(tid, tok) == [tid |-> tid, sub |-> "", tok |-> tok, kids |-> <<>>]

\* A token that traverseExpr pushes itself.
Pushed(tok) == Leaf("TOKEN", tok)

LeafClasses == {"TOKEN", "NUMBER", "UNARY_OP", "BINARY_OP", "CMP_OP"}

\* Mutants of UnaryVisits: without the parentheses, without the last one,
\* without the 0.
UnaryVisitsBare(n) == <<Pushed("0")>> \o n.kids
UnaryVisitsOpen(n) == <<Pushed("("), Pushed("0")>> \o n.kids
UnaryVisitsNoZero(n) == <<Pushed("(")>> \o n.kids \o <<Pushed(")")>>

\* A unary operator becomes a binary one with the left operand __Unary_Lval.
UnaryVisits(n) == <<Pushed("("), Pushed("0")>> \o n.kids \o <<Pushed(")")>>

\* What the case of traverseExpr for the node n pushes and visits, in order.
\* No case visits a variable, and a binary node looks the same whatever its
\* level is, but for the two whose operator has no node of its own.
Visits(n) ==
    CASE n.tid = "PRIMARY_EXPR" /\ n.sub = "Expr" ->
            <<Pushed("(")>> \o n.kids \o <<Pushed(")")>>
      [] n.tid = "PRIMARY_EXPR" /\ n.sub = "LVal" -> <<>>
      [] n.tid = "UNARY_EXPR" /\ n.sub = "Una" ->
            UnaryVisits(n)
      [] n.tid = "LAND_EXPR" /\ n.sub = "LAnd" ->
            <<n.kids[1], Pushed("&&"), n.kids[2]>>
      [] n.tid = "LOR_EXPR" /\ n.sub = "LOr" ->
            <<n.kids[1], Pushed("||"), n.kids[2]>>
      [] OTHER -> n.kids

-----------------------------------------------------------------------------
\* What the constructor takes the contents of a block for.
IsStatement(b) == b.tid = "BLOCK_ITEM" /\ b.sub = "Stmt"

Init ==
    /\ block \in BlockContents
    /\ to_visit = <<>>
    /\ instructions = <<>>
    /\ mid_op_stk = <<>> /\ tmp_opt_stk = <<>> /\ rpn_op_stk = <<>> /\ token = 1
    /\ opof = <<>> /\ rpn = 1 /\ const_expr = <<>>
    /\ pc = "block"

\* The constructor has come to the statement's expression.  The cast to
\* BlockItemAST does not look at the class, and only a statement sets stmtPtr:
\* anything else is read as what it is not, or through a null pointer, or stops at
\* the assertion of static_uptr_cast: "undefined" stands for each of these.
TakeStatement ==
    /\ pc = "block"
    /\ \/ /\ IsStatement(block)
          /\ to_visit' = <<block.stmt.expr>>
          /\ pc' = "traverse"
       \/ /\ ~IsStatement(block)
          /\ pc' = "undefined"
          /\ UNCHANGED to_visit
    /\ UNCHANGED <<mid_op_stk, token, tmp_opt_stk, rpn_op_stk, evalVars,
                   block, instructions>>

\* traverseExpr comes to a leaf: its text goes to the queue.
PushToken ==
    /\ pc = "traverse"
    /\ to_visit # <<>>
    /\ Head(to_visit).tid \in LeafClasses
    /\ mid_op_stk' = Append(mid_op_stk, Head(to_visit).tok)
    /\ to_visit' = Tail(to_visit)
    /\ UNCHANGED <<token, tmp_opt_stk, rpn_op_stk, pc, evalVars,
                   block, instructions>>

\* traverseExpr comes to any other node.
VisitNode ==
    /\ pc = "traverse"
    /\ to_visit # <<>>
    /\ Head(to_visit).tid \notin LeafClasses
    /\ to_visit' = Visits(Head(to_visit)) \o Tail(to_visit)
    /\ UNCHANGED <<convertVars, evalVars, block, instructions>>

\* Mutant of StartFolding: the queue is folded while it is being filled.
StartFoldingEarly ==
    /\ pc = "traverse"
    /\ tmp_opt_stk' = <<"#">>
    /\ pc' = "scan"
    /\ UNCHANGED <<mid_op_stk, token, rpn_op_stk, evalVars, blockVars>>

\* The outermost traverseExpr returns, midExpr2RPN pushes its marker.
StartFolding ==
    /\ pc = "traverse"
    /\ to_visit = <<>>
    /\ tmp_opt_stk' = <<"#">>
    /\ pc' = "scan"
    /\ UNCHANGED <<mid_op_stk, token, rpn_op_stk, evalVars, blockVars>>

FoldStep ==
    /\ EvalNext
    /\ UNCHANGED blockVars

\* __push_val_ of the return instruction.  The parser sets __ret_ for a return
\* statement only; for an assignment the constructor reads a null pointer.
PushVal ==
    /\ pc = "val"
    /\ \/ /\ block.stmt.sub = "Ret"
          /\ instructions' = Append(instructions, <<"ret", const_expr[1]>>)
          /\ pc' = "done"
       \/ /\ block.stmt.sub = "Lval"
          /\ pc' = "undefined"
          /\ UNCHANGED instructions
    /\ UNCHANGED <<mid_op_stk, token, tmp_opt_stk, rpn_op_stk, evalVars,
                   block, to_visit>>

Next == TakeStatement \/ PushToken \/ VisitNode \/ StartFolding \/ FoldStep \/ PushVal

Constructed ==
    /\ pc \in {"done", "abort", "trap", "undefined"}
    /\ UNCHANGED vars

\* What the constructor may do, and that it goes on.
BlockSafety == Init /\ [][Next \/ Constructed]_vars
Spec == BlockSafety /\ WF_vars(Next)

-----------------------------------------------------------------------------
(***************************************************************************)
(* The expressions the properties speak of: the trees that the classes of  *)
(* _ast.hpp allow, of any size.  Nodes is closed under operands.           *)
(***************************************************************************)
\* The sub types with one operand, those with two and an operator between them,
\* and those whose operator has no node.
OneOperand == {
    <<"EXPR", "">>, <<"PRIMARY_EXPR", "Num">>, <<"PRIMARY_EXPR", "Expr">>,
    <<"UNARY_EXPR", "Pri">>, <<"MUL_EXPR", "Una">>, <<"ADD_EXPR", "Mul">>,
    <<"REL_EXPR", "Add">>, <<"EQ_EXPR", "Rel">>, <<"LAND_EXPR", "Eq">>,
    <<"LOR_EXPR", "LAnd">> }
TwoOperands == {
    <<"MUL_EXPR", "Mul">>, <<"ADD_EXPR", "Add">>, <<"REL_EXPR", "Rel">>, <<"EQ_EXPR", "Eq">> }
Logical == { <<"LAND_EXPR", "LAnd">>, <<"LOR_EXPR", "LOr">> }

IsOperator(n) == n.tid \in {"UNARY_OP", "BINARY_OP", "CMP_OP"} /\ n.tok \in Opt

\* The node n has operands in N as its class says, or it is a literal or a variable.
IsExpression(n, N) ==
    \/ n.tid = "NUMBER" /\ n.tok \in Num /\ ~NamesVariable(n)
    \/ n.tid = "PRIMARY_EXPR" /\ n.sub = "LVal" /\ NamesVariable(n)
    \/ /\ <<n.tid, n.sub>> \in OneOperand
       /\ n.kids = <<n.kids[1]>> /\ n.kids[1] \in N
       /\ NamesVariable(n) <=> NamesVariable(n.kids[1])
    \/ /\ n.tid = "UNARY_EXPR" /\ n.sub = "Una"
       /\ n.kids = <<n.kids[1], n.kids[2]>> /\ n.kids[2] \in N
       /\ IsOperator(n.kids[1])
       /\ NamesVariable(n) <=> NamesVariable(n.kids[2])
    \/ /\ <<n.tid, n.sub>> \in TwoOperands
       /\ n.kids = <<n.kids[1], n.kids[2], n.kids[3]>> /\ {n.kids[1], n.kids[3]} \subseteq N
       /\ IsOperator(n.kids[2])
       /\ NamesVariable(n) <=> NamesVariable(n.kids[1]) \/ NamesVariable(n.kids[3])
    \/ /\ <<n.tid, n.sub>> \in Logical
       /\ n.kids = <<n.kids[1], n.kids[2]>> /\ {n.kids[1], n.kids[2]} \subseteq N
       /\ NamesVariable(n) <=> NamesVariable(n.kids[1]) \/ NamesVariable(n.kids[2])

\* N has the expressions of all statements in B, and their operands.
AreNodesOf(N, B) ==
    /\ \A n \in N : IsExpression(n, N)
    /\ \A b \in B : IsStatement(b) => b.stmt.expr \in N

ASSUME NodesAssumption ==
    /\ "0" \in Num /\ {"&&", "||"} \subseteq Opt
    /\ AreNodesOf(Nodes, BlockContents)

HasStatement == IsStatement(block)

-----------------------------------------------------------------------------
(***************************************************************************)
(* Properties.                                                             *)
(***************************************************************************)
\* The type invariant of the constructor: the fields that a later step fills
\* are empty before it, and one return instruction is there at the end.
BlockTypeOK ==
    /\ pc \in {"block", "traverse", "scan", "eval", "val", "done",
               "abort", "trap", "undefined"}
    /\ pc = "block" => to_visit = <<>>
    /\ pc \in {"block", "traverse"} =>
          tmp_opt_stk = <<>> /\ rpn_op_stk = <<>> /\ opof = <<>> /\ const_expr = <<>>
    /\ pc \notin {"block", "traverse"} => to_visit = <<>>
    /\ instructions \in {<<>>} \cup {<< <<"ret", v>> >> : v \in I32}
    /\ pc = "done" <=> instructions # <<>>

\* The queue traverseExpr leaves for midExpr2RPN is an infix expression if the
\* statement's expression names no variable: the parentheses and the 0 that it
\* puts around a unary operator balance, whatever they are nested in.  If it
\* names one, the parentheses still match, and operands are missing.
QueueIsInfix ==
    HasStatement /\ pc \notin {"block", "traverse"} =>
        IF NamesVariable(block.stmt.expr)
        THEN Balanced(mid_op_stk) /\ Height(mid_op_stk, Len(mid_op_stk)) <= 0
        ELSE WellFormed(mid_op_stk)

\* How the constructor may end: without a variable in the expression a return
\* never reads a stack that is empty, and with one there is no instruction.
ReturnsConstantsOnly ==
    HasStatement =>
        IF NamesVariable(block.stmt.expr)
        THEN pc # "done"
        ELSE block.stmt.sub = "Ret" => pc # "undefined"
=============================================================================
