---------------------------- MODULE MCBasicBlockIR ----------------------------
(***************************************************************************)
(* Instances of BasicBlockIR.  The parser's trees are chains of unary      *)
(* expressions at the level MUL_EXPR with one node of each level above     *)
(* them; the trees with two operands at a higher level are those that      *)
(* traverseExpr has a case for, and that the parser never builds.          *)
(***************************************************************************)
EXTENDS ExprMeaning, OptTable, I32

\* A literal is negative when the lexer has truncated it to an int.
MCIntOf == [t \in {"0", "3", "-1"} |->
               IF t = "0" THEN 0 ELSE IF t = "3" THEN 3 ELSE -1]
MCNum == DOMAIN MCIntOf
MCToken == MCNum \cup TableOpt \cup {"(", ")"}

-----------------------------------------------------------------------------
Node(tid, sub, kids) == [tid |-> tid, sub |-> sub, tok |-> "", kids |-> kids]

Primary(sub, kids) == Node("UNARY_EXPR", "Pri", <<Node("PRIMARY_EXPR", sub, kids)>>)
Number(t) == Primary("Num", <<Leaf("NUMBER", t)>>)
Variable == Primary("LVal", <<>>)
Paren(e) == Primary("Expr", <<e>>)
Unary(o, u) == Node("UNARY_EXPR", "Una", <<Leaf("UNARY_OP", o), u>>)

Mul1(u) == Node("MUL_EXPR", "Una", <<u>>)
Mul2(m, o, u) == Node("MUL_EXPR", "Mul", <<m, Leaf("BINARY_OP", o), u>>)
Add1(m) == Node("ADD_EXPR", "Mul", <<m>>)
Rel1(a) == Node("REL_EXPR", "Add", <<a>>)
Eq1(r) == Node("EQ_EXPR", "Rel", <<r>>)
LAnd1(e) == Node("LAND_EXPR", "Eq", <<e>>)
LOr1(l) == Node("LOR_EXPR", "LAnd", <<l>>)
Expr(l) == Node("EXPR", "", <<l>>)

ExprOfMul(m) == Expr(LOr1(LAnd1(Eq1(Rel1(Add1(m))))))

BinOps == {"-", "/", "&&"}
Literals == {Number("3"), Number("-1")}
Simple == Literals \cup {Variable}
Signed(U) == {Unary(o, u) : o \in {"-", "!"}, u \in U}
Chain2(U) == {Mul2(Mul1(u), o, v) : u \in U, o \in BinOps, v \in U}
Chain3(U) == {Mul2(c, o, v) : c \in Chain2(U), o \in BinOps, v \in U}
Parens(C) == {Paren(ExprOfMul(c)) : c \in C}

\* Chains of one, two and three operands; the operands of short chains are
\* nested deeper.
InParens == Parens(Chain2(Simple))
ParserTrees ==
    {ExprOfMul(m) :
        m \in {Mul1(u) : u \in Signed(Signed(Simple)) \cup Signed(InParens)
                               \cup Parens(Chain2(Literals \cup Signed(Literals)))}
              \cup Chain2(Simple \cup Signed(Literals) \cup Parens(Chain2(Literals)))
              \cup Chain3(Literals \cup {Unary("!", Number("3"))})}

\* Two operands at each level above MUL_EXPR.
OtherTrees ==
    UNION {LET a == Add1(Mul1(u))
               b == Add1(Mul1(v))
               BinOp == Leaf("BINARY_OP", "-")
               CmpOp == Leaf("CMP_OP", "<")
               add == Node("ADD_EXPR", "Add", <<a, BinOp, Mul1(v)>>)
               rel == Node("REL_EXPR", "Rel", <<Rel1(a), CmpOp, b>>)
               eq == Node("EQ_EXPR", "Eq", <<Eq1(Rel1(a)), CmpOp, Rel1(b)>>)
               land == Node("LAND_EXPR", "LAnd", <<LAnd1(Eq1(Rel1(a))), Eq1(Rel1(b))>>)
               lor == Node("LOR_EXPR", "LOr",
                           <<LOr1(LAnd1(Eq1(Rel1(a)))), LAnd1(Eq1(Rel1(b)))>>)
           IN  {Expr(LOr1(LAnd1(Eq1(Rel1(add))))), Expr(LOr1(LAnd1(Eq1(rel)))),
                Expr(LOr1(LAnd1(eq))), Expr(LOr1(land)), Expr(lor)} :
           <<u, v>> \in Simple \X Simple}

Statement(sub, e) ==
    [tid |-> "BLOCK_ITEM", sub |-> "Stmt", stmt |-> [sub |-> sub, expr |-> e]]

\* The items of a block, and the list of items the parser puts in their place.
MCBlockContents ==
    {Statement("Ret", e) : e \in ParserTrees \cup OtherTrees}
    \cup {Statement("Lval", ExprOfMul(Mul1(u))) : u \in Simple}
    \cup {[tid |-> "BLOCK_ITEM", sub |-> s] : s \in {"Decl", "Null"}}
    \cup {[tid |-> "BLOCK_ITEMS", sub |-> "Recv"]}

-----------------------------------------------------------------------------
RECURSIVE NodesOf(_), MCNamesVariable(_), MCLevels(_)
NodesOf(n) ==
    IF IsOperator(n) THEN {} ELSE {n} \cup UNION {NodesOf(n.kids[k]) : k \in DOMAIN n.kids}

MCNodes == UNION {NodesOf(b.stmt.expr) : b \in {c \in MCBlockContents : IsStatement(c)}}

MCNamesVariable(n) ==
    \/ n.tid = "PRIMARY_EXPR" /\ n.sub = "LVal"
    \/ \E k \in DOMAIN n.kids : MCNamesVariable(n.kids[k])

MCLevels(n) == Max({0} \cup {1 + MCLevels(n.kids[k]) : k \in DOMAIN n.kids})
=============================================================================
