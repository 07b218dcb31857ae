------------------------------- MODULE Grammar -------------------------------
(***************************************************************************)
(* The grammar of src/src/sysy.y: its rules in order, each with the node   *)
(* that its action builds.                                                 *)
(*                                                                         *)
(* A character token is written as itself; the tokens that the rules write *)
(* in double quotes, which for Bison are tokens of their own, as "str;",   *)
(* "str," and "str=".                                                      *)
(***************************************************************************)
EXTENDS Integers, SequencesExt

\* lhs : rhs, whose action builds a node of the class tid with the tag sub, which
\* owns the sub-trees at the positions kids of rhs and is given the text of the
\* token at the position own, if that is not 0.
Rule(lhs, rhs, tid, sub, kids, own) ==
    [lhs |-> lhs, rhs |-> rhs, tid |-> tid, sub |-> sub, kids |-> kids, own |-> own]

ProgramRules == <<
    Rule("CompUnit", <<"FuncDef">>, "COMP_UNIT", "", <<1>>, 0),
    Rule("FuncDef", <<"FuncType", "IDENT", "(", ")", "Block">>,
         "FUNC_DEF", "", <<1, 5>>, 2),
    Rule("FuncType", <<"INT">>, "FUNC_TYPE", "", <<>>, 0),
    Rule("Block", <<"{", "BlockItems", "}">>, "BLOCK", "", <<2>>, 0) >>

ItemRules == <<
    Rule("BlockItems", <<>>, "BLOCK_ITEMS", "Null", <<>>, 0),
    Rule("BlockItems", <<"BlockItem", "BlockItems">>, "BLOCK_ITEMS", "Recv", <<1, 2>>, 0),
    Rule("BlockItem", <<"Decl">>, "BLOCK_ITEM", "Decl", <<1>>, 0),
    Rule("BlockItem", <<"Stmt">>, "BLOCK_ITEM", "Stmt", <<1>>, 0),
    Rule("BlockItem", <<>>, "BLOCK_ITEM", "Null", <<>>, 0) >>

ConstRules == <<
    Rule("Decl", <<"ConstDecl">>, "DECL", "", <<1>>, 0),
    Rule("Decl", <<"VarDecl">>, "", "", <<1>>, 0),
    Rule("ConstDecl", <<"CONST", "BType", "ConstDef", "ConstDefs", "str;">>,
         "CONST_DECL", "", <<2, 3, 4>>, 0),
    Rule("BType", <<"INT">>, "BTYPE", "", <<>>, 0),
    Rule("ConstDefs", <<>>, "CONST_DEFS", "Null", <<>>, 0),
    Rule("ConstDefs", <<"str,", "ConstDef", "ConstDefs">>, "CONST_DEFS", "Recr", <<2, 3>>, 0),
    Rule("ConstDef", <<"IDENT", "str=", "ConstInitVal">>, "CONST_DEF", "", <<3>>, 1),
    Rule("ConstInitVal", <<"ConstExp">>, "CONST_INIT_VAL", "", <<1>>, 0),
    Rule("ConstExp", <<"Exp">>, "CONST_EXPR", "", <<1>>, 0) >>

\* Their actions are empty: $$ is what Bison leaves in it, the first value.
VarRules == <<
    Rule("VarDecl", <<"BType", "VarDef", "VarDefs", "str;">>, "", "", <<1>>, 0),
    Rule("VarDefs", <<"str,", "VarDef", "VarDefs">>, "", "", <<>>, 1),
    Rule("VarDef", <<"IDENT">>, "", "", <<>>, 1),
    Rule("VarDef", <<"IDENT", "str=", "InitVal">>, "", "", <<>>, 1),
    Rule("InitVal", <<"Exp">>, "", "", <<1>>, 0) >>

\* Mutant of StmtRules: the ";" of return in double quotes, as the others.
StmtRulesStr == <<
    Rule("Stmt", <<"LVal", "str=", "Exp", "str;">>, "STMT", "Lval", <<1, 3>>, 0),
    Rule("Stmt", <<"RETURN", "Exp", "str;">>, "STMT", "Ret", <<2>>, 0),
    Rule("Exp", <<"LOrExp">>, "EXPR", "", <<1>>, 0) >>

StmtRules == <<
    Rule("Stmt", <<"LVal", "str=", "Exp", "str;">>, "STMT", "Lval", <<1, 3>>, 0),
    Rule("Stmt", <<"RETURN", "Exp", ";">>, "STMT", "Ret", <<2>>, 0),
    Rule("Exp", <<"LOrExp">>, "EXPR", "", <<1>>, 0) >>

OperandRules == <<
    Rule("PrimaryExp", <<"(", "Exp", ")">>, "PRIMARY_EXPR", "Expr", <<2>>, 0),
    Rule("PrimaryExp", <<"Number">>, "PRIMARY_EXPR", "Num", <<1>>, 0),
    Rule("PrimaryExp", <<"LVal">>, "PRIMARY_EXPR", "LVal", <<1>>, 0),
    Rule("LVal", <<"IDENT">>, "LVAL", "", <<>>, 1),
    Rule("Number", <<"INT_CONST">>, "NUMBER", "", <<>>, 1),
    Rule("UnaryExp", <<"PrimaryExp">>, "UNARY_EXPR", "Pri", <<1>>, 0),
    Rule("UnaryExp", <<"UnaryOp", "UnaryExp">>, "UNARY_EXPR", "Una", <<1, 2>>, 0),
    Rule("UnaryOp", <<"OPT">>, "UNARY_OP", "", <<>>, 1) >>

ArithmeticRules == <<
    Rule("MulExp", <<"UnaryExp">>, "MUL_EXPR", "Una", <<1>>, 0),
    Rule("MulExp", <<"MulExp", "BinOp", "UnaryExp">>, "MUL_EXPR", "Mul", <<1, 2, 3>>, 0),
    Rule("AddExp", <<"MulExp">>, "ADD_EXPR", "Mul", <<1>>, 0),
    Rule("AddExp", <<"AddExp", "BinOp", "MulExp">>, "ADD_EXPR", "Add", <<1, 2, 3>>, 0),
    Rule("BinOp", <<"OPT">>, "BINARY_OP", "", <<>>, 1) >>

RelationRules == <<
    Rule("RelExp", <<"AddExp">>, "REL_EXPR", "Add", <<1>>, 0),
    Rule("RelExp", <<"RelExp", "CmpOp", "AddExp">>, "REL_EXPR", "Rel", <<1, 2, 3>>, 0),
    Rule("EqExp", <<"RelExp">>, "EQ_EXPR", "Rel", <<1>>, 0),
    Rule("EqExp", <<"EqExp", "CmpOp", "RelExp">>, "EQ_EXPR", "Eq", <<1, 2, 3>>, 0),
    Rule("CmpOp", <<"OPT">>, "CMP_OP", "", <<>>, 1) >>

LogicRules == <<
    Rule("LAndExp", <<"EqExp">>, "LAND_EXPR", "Eq", <<1>>, 0),
    Rule("LAndExp", <<"LAndExp", "OPT", "EqExp">>, "LAND_EXPR", "LAnd", <<1, 3>>, 2),
    Rule("LOrExp", <<"LAndExp">>, "LOR_EXPR", "LAnd", <<1>>, 0),
    Rule("LOrExp", <<"LOrExp", "OPT", "LAndExp">>, "LOR_EXPR", "LOr", <<1, 3>>, 2) >>

WrittenRules ==
    ProgramRules \o ItemRules \o ConstRules \o VarRules \o StmtRules
    \o OperandRules \o ArithmeticRules \o RelationRules \o LogicRules

Nonterminals == {WrittenRules[i].lhs : i \in DOMAIN WrittenRules}

-----------------------------------------------------------------------------
\* The n-th iterate of F on the set S.  (P is bound by a set of one element, not
\* by LET, so that TLC evaluates each iterate once.)
Iterate(F(_), S, n) ==
    LET Round[k \in 0..n] ==
            IF k = 0 THEN S ELSE UNION {F(P) : P \in {Round[k-1]}}
    IN  Round[n]

Derivable(P) ==
    {rule.lhs : rule \in {r \in Range(WrittenRules) :
                             Range(r.rhs) \cap Nonterminals \subseteq P}}

\* The nonterminals from which some text can be derived: VarDefs has no rule
\* that ends its recursion.
Productive == Iterate(Derivable, {}, Cardinality(Nonterminals))

\* Bison adds a rule that ends the program.
Rules == <<Rule("$accept", <<"CompUnit", "$end">>, "", "", <<1>>, 0)>> \o WrittenRules

\* And it drops the rules with an unproductive nonterminal.
Useful == {i \in DOMAIN Rules :
              (Range(Rules[i].rhs) \cup {Rules[i].lhs}) \cap Nonterminals \subseteq Productive}

-----------------------------------------------------------------------------
\* A state of the automaton is the set of the items <<rule, dot>> it was entered
\* with: the first dot symbols of the rule are on the stack.
StartState == {<<1, 0>>}

AfterDot(item) ==
    LET rhs == Rules[item[1]].rhs
    IN  IF item[2] < Len(rhs) THEN {rhs[item[2] + 1]} ELSE {}

Begins(A, rule) ==
    A = rule.lhs /\ Len(rule.rhs) > 0 /\ rule.rhs[1] \in Nonterminals

Extended(P) ==
    P \cup {<<c[1][1], Rules[c[2]].rhs[1]>> : c \in
              {d \in P \X Useful : Begins(d[1][2], Rules[d[2]])}}

\* The pairs <<A, B>> of nonterminals where an expansion of A may begin with B.
LeftCorners ==
    Iterate(Extended, {<<A, A>> : A \in Nonterminals}, Cardinality(Nonterminals))

\* The pairs <<A, i>> where an expansion of A may begin with rule i.
Predicted ==
    {<<p[1][1], p[2]>> : p \in {q \in LeftCorners \X Useful :
                                  q[1][2] = Rules[q[2]].lhs}}

Items(state) ==
    state \cup {<<p[2], 0>> : p \in {q \in Predicted :
                                     \E item \in state : q[1] \in AfterDot(item)}}

Goto(state, X) ==
    {<<item[1], item[2] + 1>> : item \in {it \in Items(state) : X \in AfterDot(it)}}

\* The rules whose whole right-hand side is on the stack.
Complete(state) ==
    {item[1] : item \in {it \in Items(state) : AfterDot(it) = {}}}
=============================================================================
