------------------------- MODULE SyntaxTree_proofs -------------------------
(***************************************************************************)
(* Proofs about Parser, ParserTrees, SyntaxTree and Collect, for programs  *)
(* of every size: which programs are accepted, and what the actions of the *)
(* rules leave on the value stack.                                         *)
(*                                                                         *)
(* By ParserTraced a stack is a path through the states that Parser_proofs *)
(* works out, and a reduction is one of a few. Every value has the class   *)
(* that its state stands for, and every node the shape that its rule gives *)
(* it (ParserPlants); what is said about the chains of operators and about *)
(* the statements that are accepted follows. The states tell where in the  *)
(* program the parser is: the reader of AcceptedExactly, which never looks *)
(* at the table, agrees with the stack after every step (ParserLocates),   *)
(* so that the parser accepts what the reader accepts                      *)
(* (ParserAcceptsExactly).                                                 *)
(*                                                                         *)
(* Something on the stack stands for the return statements that were read, *)
(* and nothing does without one (ParserKeepsReturns), so that the list of  *)
(* an accepted program has a first item exactly if it returns something.   *)
(* The texts of the tokens below the values, in order, are those that were *)
(* read (ParserSpells): the texts of a tree are a recursive function of    *)
(* the heap, which is why their unfolding is proved first (TextsIs), from  *)
(* the kids of a node being older than the node.                           *)
(*                                                                         *)
(* What log would print of a tree is a recursive function of the heap as   *)
(* well, and unfolds (DumpIs) because every node is one that log has a     *)
(* case for (ParserPrintable). Behind the last return, the dumps of the    *)
(* values on the stack are the program, its int literals as the ints that  *)
(* were read of them (ParserDumps): a rule of expressions prints what its  *)
(* right-hand side prints, and the other rules leave no return on the      *)
(* stack. The second token names the function (ParserNames), so that the   *)
(* dump of an accepted program is its header (ParserDumpsHeader).          *)
(*                                                                         *)
(* Last comes collect, which loops once at most: CollectInv says what its  *)
(* pointers hold at each step in terms of the two fields of the list.      *)
(***************************************************************************)
EXTENDS Collect, Parser_proofs

-----------------------------------------------------------------------------
(***************************************************************************)
(* The trees that the actions build.                                       *)
(***************************************************************************)
\* What node the action of rule i builds.
Tree(i, tid, sub, kids, own) ==
    /\ Rules[i].tid = tid /\ Rules[i].sub = sub
    /\ Rules[i].kids = kids /\ Rules[i].own = own

\* The nodes of the rules 2 to 5 that are reduced.
LEMMA ProgramTrees ==
    /\ Tree(2, "COMP_UNIT", "", <<1>>, 0)
    /\ Tree(3, "FUNC_DEF", "", <<1, 5>>, 2)
    /\ Tree(4, "FUNC_TYPE", "", <<>>, 0)
    /\ Tree(5, "BLOCK", "", <<2>>, 0)
<1>1. Tree(2, "COMP_UNIT", "", <<1>>, 0)
  <2>1. PartAt(Rules, ProgramRules, 1, 4)
    BY RuleNumbers
  <2>2. Rules[2] = ProgramRules[1]
    BY <2>1 DEF PartAt
  <2>3. /\ ProgramRules[1].tid = "COMP_UNIT" /\ ProgramRules[1].sub = ""
        /\ ProgramRules[1].kids = <<1>> /\ ProgramRules[1].own = 0
    BY DEF ProgramRules, Rule
  <2> QED
    BY <2>2, <2>3 DEF Tree
<1>2. Tree(3, "FUNC_DEF", "", <<1, 5>>, 2)
  <2>1. PartAt(Rules, ProgramRules, 1, 4)
    BY RuleNumbers
  <2>2. Rules[3] = ProgramRules[2]
    BY <2>1 DEF PartAt
  <2>3. /\ ProgramRules[2].tid = "FUNC_DEF" /\ ProgramRules[2].sub = ""
        /\ ProgramRules[2].kids = <<1, 5>> /\ ProgramRules[2].own = 2
    BY DEF ProgramRules, Rule
  <2> QED
    BY <2>2, <2>3 DEF Tree
<1>3. Tree(4, "FUNC_TYPE", "", <<>>, 0)
  <2>1. PartAt(Rules, ProgramRules, 1, 4)
    BY RuleNumbers
  <2>2. Rules[4] = ProgramRules[3]
    BY <2>1 DEF PartAt
  <2>3. /\ ProgramRules[3].tid = "FUNC_TYPE" /\ ProgramRules[3].sub = ""
        /\ ProgramRules[3].kids = <<>> /\ ProgramRules[3].own = 0
    BY DEF ProgramRules, Rule
  <2> QED
    BY <2>2, <2>3 DEF Tree
<1>4. Tree(5, "BLOCK", "", <<2>>, 0)
  <2>1. PartAt(Rules, ProgramRules, 1, 4)
    BY RuleNumbers
  <2>2. Rules[5] = ProgramRules[4]
    BY <2>1 DEF PartAt
  <2>3. /\ ProgramRules[4].tid = "BLOCK" /\ ProgramRules[4].sub = ""
        /\ ProgramRules[4].kids = <<2>> /\ ProgramRules[4].own = 0
    BY DEF ProgramRules, Rule
  <2> QED
    BY <2>2, <2>3 DEF Tree
<1> QED
  BY <1>1, <1>2, <1>3, <1>4

\* The nodes of the rules 6 to 14 that are reduced.
LEMMA ItemTrees ==
    /\ Tree(6, "BLOCK_ITEMS", "Null", <<>>, 0)
    /\ Tree(7, "BLOCK_ITEMS", "Recv", <<1, 2>>, 0)
    /\ Tree(9, "BLOCK_ITEM", "Stmt", <<1>>, 0)
    /\ Tree(14, "BTYPE", "", <<>>, 0)
<1>1. Tree(6, "BLOCK_ITEMS", "Null", <<>>, 0)
  <2>1. PartAt(Rules, ItemRules, 5, 5)
    BY RuleNumbers
  <2>2. Rules[6] = ItemRules[1]
    BY <2>1 DEF PartAt
  <2>3. /\ ItemRules[1].tid = "BLOCK_ITEMS" /\ ItemRules[1].sub = "Null"
        /\ ItemRules[1].kids = <<>> /\ ItemRules[1].own = 0
    BY DEF ItemRules, Rule
  <2> QED
    BY <2>2, <2>3 DEF Tree
<1>2. Tree(7, "BLOCK_ITEMS", "Recv", <<1, 2>>, 0)
  <2>1. PartAt(Rules, ItemRules, 5, 5)
    BY RuleNumbers
  <2>2. Rules[7] = ItemRules[2]
    BY <2>1 DEF PartAt
  <2>3. /\ ItemRules[2].tid = "BLOCK_ITEMS" /\ ItemRules[2].sub = "Recv"
        /\ ItemRules[2].kids = <<1, 2>> /\ ItemRules[2].own = 0
    BY DEF ItemRules, Rule
  <2> QED
    BY <2>2, <2>3 DEF Tree
<1>3. Tree(9, "BLOCK_ITEM", "Stmt", <<1>>, 0)
  <2>1. PartAt(Rules, ItemRules, 5, 5)
    BY RuleNumbers
  <2>2. Rules[9] = ItemRules[4]
    BY <2>1 DEF PartAt
  <2>3. /\ ItemRules[4].tid = "BLOCK_ITEM" /\ ItemRules[4].sub = "Stmt"
        /\ ItemRules[4].kids = <<1>> /\ ItemRules[4].own = 0
    BY DEF ItemRules, Rule
  <2> QED
    BY <2>2, <2>3 DEF Tree
<1>4. Tree(14, "BTYPE", "", <<>>, 0)
  <2>1. PartAt(Rules, ConstRules, 10, 9)
    BY RuleNumbers
  <2>2. Rules[14] = ConstRules[4]
    BY <2>1 DEF PartAt
  <2>3. /\ ConstRules[4].tid = "BTYPE" /\ ConstRules[4].sub = ""
        /\ ConstRules[4].kids = <<>> /\ ConstRules[4].own = 0
    BY DEF ConstRules, Rule
  <2> QED
    BY <2>2, <2>3 DEF Tree
<1> QED
  BY <1>1, <1>2, <1>3, <1>4

\* The nodes of the rules 26 to 27 that are reduced.
LEMMA StmtTrees ==
    /\ Tree(26, "STMT", "Ret", <<2>>, 0)
    /\ Tree(27, "EXPR", "", <<1>>, 0)
<1>1. Tree(26, "STMT", "Ret", <<2>>, 0)
  <2>1. PartAt(Rules, StmtRules, 24, 3)
    BY RuleNumbers
  <2>2. Rules[26] = StmtRules[2]
    BY <2>1 DEF PartAt
  <2>3. /\ StmtRules[2].tid = "STMT" /\ StmtRules[2].sub = "Ret"
        /\ StmtRules[2].kids = <<2>> /\ StmtRules[2].own = 0
    BY DEF StmtRules, Rule
  <2> QED
    BY <2>2, <2>3 DEF Tree
<1>2. Tree(27, "EXPR", "", <<1>>, 0)
  <2>1. PartAt(Rules, StmtRules, 24, 3)
    BY RuleNumbers
  <2>2. Rules[27] = StmtRules[3]
    BY <2>1 DEF PartAt
  <2>3. /\ StmtRules[3].tid = "EXPR" /\ StmtRules[3].sub = ""
        /\ StmtRules[3].kids = <<1>> /\ StmtRules[3].own = 0
    BY DEF StmtRules, Rule
  <2> QED
    BY <2>2, <2>3 DEF Tree
<1> QED
  BY <1>1, <1>2

\* The nodes of the rules 28 to 35 that are reduced.
LEMMA OperandTrees ==
    /\ Tree(28, "PRIMARY_EXPR", "Expr", <<2>>, 0)
    /\ Tree(29, "PRIMARY_EXPR", "Num", <<1>>, 0)
    /\ Tree(30, "PRIMARY_EXPR", "LVal", <<1>>, 0)
    /\ Tree(31, "LVAL", "", <<>>, 1)
    /\ Tree(32, "NUMBER", "", <<>>, 1)
    /\ Tree(33, "UNARY_EXPR", "Pri", <<1>>, 0)
    /\ Tree(34, "UNARY_EXPR", "Una", <<1, 2>>, 0)
    /\ Tree(35, "UNARY_OP", "", <<>>, 1)
<1>1. Tree(28, "PRIMARY_EXPR", "Expr", <<2>>, 0)
  <2>1. PartAt(Rules, OperandRules, 27, 8)
    BY RuleNumbers
  <2>2. Rules[28] = OperandRules[1]
    BY <2>1 DEF PartAt
  <2>3. /\ OperandRules[1].tid = "PRIMARY_EXPR" /\ OperandRules[1].sub = "Expr"
        /\ OperandRules[1].kids = <<2>> /\ OperandRules[1].own = 0
    BY DEF OperandRules, Rule
  <2> QED
    BY <2>2, <2>3 DEF Tree
<1>2. Tree(29, "PRIMARY_EXPR", "Num", <<1>>, 0)
  <2>1. PartAt(Rules, OperandRules, 27, 8)
    BY RuleNumbers
  <2>2. Rules[29] = OperandRules[2]
    BY <2>1 DEF PartAt
  <2>3. /\ OperandRules[2].tid = "PRIMARY_EXPR" /\ OperandRules[2].sub = "Num"
        /\ OperandRules[2].kids = <<1>> /\ OperandRules[2].own = 0
    BY DEF OperandRules, Rule
  <2> QED
    BY <2>2, <2>3 DEF Tree
<1>3. Tree(30, "PRIMARY_EXPR", "LVal", <<1>>, 0)
  <2>1. PartAt(Rules, OperandRules, 27, 8)
    BY RuleNumbers
  <2>2. Rules[30] = OperandRules[3]
    BY <2>1 DEF PartAt
  <2>3. /\ OperandRules[3].tid = "PRIMARY_EXPR" /\ OperandRules[3].sub = "LVal"
        /\ OperandRules[3].kids = <<1>> /\ OperandRules[3].own = 0
    BY DEF OperandRules, Rule
  <2> QED
    BY <2>2, <2>3 DEF Tree
<1>4. Tree(31, "LVAL", "", <<>>, 1)
  <2>1. PartAt(Rules, OperandRules, 27, 8)
    BY RuleNumbers
  <2>2. Rules[31] = OperandRules[4]
    BY <2>1 DEF PartAt
  <2>3. /\ OperandRules[4].tid = "LVAL" /\ OperandRules[4].sub = ""
        /\ OperandRules[4].kids = <<>> /\ OperandRules[4].own = 1
    BY DEF OperandRules, Rule
  <2> QED
    BY <2>2, <2>3 DEF Tree
<1>5. Tree(32, "NUMBER", "", <<>>, 1)
  <2>1. PartAt(Rules, OperandRules, 27, 8)
    BY RuleNumbers
  <2>2. Rules[32] = OperandRules[5]
    BY <2>1 DEF PartAt
  <2>3. /\ OperandRules[5].tid = "NUMBER" /\ OperandRules[5].sub = ""
        /\ OperandRules[5].kids = <<>> /\ OperandRules[5].own = 1
    BY DEF OperandRules, Rule
  <2> QED
    BY <2>2, <2>3 DEF Tree
<1>6. Tree(33, "UNARY_EXPR", "Pri", <<1>>, 0)
  <2>1. PartAt(Rules, OperandRules, 27, 8)
    BY RuleNumbers
  <2>2. Rules[33] = OperandRules[6]
    BY <2>1 DEF PartAt
  <2>3. /\ OperandRules[6].tid = "UNARY_EXPR" /\ OperandRules[6].sub = "Pri"
        /\ OperandRules[6].kids = <<1>> /\ OperandRules[6].own = 0
    BY DEF OperandRules, Rule
  <2> QED
    BY <2>2, <2>3 DEF Tree
<1>7. Tree(34, "UNARY_EXPR", "Una", <<1, 2>>, 0)
  <2>1. PartAt(Rules, OperandRules, 27, 8)
    BY RuleNumbers
  <2>2. Rules[34] = OperandRules[7]
    BY <2>1 DEF PartAt
  <2>3. /\ OperandRules[7].tid = "UNARY_EXPR" /\ OperandRules[7].sub = "Una"
        /\ OperandRules[7].kids = <<1, 2>> /\ OperandRules[7].own = 0
    BY DEF OperandRules, Rule
  <2> QED
    BY <2>2, <2>3 DEF Tree
<1>8. Tree(35, "UNARY_OP", "", <<>>, 1)
  <2>1. PartAt(Rules, OperandRules, 27, 8)
    BY RuleNumbers
  <2>2. Rules[35] = OperandRules[8]
    BY <2>1 DEF PartAt
  <2>3. /\ OperandRules[8].tid = "UNARY_OP" /\ OperandRules[8].sub = ""
        /\ OperandRules[8].kids = <<>> /\ OperandRules[8].own = 1
    BY DEF OperandRules, Rule
  <2> QED
    BY <2>2, <2>3 DEF Tree
<1> QED
  BY <1>1, <1>2, <1>3, <1>4, <1>5, <1>6, <1>7, <1>8

\* The nodes of the rules 36 to 40 that are reduced.
LEMMA ArithmeticTrees ==
    /\ Tree(36, "MUL_EXPR", "Una", <<1>>, 0)
    /\ Tree(37, "MUL_EXPR", "Mul", <<1, 2, 3>>, 0)
    /\ Tree(38, "ADD_EXPR", "Mul", <<1>>, 0)
    /\ Tree(40, "BINARY_OP", "", <<>>, 1)
<1>1. Tree(36, "MUL_EXPR", "Una", <<1>>, 0)
  <2>1. PartAt(Rules, ArithmeticRules, 35, 5)
    BY RuleNumbers
  <2>2. Rules[36] = ArithmeticRules[1]
    BY <2>1 DEF PartAt
  <2>3. /\ ArithmeticRules[1].tid = "MUL_EXPR" /\ ArithmeticRules[1].sub = "Una"
        /\ ArithmeticRules[1].kids = <<1>> /\ ArithmeticRules[1].own = 0
    BY DEF ArithmeticRules, Rule
  <2> QED
    BY <2>2, <2>3 DEF Tree
<1>2. Tree(37, "MUL_EXPR", "Mul", <<1, 2, 3>>, 0)
  <2>1. PartAt(Rules, ArithmeticRules, 35, 5)
    BY RuleNumbers
  <2>2. Rules[37] = ArithmeticRules[2]
    BY <2>1 DEF PartAt
  <2>3. /\ ArithmeticRules[2].tid = "MUL_EXPR" /\ ArithmeticRules[2].sub = "Mul"
        /\ ArithmeticRules[2].kids = <<1, 2, 3>> /\ ArithmeticRules[2].own = 0
    BY DEF ArithmeticRules, Rule
  <2> QED
    BY <2>2, <2>3 DEF Tree
<1>3. Tree(38, "ADD_EXPR", "Mul", <<1>>, 0)
  <2>1. PartAt(Rules, ArithmeticRules, 35, 5)
    BY RuleNumbers
  <2>2. Rules[38] = ArithmeticRules[3]
    BY <2>1 DEF PartAt
  <2>3. /\ ArithmeticRules[3].tid = "ADD_EXPR" /\ ArithmeticRules[3].sub = "Mul"
        /\ ArithmeticRules[3].kids = <<1>> /\ ArithmeticRules[3].own = 0
    BY DEF ArithmeticRules, Rule
  <2> QED
    BY <2>2, <2>3 DEF Tree
<1>4. Tree(40, "BINARY_OP", "", <<>>, 1)
  <2>1. PartAt(Rules, ArithmeticRules, 35, 5)
    BY RuleNumbers
  <2>2. Rules[40] = ArithmeticRules[5]
    BY <2>1 DEF PartAt
  <2>3. /\ ArithmeticRules[5].tid = "BINARY_OP" /\ ArithmeticRules[5].sub = ""
        /\ ArithmeticRules[5].kids = <<>> /\ ArithmeticRules[5].own = 1
    BY DEF ArithmeticRules, Rule
  <2> QED
    BY <2>2, <2>3 DEF Tree
<1> QED
  BY <1>1, <1>2, <1>3, <1>4

\* The nodes of the rules 41 to 48 that are reduced.
LEMMA ChainTrees ==
    /\ Tree(41, "REL_EXPR", "Add", <<1>>, 0)
    /\ Tree(43, "EQ_EXPR", "Rel", <<1>>, 0)
    /\ Tree(46, "LAND_EXPR", "Eq", <<1>>, 0)
    /\ Tree(48, "LOR_EXPR", "LAnd", <<1>>, 0)
<1>1. Tree(41, "REL_EXPR", "Add", <<1>>, 0)
  <2>1. PartAt(Rules, RelationRules, 40, 5)
    BY RuleNumbers
  <2>2. Rules[41] = RelationRules[1]
    BY <2>1 DEF PartAt
  <2>3. /\ RelationRules[1].tid = "REL_EXPR" /\ RelationRules[1].sub = "Add"
        /\ RelationRules[1].kids = <<1>> /\ RelationRules[1].own = 0
    BY DEF RelationRules, Rule
  <2> QED
    BY <2>2, <2>3 DEF Tree
<1>2. Tree(43, "EQ_EXPR", "Rel", <<1>>, 0)
  <2>1. PartAt(Rules, RelationRules, 40, 5)
    BY RuleNumbers
  <2>2. Rules[43] = RelationRules[3]
    BY <2>1 DEF PartAt
  <2>3. /\ RelationRules[3].tid = "EQ_EXPR" /\ RelationRules[3].sub = "Rel"
        /\ RelationRules[3].kids = <<1>> /\ RelationRules[3].own = 0
    BY DEF RelationRules, Rule
  <2> QED
    BY <2>2, <2>3 DEF Tree
<1>3. Tree(46, "LAND_EXPR", "Eq", <<1>>, 0)
  <2>1. PartAt(Rules, LogicRules, 45, 4)
    BY RuleNumbers
  <2>2. Rules[46] = LogicRules[1]
    BY <2>1 DEF PartAt
  <2>3. /\ LogicRules[1].tid = "LAND_EXPR" /\ LogicRules[1].sub = "Eq"
        /\ LogicRules[1].kids = <<1>> /\ LogicRules[1].own = 0
    BY DEF LogicRules, Rule
  <2> QED
    BY <2>2, <2>3 DEF Tree
<1>4. Tree(48, "LOR_EXPR", "LAnd", <<1>>, 0)
  <2>1. PartAt(Rules, LogicRules, 45, 4)
    BY RuleNumbers
  <2>2. Rules[48] = LogicRules[3]
    BY <2>1 DEF PartAt
  <2>3. /\ LogicRules[3].tid = "LOR_EXPR" /\ LogicRules[3].sub = "LAnd"
        /\ LogicRules[3].kids = <<1>> /\ LogicRules[3].own = 0
    BY DEF LogicRules, Rule
  <2> QED
    BY <2>2, <2>3 DEF Tree
<1> QED
  BY <1>1, <1>2, <1>3, <1>4

\* Its sub-trees are values of the right-hand side.
LEMMA LiveKids ==
    ASSUME NEW i, NEW c, Reduces(c, i)
    PROVE  /\ Len(Rules[i].rhs) \in Nat
           /\ Rules[i].kids \in Seq(1..Len(Rules[i].rhs)) /\ Len(Rules[i].kids) \in Nat
           /\ Rules[i].own \in 0..Len(Rules[i].rhs)
<1>1. CASE i = 2
  <2>1. Len(Rules[i].rhs) = 1
    BY <1>1, LiveRules DEF Sized
  <2>2. Rules[i].kids = <<1>> /\ Rules[i].own = 0
    BY <1>1, ProgramTrees DEF Tree
  <2> QED
    BY <2>1, <2>2
<1>2. CASE i = 3
  <2>1. Len(Rules[i].rhs) = 5
    BY <1>2, LiveRules DEF Sized
  <2>2. Rules[i].kids = <<1, 5>> /\ Rules[i].own = 2
    BY <1>2, ProgramTrees DEF Tree
  <2> QED
    BY <2>1, <2>2
<1>3. CASE i = 4
  <2>1. Len(Rules[i].rhs) = 1
    BY <1>3, LiveRules DEF Sized
  <2>2. Rules[i].kids = <<>> /\ Rules[i].own = 0
    BY <1>3, ProgramTrees DEF Tree
  <2> QED
    BY <2>1, <2>2
<1>4. CASE i = 5
  <2>1. Len(Rules[i].rhs) = 3
    BY <1>4, LiveRules DEF Sized
  <2>2. Rules[i].kids = <<2>> /\ Rules[i].own = 0
    BY <1>4, ProgramTrees DEF Tree
  <2> QED
    BY <2>1, <2>2
<1>5. CASE i = 6
  <2>1. Len(Rules[i].rhs) = 0
    BY <1>5, LiveRules DEF Sized
  <2>2. Rules[i].kids = <<>> /\ Rules[i].own = 0
    BY <1>5, ItemTrees DEF Tree
  <2> QED
    BY <2>1, <2>2
<1>6. CASE i = 7
  <2>1. Len(Rules[i].rhs) = 2
    BY <1>6, LiveRules DEF Sized
  <2>2. Rules[i].kids = <<1, 2>> /\ Rules[i].own = 0
    BY <1>6, ItemTrees DEF Tree
  <2> QED
    BY <2>1, <2>2
<1>7. CASE i = 9
  <2>1. Len(Rules[i].rhs) = 1
    BY <1>7, LiveRules DEF Sized
  <2>2. Rules[i].kids = <<1>> /\ Rules[i].own = 0
    BY <1>7, ItemTrees DEF Tree
  <2> QED
    BY <2>1, <2>2
<1>8. CASE i = 14
  <2>1. Len(Rules[i].rhs) = 1
    BY <1>8, LiveRules DEF Sized
  <2>2. Rules[i].kids = <<>> /\ Rules[i].own = 0
    BY <1>8, ItemTrees DEF Tree
  <2> QED
    BY <2>1, <2>2
<1>9. CASE i = 26
  <2>1. Len(Rules[i].rhs) = 3
    BY <1>9, LiveRules DEF Sized
  <2>2. Rules[i].kids = <<2>> /\ Rules[i].own = 0
    BY <1>9, StmtTrees DEF Tree
  <2> QED
    BY <2>1, <2>2
<1>10. CASE i = 27
  <2>1. Len(Rules[i].rhs) = 1
    BY <1>10, LiveRules DEF Sized
  <2>2. Rules[i].kids = <<1>> /\ Rules[i].own = 0
    BY <1>10, StmtTrees DEF Tree
  <2> QED
    BY <2>1, <2>2
<1>11. CASE i = 28
  <2>1. Len(Rules[i].rhs) = 3
    BY <1>11, LiveRules DEF Sized
  <2>2. Rules[i].kids = <<2>> /\ Rules[i].own = 0
    BY <1>11, OperandTrees DEF Tree
  <2> QED
    BY <2>1, <2>2
<1>12. CASE i = 29
  <2>1. Len(Rules[i].rhs) = 1
    BY <1>12, LiveRules DEF Sized
  <2>2. Rules[i].kids = <<1>> /\ Rules[i].own = 0
    BY <1>12, OperandTrees DEF Tree
  <2> QED
    BY <2>1, <2>2
<1>13. CASE i = 30
  <2>1. Len(Rules[i].rhs) = 1
    BY <1>13, LiveRules DEF Sized
  <2>2. Rules[i].kids = <<1>> /\ Rules[i].own = 0
    BY <1>13, OperandTrees DEF Tree
  <2> QED
    BY <2>1, <2>2
<1>14. CASE i = 31
  <2>1. Len(Rules[i].rhs) = 1
    BY <1>14, LiveRules DEF Sized
  <2>2. Rules[i].kids = <<>> /\ Rules[i].own = 1
    BY <1>14, OperandTrees DEF Tree
  <2> QED
    BY <2>1, <2>2
<1>15. CASE i = 32
  <2>1. Len(Rules[i].rhs) = 1
    BY <1>15, LiveRules DEF Sized
  <2>2. Rules[i].kids = <<>> /\ Rules[i].own = 1
    BY <1>15, OperandTrees DEF Tree
  <2> QED
    BY <2>1, <2>2
<1>16. CASE i = 33
  <2>1. Len(Rules[i].rhs) = 1
    BY <1>16, LiveRules DEF Sized
  <2>2. Rules[i].kids = <<1>> /\ Rules[i].own = 0
    BY <1>16, OperandTrees DEF Tree
  <2> QED
    BY <2>1, <2>2
<1>17. CASE i = 34
  <2>1. Len(Rules[i].rhs) = 2
    BY <1>17, LiveRules DEF Sized
  <2>2. Rules[i].kids = <<1, 2>> /\ Rules[i].own = 0
    BY <1>17, OperandTrees DEF Tree
  <2> QED
    BY <2>1, <2>2
<1>18. CASE i = 35
  <2>1. Len(Rules[i].rhs) = 1
    BY <1>18, LiveRules DEF Sized
  <2>2. Rules[i].kids = <<>> /\ Rules[i].own = 1
    BY <1>18, OperandTrees DEF Tree
  <2> QED
    BY <2>1, <2>2
<1>19. CASE i = 36
  <2>1. Len(Rules[i].rhs) = 1
    BY <1>19, LiveRules DEF Sized
  <2>2. Rules[i].kids = <<1>> /\ Rules[i].own = 0
    BY <1>19, ArithmeticTrees DEF Tree
  <2> QED
    BY <2>1, <2>2
<1>20. CASE i = 37
  <2>1. Len(Rules[i].rhs) = 3
    BY <1>20, LiveRules DEF Sized
  <2>2. Rules[i].kids = <<1, 2, 3>> /\ Rules[i].own = 0
    BY <1>20, ArithmeticTrees DEF Tree
  <2> QED
    BY <2>1, <2>2
<1>21. CASE i = 38
  <2>1. Len(Rules[i].rhs) = 1
    BY <1>21, LiveRules DEF Sized
  <2>2. Rules[i].kids = <<1>> /\ Rules[i].own = 0
    BY <1>21, ArithmeticTrees DEF Tree
  <2> QED
    BY <2>1, <2>2
<1>22. CASE i = 40
  <2>1. Len(Rules[i].rhs) = 1
    BY <1>22, LiveRules DEF Sized
  <2>2. Rules[i].kids = <<>> /\ Rules[i].own = 1
    BY <1>22, ArithmeticTrees DEF Tree
  <2> QED
    BY <2>1, <2>2
<1>23. CASE i = 41
  <2>1. Len(Rules[i].rhs) = 1
    BY <1>23, LiveRules DEF Sized
  <2>2. Rules[i].kids = <<1>> /\ Rules[i].own = 0
    BY <1>23, ChainTrees DEF Tree
  <2> QED
    BY <2>1, <2>2
<1>24. CASE i = 43
  <2>1. Len(Rules[i].rhs) = 1
    BY <1>24, LiveRules DEF Sized
  <2>2. Rules[i].kids = <<1>> /\ Rules[i].own = 0
    BY <1>24, ChainTrees DEF Tree
  <2> QED
    BY <2>1, <2>2
<1>25. CASE i = 46
  <2>1. Len(Rules[i].rhs) = 1
    BY <1>25, LiveRules DEF Sized
  <2>2. Rules[i].kids = <<1>> /\ Rules[i].own = 0
    BY <1>25, ChainTrees DEF Tree
  <2> QED
    BY <2>1, <2>2
<1>26. CASE i = 48
  <2>1. Len(Rules[i].rhs) = 1
    BY <1>26, LiveRules DEF Sized
  <2>2. Rules[i].kids = <<1>> /\ Rules[i].own = 0
    BY <1>26, ChainTrees DEF Tree
  <2> QED
    BY <2>1, <2>2
<1>27. \/ i = 2
       \/ i = 3
       \/ i = 4
       \/ i = 5
       \/ i = 6
       \/ i = 7
       \/ i = 9
       \/ i = 14
       \/ i = 26
       \/ i = 27
       \/ i = 28
       \/ i = 29
       \/ i = 30
       \/ i = 31
       \/ i = 32
       \/ i = 33
       \/ i = 34
       \/ i = 35
       \/ i = 36
       \/ i = 37
       \/ i = 38
       \/ i = 40
       \/ i = 41
       \/ i = 43
       \/ i = 46
       \/ i = 48
  BY Zenon DEF Reduces, Ends
<1> QED
  BY <1>1, <1>2, <1>3, <1>4, <1>5, <1>6, <1>7, <1>8, <1>9, <1>10, <1>11,
     <1>12, <1>13, <1>14, <1>15, <1>16, <1>17, <1>18, <1>19, <1>20, <1>21,
     <1>22, <1>23, <1>24, <1>25, <1>26, <1>27

\* What Build makes of the values of a right-hand side.
LEMMA BuildFacts ==
    ASSUME NEW rule, NEW rhs, NEW S, rhs \in Seq(S), rule.kids \in Seq(1..Len(rhs))
    PROVE  /\ Build(rule, rhs).tid = rule.tid /\ Build(rule, rhs).sub = rule.sub
           /\ Build(rule, rhs).kids \in Seq(S) /\ Len(Build(rule, rhs).kids) = Len(rule.kids)
           /\ \A k \in 1..Len(rule.kids) : Build(rule, rhs).kids[k] = rhs[rule.kids[k]]
           /\ Build(rule, rhs).tok = IF rule.own = 0 THEN NoText ELSE nodes[rhs[rule.own]].tok
<1> DEFINE ks == [k \in DOMAIN rule.kids |-> rhs[rule.kids[k]]]
           n == Len(rule.kids)
<1>1. DOMAIN rule.kids = 1..n /\ n \in Nat /\ \A k \in 1..n : rule.kids[k] \in 1..Len(rhs)
  OBVIOUS
<1>2. \A k \in 1..n : rhs[rule.kids[k]] \in S
  BY <1>1
<1>3. ks = [k \in 1..n |-> rhs[rule.kids[k]]]
  BY <1>1
<1> HIDE DEF n
<1>4. ks \in [1..n -> S] /\ DOMAIN ks = 1..n /\ \A k \in 1..n : ks[k] = rhs[rule.kids[k]]
  BY <1>2, <1>3
<1> HIDE DEF ks
<1>5. ks \in Seq(S) /\ Len(ks) = n
  BY <1>1, <1>4, SeqDef, LenProperties
<1> QED
  BY <1>4, <1>5 DEF Build, ks, n

-----------------------------------------------------------------------------
(***************************************************************************)
(* Values fit their states, and nodes have the shape of their rules.       *)
(***************************************************************************)
\* The tokens on the stack of values, by the states above them.
HoldsToken(c, t) ==
    \/ t = "INT" /\ c \in {41, 141}
    \/ t = "IDENT" /\ c \in {32, 171, 311}
    \/ t = "(" /\ c \in {33, 281}
    \/ t = ")" /\ c \in {34, 283}
    \/ t = OpenBlock /\ c = 51
    \/ t = CloseBlock /\ c = 53
    \/ t = Semicolon /\ c = 263
    \/ t = "OPT" /\ c \in {351, 401}
    \/ t = "CONST" /\ c = 131
    \/ t = "RETURN" /\ c = 261
    \/ t = "INT_CONST" /\ c = 321

\* The nodes on the stack of values, by the states above them.
HoldsNode(c, tid) ==
    \/ tid = "COMP_UNIT" /\ c = 11
    \/ tid = "FUNC_DEF" /\ c = 21
    \/ tid = "FUNC_TYPE" /\ c = 31
    \/ tid = "BLOCK" /\ c = 35
    \/ tid = "BLOCK_ITEMS" /\ c \in {52, 72}
    \/ tid = "BLOCK_ITEM" /\ c = 71
    \/ tid = "BTYPE" /\ c = 132
    \/ tid = "STMT" /\ c = 91
    \/ tid = "EXPR" /\ c \in {262, 282}
    \/ tid = "PRIMARY_EXPR" /\ c = 331
    \/ tid = "LVAL" /\ c \in {251, 301}
    \/ tid = "NUMBER" /\ c = 291
    \/ tid = "UNARY_EXPR" /\ c \in {342, 361, 373}
    \/ tid = "UNARY_OP" /\ c = 341
    \/ tid = "MUL_EXPR" /\ c = 371
    \/ tid = "ADD_EXPR" /\ c = 391
    \/ tid = "BINARY_OP" /\ c = 372
    \/ tid = "REL_EXPR" /\ c = 421
    \/ tid = "EQ_EXPR" /\ c = 441
    \/ tid = "LAND_EXPR" /\ c = 471
    \/ tid = "LOR_EXPR" /\ c = 491

\* What a value under state c may be.
Fits(c, node) ==
    IF node.tid = "TOKEN" THEN HoldsToken(c, node.sub) ELSE HoldsNode(c, node.tid)

\* The levels of operators above MUL_EXPR.
FlatLevels == {"ADD_EXPR", "REL_EXPR", "EQ_EXPR", "LAND_EXPR", "LOR_EXPR"}

\* What the nodes of some classes own.
ShapedNode(heap, node) ==
    LET KidTid(k) == heap[node.kids[k]].tid
    IN  /\ node.tid = "COMP_UNIT" => Len(node.kids) = 1 /\ KidTid(1) = "FUNC_DEF"
        /\ node.tid = "FUNC_DEF" => Len(node.kids) = 2 /\ KidTid(1) = "FUNC_TYPE" /\ KidTid(2) = "BLOCK"
        /\ node.tid = "BLOCK" => Len(node.kids) = 1 /\ KidTid(1) = "BLOCK_ITEMS"
        /\ node.tid = "BLOCK_ITEMS" =>
              \/ node.sub = "Null" /\ Len(node.kids) = 0
              \/ node.sub = "Recv" /\ Len(node.kids) = 2 /\ KidTid(2) = "BLOCK_ITEMS"
        /\ node.tid \in FlatLevels => Len(node.kids) = 1

\* The nodes form trees, which are built bottom up, and each value belongs to the
\* state above it.
Planted ==
    /\ nodes \in Seq({nodes[n] : n \in 1..Len(nodes)})
    /\ \A n \in 1..Len(nodes) :
          /\ nodes[n].kids \in Seq(1..n-1) /\ nodes[n].tok \in Nat
          /\ ShapedNode(nodes, nodes[n])
    /\ \A k \in 1..Len(values) :
          values[k] \in 1..Len(nodes) /\ Fits(Name(k + 1), nodes[values[k]])

\* A node of the heap and what it owns do not change when the heap grows.
LEMMA HeapGrows ==
    ASSUME Planted, NEW v, nodes' = Append(nodes, v)
    PROVE  /\ Len(nodes) \in Nat /\ Len(nodes') = Len(nodes) + 1
           /\ \A n \in 1..Len(nodes) : nodes'[n] = nodes[n]
           /\ nodes'[Len(nodes) + 1] = v
           /\ nodes' \in Seq({nodes'[n] : n \in 1..Len(nodes')})
<1> DEFINE S == {nodes[n] : n \in 1..Len(nodes)} \cup {v}
           N == Len(nodes)
<1>1. nodes \in Seq(S) /\ v \in S /\ N \in Nat
  BY DEF Planted
<1> HIDE DEF S
<1>2. /\ Len(nodes') = N + 1 /\ nodes' \in Seq(S)
      /\ \A n \in 1..N : nodes'[n] = nodes[n]
      /\ nodes'[N + 1] = v
  BY <1>1
<1>3. nodes' \in Seq({nodes'[n] : n \in 1..Len(nodes')})
  <2> DEFINE h == nodes'
             L == Len(h)
             T == {h[n] : n \in 1..L}
  <2>1. L \in Nat /\ DOMAIN h = 1..L /\ h \in Seq(S)
    BY <1>2
  <2> HIDE DEF h
  <2> SUFFICES h \in Seq(T)
    BY DEF h
  <2>2. h \in [1..L -> T]
    BY <2>1, LenProperties
  <2> HIDE DEF T, L
  <2> QED
    BY <2>1, <2>2, SeqDef
<1> QED
  BY <1>1, <1>2, <1>3

\* A new node leaves the shape of the nodes before it as it was.
LEMMA ShapeKept ==
    ASSUME Planted, NEW v, nodes' = Append(nodes, v), NEW n \in 1..Len(nodes)
    PROVE  ShapedNode(nodes', nodes'[n])
<1> DEFINE node == nodes[n]
           N == Len(nodes)
<1>1. nodes'[n] = node /\ N \in Nat /\ \A k \in 1..N : nodes'[k] = nodes[k]
  BY HeapGrows
<1>2. node.kids \in Seq(1..n-1) /\ ShapedNode(nodes, node)
  BY DEF Planted
<1>3. \A k \in 1..Len(node.kids) : nodes'[node.kids[k]] = nodes[node.kids[k]]
  <2> SUFFICES ASSUME NEW k \in 1..Len(node.kids) PROVE nodes'[node.kids[k]] = nodes[node.kids[k]]
    OBVIOUS
  <2>1. node.kids[k] \in 1..n-1
    BY <1>2
  <2>2. node.kids[k] \in 1..N
    BY <1>1, <2>1
  <2> QED
    BY <1>1, <2>2
<1> HIDE DEF node
<1>4. ShapedNode(nodes', node)
  <2> DEFINE L == Len(node.kids)
  <2>1. \A k \in 1..L : nodes'[node.kids[k]] = nodes[node.kids[k]]
    BY <1>3
  <2> HIDE DEF L
  <2>a. ASSUME L = 1 PROVE 1 \in 1..L
    BY <2>a
  <2>b. ASSUME L = 2 PROVE 1 \in 1..L /\ 2 \in 1..L
    BY <2>b
  <2>2. L = 1 => nodes'[node.kids[1]] = nodes[node.kids[1]]
    BY <2>1, <2>a, Zenon
  <2>3. L = 2 => /\ nodes'[node.kids[1]] = nodes[node.kids[1]]
                 /\ nodes'[node.kids[2]] = nodes[node.kids[2]]
    BY <2>1, <2>b, Zenon
  <2> QED
    BY <1>2, <2>2, <2>3 DEF ShapedNode, L
<1> QED
  BY <1>1, <1>4

\* A push of a new object of the right class.
LEMMA PushPlanted ==
    ASSUME ParserInv, Planted, NEW m \in 1..Len(states), NEW d, NEW v, Pushed(m, d, v),
           v.kids \in Seq(1..Len(nodes)), v.tok \in Nat, ShapedNode(nodes', v), Fits(d, v)
    PROVE  Planted'
<1> DEFINE N == Len(nodes)
<1>1. nodes' = Append(nodes, v)
  BY DEF Pushed
<1>2. /\ N \in Nat /\ Len(nodes') = N + 1 /\ nodes'[N + 1] = v
      /\ \A n \in 1..N : nodes'[n] = nodes[n]
      /\ nodes' \in Seq({nodes'[n] : n \in 1..Len(nodes')})
  BY <1>1, HeapGrows
<1>3. \A n \in 1..Len(nodes') : /\ nodes'[n].kids \in Seq(1..n-1) /\ nodes'[n].tok \in Nat
                                /\ ShapedNode(nodes', nodes'[n])
  <2> SUFFICES ASSUME NEW n \in 1..N + 1
               PROVE  /\ nodes'[n].kids \in Seq(1..n-1) /\ nodes'[n].tok \in Nat
                      /\ ShapedNode(nodes', nodes'[n])
    BY <1>2
  <2>1. CASE n = N + 1
    <3>1. (N + 1) - 1 = N
      BY <1>2
    <3> QED
      BY <1>2, <2>1, <3>1
  <2>2. CASE n \in 1..N
    <3>1. nodes[n].kids \in Seq(1..n-1) /\ nodes[n].tok \in Nat
      BY <2>2 DEF Planted
    <3>2. ShapedNode(nodes', nodes'[n])
      BY <1>1, <2>2, ShapeKept
    <3> QED
      BY <1>2, <2>2, <3>1, <3>2
  <2> QED
    BY <1>2, <2>1, <2>2
<1>4. \A k \in 1..Len(values') : values'[k] \in 1..Len(nodes') /\ Fits(Name(k + 1)', nodes'[values'[k]])
  <2>1. /\ Len(values') = m /\ Name(m + 1)' = d /\ values'[m] = N + 1
        /\ \A k \in 1..m : Name(k)' = Name(k)
        /\ \A k \in 1..m - 1 : values'[k] = values[k]
    BY DEF Pushed, Name
  <2>2. m \in Nat /\ Len(states) = Len(values) + 1 /\ Len(values) \in Nat
    BY DEF ParserInv, ParserTypeOK, StackShape, Linked
  <2> SUFFICES ASSUME NEW k \in 1..m
               PROVE  values'[k] \in 1..Len(nodes') /\ Fits(Name(k + 1)', nodes'[values'[k]])
    BY <2>1
  <2>3. CASE k = m
    BY <1>2, <2>1, <2>3
  <2>4. CASE k < m
    <3>1. k \in 1..m - 1 /\ k + 1 \in 1..m /\ k \in 1..Len(values)
      BY <2>2, <2>4
    <3>2. values[k] \in 1..N /\ Fits(Name(k + 1), nodes[values[k]])
      BY <3>1 DEF Planted
    <3>3. values'[k] = values[k] /\ Name(k + 1)' = Name(k + 1)
      BY <2>1, <3>1
    <3>4. nodes'[values[k]] = nodes[values[k]] /\ values[k] \in 1..Len(nodes')
      BY <1>2, <3>2
    <3> QED
      BY <3>2, <3>3, <3>4
  <2> QED
    BY <2>2, <2>3, <2>4
<1> QED
  BY <1>2, <1>3, <1>4 DEF Planted

\* The values of a right-hand side, by the dots of the rule.
RhsValues(i) == SubSeq(values, Len(states) - Len(Rules[i].rhs), Len(values))

\* The values of a right-hand side fit its states.
LEMMA RhsFacts ==
    ASSUME ParserInv, Traced, Planted, NEW i, NEW d, Reduced(i, d)
    PROVE  /\ RhsValues(i) \in Seq(1..Len(nodes)) /\ Len(RhsValues(i)) = Len(Rules[i].rhs)
           /\ \A k \in 1..Len(Rules[i].rhs) :
                 Fits(Name(Len(states) - Len(Rules[i].rhs) + k), nodes[RhsValues(i)[k]])
           /\ Len(Rules[i].rhs) = 1 => Fits(Top, nodes[RhsValues(i)[1]])
           /\ Len(Rules[i].rhs) > 1 => \A k \in 1..Len(Rules[i].rhs) :
                 Fits(10 * i + k, nodes[RhsValues(i)[k]])
<1> DEFINE n == Len(Rules[i].rhs)
           K == Len(states)
           m == K - n
           S == 1..Len(nodes)
           rhs == RhsValues(i)
<1>1. /\ n \in 0..K - 1
      /\ n > 1 => \A k \in 1..n : Name(m + k) = 10 * i + k
  BY DEF Reduced
<1>2. K = Len(values) + 1 /\ Len(values) \in Nat
  BY DEF ParserInv, ParserTypeOK, StackShape, Linked
<1>3. \A k \in 1..Len(values) : values[k] \in S /\ Fits(Name(k + 1), nodes[values[k]])
  BY DEF Planted
<1>4. values \in Seq(S)
  <2> DEFINE L == Len(values)
  <2>1. values = [k \in 1..L |-> values[k]] /\ L \in Nat
    BY LenProperties DEF ParserInv
  <2>2. \A k \in 1..L : values[k] \in S
    BY <1>3
  <2> HIDE DEF L, S
  <2> QED
    BY <2>1, <2>2, IsASeq
<1> HIDE DEF S, n
<1>5. rhs = SubSeq(values, m, K - 1)
  <2>1. rhs = SubSeq(values, m, Len(values)) /\ Len(values) = K - 1
    BY <1>2 DEF RhsValues, n
  <2> QED
    BY <2>1
<1>6. m \in 1..K /\ K - 1 = Len(values) /\ n \in Nat
  BY <1>1, <1>2
<1>7. rhs \in Seq(S) /\ Len(rhs) = n /\ \A k \in 1..n : rhs[k] = values[m - 1 + k]
  <2>1. rhs \in Seq(S)
    BY <1>2, <1>4, <1>5, <1>6
  <2>2. Len(rhs) = n /\ \A k \in 1..n : rhs[k] = values[m + k - 1]
    BY <1>2, <1>4, <1>5, <1>6
  <2>3. \A k \in 1..n : m + k - 1 = m - 1 + k
    BY <1>1, <1>2
  <2> QED
    BY <2>1, <2>2, <2>3
<1> HIDE DEF rhs
<1>8. \A k \in 1..n : Fits(Name(m + k), nodes[rhs[k]])
  <2> SUFFICES ASSUME NEW k \in 1..n PROVE Fits(Name(m + k), nodes[rhs[k]])
    OBVIOUS
  <2>1. m - 1 + k \in 1..Len(values) /\ (m - 1 + k) + 1 = m + k
    BY <1>1, <1>2
  <2> QED
    BY <1>3, <1>7, <2>1
<1>9. n = 1 => Fits(Top, nodes[rhs[1]])
  <2> SUFFICES ASSUME n = 1 PROVE Fits(Top, nodes[rhs[1]])
    OBVIOUS
  <2>1. m + 1 = K /\ 1 \in 1..n
    BY <1>1, <1>2
  <2> QED
    BY <1>8, <2>1 DEF Top
<1>10. n > 1 => \A k \in 1..n : Fits(10 * i + k, nodes[rhs[k]])
  BY <1>1, <1>8
<1> QED
  BY <1>7, <1>8, <1>9, <1>10 DEF n, S, rhs

\* A token that is shifted is the one that the new state stands for.
LEMMA ShiftFits ==
    ASSUME NEW c, NEW t, Wants(c, t), NEW d, Move(c, t, d)
    PROVE  HoldsToken(d, t)
<1>1. CASE c \in {10, 131, 31, 132, 32, 33, 282, 371}
  <2>1. \/ c = 10 /\ t = "INT"
        \/ c = 131 /\ t = "INT"
        \/ c = 31 /\ t = "IDENT"
        \/ c = 132 /\ t = "IDENT"
        \/ c = 32 /\ t = "("
        \/ c = 33 /\ t = ")"
        \/ c = 282 /\ t = ")"
        \/ c = 371 /\ t = "OPT"
    BY <1>1 DEF Wants, Operands, Chains
  <2>2. \/ t = "INT" /\ d \in {41, 141}
        \/ t = "IDENT" /\ d \in {32, 171}
        \/ t = "(" /\ d = 33
        \/ t = ")" /\ d \in {34, 283}
        \/ t = "OPT" /\ d = 401
    BY <2>1 DEF Move, Operands
  <2> QED
    BY <2>2 DEF HoldsToken
<1>2. CASE c \in {34, 52, 262}
  <2>1. \/ c = 34 /\ t = OpenBlock
        \/ c = 52 /\ t = CloseBlock
        \/ c = 262 /\ t = Semicolon
    BY <1>2 DEF Wants, Operands, Chains
  <2>2. OpenBlock # "Block"
    BY TokensUnnamed DEF Names
  <2>3. \/ t = OpenBlock /\ d = 51
        \/ t = CloseBlock /\ d = 53
        \/ t = Semicolon /\ d = 263
    BY <2>1, <2>2 DEF Move, Operands
  <2> QED
    BY <2>3 DEF HoldsToken
<1>3. CASE c \in {51, 71}
  <2>1. t = "CONST" \/ t = "IDENT" \/ t = "RETURN"
    BY <1>3 DEF Wants, Operands, Chains
  <2>2. \/ t = "CONST" /\ d = 131
        \/ t = "IDENT" /\ d = 311
        \/ t = "RETURN" /\ d = 261
    BY <1>3, <2>1 DEF Move, Operands
  <2> QED
    BY <2>2 DEF HoldsToken
<1>4. CASE c \in Operands
  <2>1. t = "(" \/ t = "IDENT" \/ t = "INT_CONST" \/ t = "OPT"
    BY <1>4 DEF Wants, Operands, Chains
  <2>2. \/ t = "(" /\ d = 281
        \/ t = "IDENT" /\ d = 311
        \/ t = "INT_CONST" /\ d = 321
        \/ t = "OPT" /\ d = 351
    BY <1>4, <2>1 DEF Move, Operands
  <2> QED
    BY <2>2 DEF HoldsToken
<1>5. \/ c \in {10, 131, 31, 132, 32, 33, 282, 371}
      \/ c \in {34, 52, 262}
      \/ c \in {51, 71}
      \/ c \in Operands
  BY DEF Move, Operands
<1> QED
  BY <1>1, <1>2, <1>3, <1>4, <1>5

\* The node of a reduction is the one that the new state stands for.
LEMMA ReduceFits ==
    ASSUME NEW c, NEW i, Reduces(c, i), NEW p, NEW d, Reduction(i, p, d)
    PROVE  HoldsNode(d, Rules[i].tid) /\ Rules[i].tid # "TOKEN"
<1>1. CASE i = 2
  <2>1. Rules[i].tid = "COMP_UNIT"
    BY <1>1, ProgramTrees DEF Tree
  <2>2. d \in {11}
    BY <1>1 DEF Reduction
  <2> QED
    BY <2>1, <2>2 DEF HoldsNode
<1>2. CASE i = 3
  <2>1. Rules[i].tid = "FUNC_DEF"
    BY <1>2, ProgramTrees DEF Tree
  <2>2. d \in {21}
    BY <1>2 DEF Reduction
  <2> QED
    BY <2>1, <2>2 DEF HoldsNode
<1>3. CASE i = 4
  <2>1. Rules[i].tid = "FUNC_TYPE"
    BY <1>3, ProgramTrees DEF Tree
  <2>2. d \in {31}
    BY <1>3 DEF Reduction
  <2> QED
    BY <2>1, <2>2 DEF HoldsNode
<1>4. CASE i = 5
  <2>1. Rules[i].tid = "BLOCK"
    BY <1>4, ProgramTrees DEF Tree
  <2>2. d \in {35}
    BY <1>4 DEF Reduction
  <2> QED
    BY <2>1, <2>2 DEF HoldsNode
<1>5. CASE i = 6
  <2>1. Rules[i].tid = "BLOCK_ITEMS"
    BY <1>5, ItemTrees DEF Tree
  <2>2. d \in {52, 72}
    BY <1>5 DEF Reduction
  <2> QED
    BY <2>1, <2>2 DEF HoldsNode
<1>6. CASE i = 7
  <2>1. Rules[i].tid = "BLOCK_ITEMS"
    BY <1>6, ItemTrees DEF Tree
  <2>2. d \in {52, 72}
    BY <1>6 DEF Reduction
  <2> QED
    BY <2>1, <2>2 DEF HoldsNode
<1>7. CASE i = 9
  <2>1. Rules[i].tid = "BLOCK_ITEM"
    BY <1>7, ItemTrees DEF Tree
  <2>2. d \in {71}
    BY <1>7 DEF Reduction
  <2> QED
    BY <2>1, <2>2 DEF HoldsNode
<1>8. CASE i = 14
  <2>1. Rules[i].tid = "BTYPE"
    BY <1>8, ItemTrees DEF Tree
  <2>2. d \in {132}
    BY <1>8 DEF Reduction
  <2> QED
    BY <2>1, <2>2 DEF HoldsNode
<1>9. CASE i = 26
  <2>1. Rules[i].tid = "STMT"
    BY <1>9, StmtTrees DEF Tree
  <2>2. d \in {91}
    BY <1>9 DEF Reduction
  <2> QED
    BY <2>1, <2>2 DEF HoldsNode
<1>10. CASE i = 27
  <2>1. Rules[i].tid = "EXPR"
    BY <1>10, StmtTrees DEF Tree
  <2>2. d \in {262, 282}
    BY <1>10 DEF Reduction
  <2> QED
    BY <2>1, <2>2 DEF HoldsNode
<1>11. CASE i = 28
  <2>1. Rules[i].tid = "PRIMARY_EXPR"
    BY <1>11, OperandTrees DEF Tree
  <2>2. d \in {331}
    BY <1>11 DEF Reduction
  <2> QED
    BY <2>1, <2>2 DEF HoldsNode
<1>12. CASE i = 29
  <2>1. Rules[i].tid = "PRIMARY_EXPR"
    BY <1>12, OperandTrees DEF Tree
  <2>2. d \in {331}
    BY <1>12 DEF Reduction
  <2> QED
    BY <2>1, <2>2 DEF HoldsNode
<1>13. CASE i = 30
  <2>1. Rules[i].tid = "PRIMARY_EXPR"
    BY <1>13, OperandTrees DEF Tree
  <2>2. d \in {331}
    BY <1>13 DEF Reduction
  <2> QED
    BY <2>1, <2>2 DEF HoldsNode
<1>14. CASE i = 31
  <2>1. Rules[i].tid = "LVAL"
    BY <1>14, OperandTrees DEF Tree
  <2>2. d \in {251, 301}
    BY <1>14 DEF Reduction
  <2> QED
    BY <2>1, <2>2 DEF HoldsNode
<1>15. CASE i = 32
  <2>1. Rules[i].tid = "NUMBER"
    BY <1>15, OperandTrees DEF Tree
  <2>2. d \in {291}
    BY <1>15 DEF Reduction
  <2> QED
    BY <2>1, <2>2 DEF HoldsNode
<1>16. CASE i = 33
  <2>1. Rules[i].tid = "UNARY_EXPR"
    BY <1>16, OperandTrees DEF Tree
  <2>2. d \in {342, 361, 373}
    BY <1>16 DEF Reduction
  <2> QED
    BY <2>1, <2>2 DEF HoldsNode
<1>17. CASE i = 34
  <2>1. Rules[i].tid = "UNARY_EXPR"
    BY <1>17, OperandTrees DEF Tree
  <2>2. d \in {342, 361, 373}
    BY <1>17 DEF Reduction
  <2> QED
    BY <2>1, <2>2 DEF HoldsNode
<1>18. CASE i = 35
  <2>1. Rules[i].tid = "UNARY_OP"
    BY <1>18, OperandTrees DEF Tree
  <2>2. d \in {341}
    BY <1>18 DEF Reduction
  <2> QED
    BY <2>1, <2>2 DEF HoldsNode
<1>19. CASE i = 36
  <2>1. Rules[i].tid = "MUL_EXPR"
    BY <1>19, ArithmeticTrees DEF Tree
  <2>2. d \in {371}
    BY <1>19 DEF Reduction
  <2> QED
    BY <2>1, <2>2 DEF HoldsNode
<1>20. CASE i = 37
  <2>1. Rules[i].tid = "MUL_EXPR"
    BY <1>20, ArithmeticTrees DEF Tree
  <2>2. d \in {371}
    BY <1>20 DEF Reduction
  <2> QED
    BY <2>1, <2>2 DEF HoldsNode
<1>21. CASE i = 38
  <2>1. Rules[i].tid = "ADD_EXPR"
    BY <1>21, ArithmeticTrees DEF Tree
  <2>2. d \in {391}
    BY <1>21 DEF Reduction
  <2> QED
    BY <2>1, <2>2 DEF HoldsNode
<1>22. CASE i = 40
  <2>1. Rules[i].tid = "BINARY_OP"
    BY <1>22, ArithmeticTrees DEF Tree
  <2>2. d \in {372}
    BY <1>22 DEF Reduction
  <2> QED
    BY <2>1, <2>2 DEF HoldsNode
<1>23. CASE i = 41
  <2>1. Rules[i].tid = "REL_EXPR"
    BY <1>23, ChainTrees DEF Tree
  <2>2. d \in {421}
    BY <1>23 DEF Reduction
  <2> QED
    BY <2>1, <2>2 DEF HoldsNode
<1>24. CASE i = 43
  <2>1. Rules[i].tid = "EQ_EXPR"
    BY <1>24, ChainTrees DEF Tree
  <2>2. d \in {441}
    BY <1>24 DEF Reduction
  <2> QED
    BY <2>1, <2>2 DEF HoldsNode
<1>25. CASE i = 46
  <2>1. Rules[i].tid = "LAND_EXPR"
    BY <1>25, ChainTrees DEF Tree
  <2>2. d \in {471}
    BY <1>25 DEF Reduction
  <2> QED
    BY <2>1, <2>2 DEF HoldsNode
<1>26. CASE i = 48
  <2>1. Rules[i].tid = "LOR_EXPR"
    BY <1>26, ChainTrees DEF Tree
  <2>2. d \in {491}
    BY <1>26 DEF Reduction
  <2> QED
    BY <2>1, <2>2 DEF HoldsNode
<1>27. \/ i = 2
       \/ i = 3
       \/ i = 4
       \/ i = 5
       \/ i = 6
       \/ i = 7
       \/ i = 9
       \/ i = 14
       \/ i = 26
       \/ i = 27
       \/ i = 28
       \/ i = 29
       \/ i = 30
       \/ i = 31
       \/ i = 32
       \/ i = 33
       \/ i = 34
       \/ i = 35
       \/ i = 36
       \/ i = 37
       \/ i = 38
       \/ i = 40
       \/ i = 41
       \/ i = 43
       \/ i = 46
       \/ i = 48
  BY Zenon DEF Reduces, Ends
<1> QED
  BY <1>1, <1>2, <1>3, <1>4, <1>5, <1>6, <1>7, <1>8, <1>9, <1>10, <1>11,
     <1>12, <1>13, <1>14, <1>15, <1>16, <1>17, <1>18, <1>19, <1>20, <1>21,
     <1>22, <1>23, <1>24, <1>25, <1>26, <1>27

\* And it owns what its class says.
LEMMA ReduceShape ==
    ASSUME ParserInv, Traced, Planted, NEW i, NEW d, Reduced(i, d)
    PROVE  LET v == Build(Rules[i], RhsValues(i))
           IN  /\ v.kids \in Seq(1..Len(nodes)) /\ v.tok \in Nat
               /\ v.tid = Rules[i].tid /\ ShapedNode(nodes, v)
<1> DEFINE rhs == RhsValues(i)
           rule == Rules[i]
           v == Build(rule, rhs)
           S == 1..Len(nodes)
           n == Len(Rules[i].rhs)
<1>1. /\ rhs \in Seq(S) /\ Len(rhs) = n
      /\ n = 1 => Fits(Top, nodes[rhs[1]])
      /\ n > 1 => \A k \in 1..n : Fits(10 * i + k, nodes[rhs[k]])
  BY RhsFacts
<1>2. Reduces(Top, i)
  BY DEF Reduced
<1>3. rule.kids \in Seq(1..n) /\ rule.own \in 0..n /\ n \in Nat
  BY <1>2, LiveKids
<1>4. /\ v.tid = rule.tid /\ v.sub = rule.sub
      /\ v.kids \in Seq(S) /\ Len(v.kids) = Len(rule.kids)
      /\ \A k \in 1..Len(rule.kids) : v.kids[k] = rhs[rule.kids[k]]
      /\ v.tok = IF rule.own = 0 THEN NoText ELSE nodes[rhs[rule.own]].tok
  <2> HIDE DEF n, S, rhs, rule, v
  <2>1. rule.kids \in Seq(1..Len(rhs))
    BY <1>1, <1>3
  <2>2. rhs \in Seq(S)
    BY <1>1
  <2> QED
    BY <2>1, <2>2, BuildFacts DEF v
<1>5. v.tok \in Nat
  <2>1. CASE rule.own = 0
    BY <1>4, <2>1 DEF NoText
  <2>2. CASE rule.own # 0
    <3>1. rule.own \in 1..Len(rhs)
      BY <1>1, <1>3, <2>2
    <3>2. rhs[rule.own] \in S
      BY <1>1, <3>1
    <3> QED
      BY <1>4, <2>2, <3>2 DEF Planted
  <2> QED
    BY <2>1, <2>2
<1>6. ShapedNode(nodes, v)
  <2>1. CASE i = 2
    <3>1. rule.tid = "COMP_UNIT" /\ rule.sub = "" /\ rule.kids = <<1>>
      BY <2>1, ProgramTrees DEF Tree
    <3>2. n = 1
      BY <2>1, LiveRules DEF Sized
    <3> HIDE DEF n, rhs, rule, v, S
    <3>3. v.tid = "COMP_UNIT" /\ v.sub = "" /\ Len(v.kids) = 1
      BY <1>4, <3>1
    <3>4. nodes[v.kids[1]].tid = "FUNC_DEF"
      <4>1. v.kids[1] = rhs[1]
        <5> DEFINE ks == rule.kids
        <5>1. ks = <<1>>
          BY <3>1
        <5> HIDE DEF ks
        <5>2. ks[1] = 1 /\ 1 \in 1..Len(ks)
          BY <5>1
        <5> QED
          BY <1>4, <5>2, Zenon DEF ks
      <4>2. Top = 21
        BY <1>2, <2>1 DEF Reduces, Ends
      <4>3. Fits(21, nodes[rhs[1]])
        BY <1>1, <3>2, <4>2
      <4> QED
        BY <4>1, <4>3 DEF Fits, HoldsToken, HoldsNode
    <3> QED
      BY <3>3, <3>4 DEF ShapedNode, FlatLevels
  <2>2. CASE i = 3
    <3>1. rule.tid = "FUNC_DEF" /\ rule.sub = "" /\ rule.kids = <<1, 5>>
      BY <2>2, ProgramTrees DEF Tree
    <3>2. n = 5
      BY <2>2, LiveRules DEF Sized
    <3> HIDE DEF n, rhs, rule, v, S
    <3>3. v.tid = "FUNC_DEF" /\ v.sub = "" /\ Len(v.kids) = 2
      BY <1>4, <3>1
    <3>4. nodes[v.kids[1]].tid = "FUNC_TYPE"
      <4>1. v.kids[1] = rhs[1]
        <5> DEFINE ks == rule.kids
        <5>1. ks = <<1, 5>>
          BY <3>1
        <5> HIDE DEF ks
        <5>2. ks[1] = 1 /\ 1 \in 1..Len(ks)
          BY <5>1
        <5> QED
          BY <1>4, <5>2, Zenon DEF ks
      <4>2. 10 * i + 1 = 31
        BY <2>2
      <4>3. Fits(31, nodes[rhs[1]])
        BY <1>1, <3>2, <4>2
      <4> QED
        BY <4>1, <4>3 DEF Fits, HoldsToken, HoldsNode
    <3>5. nodes[v.kids[2]].tid = "BLOCK"
      <4>1. v.kids[2] = rhs[5]
        <5> DEFINE ks == rule.kids
        <5>1. ks = <<1, 5>>
          BY <3>1
        <5> HIDE DEF ks
        <5>2. ks[2] = 5 /\ 2 \in 1..Len(ks)
          BY <5>1
        <5> QED
          BY <1>4, <5>2, Zenon DEF ks
      <4>2. 10 * i + 5 = 35
        BY <2>2
      <4>3. Fits(35, nodes[rhs[5]])
        BY <1>1, <3>2, <4>2
      <4> QED
        BY <4>1, <4>3 DEF Fits, HoldsToken, HoldsNode
    <3> QED
      BY <3>3, <3>4, <3>5 DEF ShapedNode, FlatLevels
  <2>3. CASE i = 5
    <3>1. rule.tid = "BLOCK" /\ rule.sub = "" /\ rule.kids = <<2>>
      BY <2>3, ProgramTrees DEF Tree
    <3>2. n = 3
      BY <2>3, LiveRules DEF Sized
    <3> HIDE DEF n, rhs, rule, v, S
    <3>3. v.tid = "BLOCK" /\ v.sub = "" /\ Len(v.kids) = 1
      BY <1>4, <3>1
    <3>4. nodes[v.kids[1]].tid = "BLOCK_ITEMS"
      <4>1. v.kids[1] = rhs[2]
        <5> DEFINE ks == rule.kids
        <5>1. ks = <<2>>
          BY <3>1
        <5> HIDE DEF ks
        <5>2. ks[1] = 2 /\ 1 \in 1..Len(ks)
          BY <5>1
        <5> QED
          BY <1>4, <5>2, Zenon DEF ks
      <4>2. 10 * i + 2 = 52
        BY <2>3
      <4>3. Fits(52, nodes[rhs[2]])
        BY <1>1, <3>2, <4>2
      <4> QED
        BY <4>1, <4>3 DEF Fits, HoldsToken, HoldsNode
    <3> QED
      BY <3>3, <3>4 DEF ShapedNode, FlatLevels
  <2>4. CASE i = 6
    <3>1. rule.tid = "BLOCK_ITEMS" /\ rule.sub = "Null" /\ rule.kids = <<>>
      BY <2>4, ItemTrees DEF Tree
    <3>2. n = 0
      BY <2>4, LiveRules DEF Sized
    <3> HIDE DEF n, rhs, rule, v, S
    <3>3. v.tid = "BLOCK_ITEMS" /\ v.sub = "Null" /\ Len(v.kids) = 0
      BY <1>4, <3>1
    <3> QED
      BY <3>3 DEF ShapedNode, FlatLevels
  <2>5. CASE i = 7
    <3>1. rule.tid = "BLOCK_ITEMS" /\ rule.sub = "Recv" /\ rule.kids = <<1, 2>>
      BY <2>5, ItemTrees DEF Tree
    <3>2. n = 2
      BY <2>5, LiveRules DEF Sized
    <3> HIDE DEF n, rhs, rule, v, S
    <3>3. v.tid = "BLOCK_ITEMS" /\ v.sub = "Recv" /\ Len(v.kids) = 2
      BY <1>4, <3>1
    <3>4. nodes[v.kids[2]].tid = "BLOCK_ITEMS"
      <4>1. v.kids[2] = rhs[2]
        <5> DEFINE ks == rule.kids
        <5>1. ks = <<1, 2>>
          BY <3>1
        <5> HIDE DEF ks
        <5>2. ks[2] = 2 /\ 2 \in 1..Len(ks)
          BY <5>1
        <5> QED
          BY <1>4, <5>2, Zenon DEF ks
      <4>2. 10 * i + 2 = 72
        BY <2>5
      <4>3. Fits(72, nodes[rhs[2]])
        BY <1>1, <3>2, <4>2
      <4> QED
        BY <4>1, <4>3 DEF Fits, HoldsToken, HoldsNode
    <3> QED
      BY <3>3, <3>4 DEF ShapedNode, FlatLevels
  <2>6. CASE i = 38
    <3>1. rule.tid = "ADD_EXPR" /\ rule.sub = "Mul" /\ rule.kids = <<1>>
      BY <2>6, ArithmeticTrees DEF Tree
    <3>2. n = 1
      BY <2>6, LiveRules DEF Sized
    <3> HIDE DEF n, rhs, rule, v, S
    <3>3. v.tid = "ADD_EXPR" /\ v.sub = "Mul" /\ Len(v.kids) = 1
      BY <1>4, <3>1
    <3> QED
      BY <3>3 DEF ShapedNode, FlatLevels
  <2>7. CASE i = 41
    <3>1. rule.tid = "REL_EXPR" /\ rule.sub = "Add" /\ rule.kids = <<1>>
      BY <2>7, ChainTrees DEF Tree
    <3>2. n = 1
      BY <2>7, LiveRules DEF Sized
    <3> HIDE DEF n, rhs, rule, v, S
    <3>3. v.tid = "REL_EXPR" /\ v.sub = "Add" /\ Len(v.kids) = 1
      BY <1>4, <3>1
    <3> QED
      BY <3>3 DEF ShapedNode, FlatLevels
  <2>8. CASE i = 43
    <3>1. rule.tid = "EQ_EXPR" /\ rule.sub = "Rel" /\ rule.kids = <<1>>
      BY <2>8, ChainTrees DEF Tree
    <3>2. n = 1
      BY <2>8, LiveRules DEF Sized
    <3> HIDE DEF n, rhs, rule, v, S
    <3>3. v.tid = "EQ_EXPR" /\ v.sub = "Rel" /\ Len(v.kids) = 1
      BY <1>4, <3>1
    <3> QED
      BY <3>3 DEF ShapedNode, FlatLevels
  <2>9. CASE i = 46
    <3>1. rule.tid = "LAND_EXPR" /\ rule.sub = "Eq" /\ rule.kids = <<1>>
      BY <2>9, ChainTrees DEF Tree
    <3>2. n = 1
      BY <2>9, LiveRules DEF Sized
    <3> HIDE DEF n, rhs, rule, v, S
    <3>3. v.tid = "LAND_EXPR" /\ v.sub = "Eq" /\ Len(v.kids) = 1
      BY <1>4, <3>1
    <3> QED
      BY <3>3 DEF ShapedNode, FlatLevels
  <2>10. CASE i = 48
    <3>1. rule.tid = "LOR_EXPR" /\ rule.sub = "LAnd" /\ rule.kids = <<1>>
      BY <2>10, ChainTrees DEF Tree
    <3>2. n = 1
      BY <2>10, LiveRules DEF Sized
    <3> HIDE DEF n, rhs, rule, v, S
    <3>3. v.tid = "LOR_EXPR" /\ v.sub = "LAnd" /\ Len(v.kids) = 1
      BY <1>4, <3>1
    <3> QED
      BY <3>3 DEF ShapedNode, FlatLevels
  <2>11. CASE i \notin {2, 3, 5, 6, 7, 38, 41, 43, 46, 48}
    <3>1. rule.tid \in {"FUNC_TYPE", "BLOCK_ITEM", "BTYPE", "STMT", "EXPR",
                        "PRIMARY_EXPR", "LVAL", "NUMBER", "UNARY_EXPR",
                        "UNARY_OP", "MUL_EXPR", "BINARY_OP"}
      <4>1. CASE i = 4
        BY <4>1, ProgramTrees DEF Tree
      <4>2. CASE i = 9
        BY <4>2, ItemTrees DEF Tree
      <4>3. CASE i = 14
        BY <4>3, ItemTrees DEF Tree
      <4>4. CASE i = 26
        BY <4>4, StmtTrees DEF Tree
      <4>5. CASE i = 27
        BY <4>5, StmtTrees DEF Tree
      <4>6. CASE i = 28
        BY <4>6, OperandTrees DEF Tree
      <4>7. CASE i = 29
        BY <4>7, OperandTrees DEF Tree
      <4>8. CASE i = 30
        BY <4>8, OperandTrees DEF Tree
      <4>9. CASE i = 31
        BY <4>9, OperandTrees DEF Tree
      <4>10. CASE i = 32
        BY <4>10, OperandTrees DEF Tree
      <4>11. CASE i = 33
        BY <4>11, OperandTrees DEF Tree
      <4>12. CASE i = 34
        BY <4>12, OperandTrees DEF Tree
      <4>13. CASE i = 35
        BY <4>13, OperandTrees DEF Tree
      <4>14. CASE i = 36
        BY <4>14, ArithmeticTrees DEF Tree
      <4>15. CASE i = 37
        BY <4>15, ArithmeticTrees DEF Tree
      <4>16. CASE i = 40
        BY <4>16, ArithmeticTrees DEF Tree
      <4>17. \/ i = 2
            \/ i = 3
            \/ i = 4
            \/ i = 5
            \/ i = 6
            \/ i = 7
            \/ i = 9
            \/ i = 14
            \/ i = 26
            \/ i = 27
            \/ i = 28
            \/ i = 29
            \/ i = 30
            \/ i = 31
            \/ i = 32
            \/ i = 33
            \/ i = 34
            \/ i = 35
            \/ i = 36
            \/ i = 37
            \/ i = 38
            \/ i = 40
            \/ i = 41
            \/ i = 43
            \/ i = 46
            \/ i = 48
        BY <1>2, Zenon DEF Reduces, Ends
      <4> QED
        BY <2>11, <4>1, <4>2, <4>3, <4>4, <4>5, <4>6, <4>7, <4>8, <4>9, <4>10,
           <4>11, <4>12, <4>13, <4>14, <4>15, <4>16, <4>17
    <3> HIDE DEF n, rhs, rule, v, S
    <3>2. v.tid = rule.tid
      BY <1>4
    <3> QED
      BY <3>1, <3>2 DEF ShapedNode, FlatLevels
  <2> QED
    BY <2>1, <2>2, <2>3, <2>4, <2>5, <2>6, <2>7, <2>8, <2>9, <2>10, <2>11
<1> QED
  BY <1>4, <1>5, <1>6

\* A node that has its shape has it as well in the heap it is appended to.
LEMMA ShapeOfNew ==
    ASSUME Planted, NEW v, v.kids \in Seq(1..Len(nodes)), nodes' = Append(nodes, v), ShapedNode(nodes, v)
    PROVE  ShapedNode(nodes', v)
<1> DEFINE L == Len(v.kids)
<1>1. \A k \in 1..L : nodes'[v.kids[k]] = nodes[v.kids[k]]
  <2> SUFFICES ASSUME NEW k \in 1..L PROVE nodes'[v.kids[k]] = nodes[v.kids[k]]
    OBVIOUS
  <2>1. v.kids[k] \in 1..Len(nodes)
    OBVIOUS
  <2> QED
    BY <2>1, HeapGrows
<1> HIDE DEF L
<1>2. ASSUME L = 1 PROVE 1 \in 1..L
  BY <1>2
<1>3. ASSUME L = 2 PROVE 1 \in 1..L /\ 2 \in 1..L
  BY <1>3
<1>4. L = 1 => nodes'[v.kids[1]] = nodes[v.kids[1]]
  BY <1>1, <1>2, Zenon
<1>5. L = 2 => nodes'[v.kids[1]] = nodes[v.kids[1]] /\ nodes'[v.kids[2]] = nodes[v.kids[2]]
  BY <1>1, <1>3, Zenon
<1> QED
  BY <1>4, <1>5 DEF ShapedNode, L

\* Shifts and reductions keep the values fitting and the nodes in shape.
LEMMA ShiftPlanted == ParserInv /\ Traced /\ Planted /\ Shift => Planted'
<1> SUFFICES ASSUME ParserInv, Traced, Planted, Shift PROVE Planted'
  OBVIOUS
<1> DEFINE X == lookahead[1]
           v == Token(X)
<1>1. PICK d : Move(Top, X, d) /\ Pushed(Len(states), d, v)
  BY ShiftStep
<1>2. Wants(Top, X)
  BY ShiftStep
<1>3. HoldsToken(d, X)
  BY <1>1, <1>2, ShiftFits
<1>4. v.tid = "TOKEN" /\ v.sub = X /\ v.kids = <<>> /\ v.tok \in Nat
  <2>1. Len(read) \in Nat /\ NoText \in Nat
    BY DEF ParserInv, ParserTypeOK, NoText
  <2> QED
    BY <2>1 DEF Token
<1>5. Len(states) \in 1..Len(states)
  BY TopFacts
<1> HIDE DEF v, X
<1>6. v.kids \in Seq(1..Len(nodes)) /\ Fits(d, v) /\ ShapedNode(nodes', v)
  BY <1>3, <1>4 DEF Fits, ShapedNode, FlatLevels
<1> QED
  BY <1>1, <1>4, <1>5, <1>6, PushPlanted

\* The same for a reduction.
LEMMA ReducePlanted == ParserInv /\ Traced /\ Planted /\ Reduce => Planted'
<1> SUFFICES ASSUME ParserInv, Traced, Planted, Reduce PROVE Planted'
  OBVIOUS
<1>1. PICK i, d : Reduced(i, d)
  BY ReduceStep
<1> DEFINE m == Len(states) - Len(Rules[i].rhs)
           v == Build(Rules[i], RhsValues(i))
<1>2. /\ v.kids \in Seq(1..Len(nodes)) /\ v.tok \in Nat
      /\ v.tid = Rules[i].tid /\ ShapedNode(nodes, v)
  BY <1>1, ReduceShape
<1>3. Reduces(Top, i) /\ Reduction(i, Name(m), d) /\ Pushed(m, d, v) /\ m \in 1..Len(states)
  <2>1. Len(states) \in Nat /\ Len(states) >= 1
    BY TopFacts
  <2>2. Len(Rules[i].rhs) \in 0..Len(states) - 1
    BY <1>1 DEF Reduced
  <2> QED
    BY <1>1, <2>1, <2>2 DEF Reduced, RhsValues
<1>4. HoldsNode(d, Rules[i].tid) /\ Rules[i].tid # "TOKEN"
  BY <1>3, ReduceFits
<1> HIDE DEF v, m
<1>5. Fits(d, v) /\ nodes' = Append(nodes, v)
  BY <1>2, <1>3, <1>4 DEF Fits, Pushed
<1>6. ShapedNode(nodes', v)
  BY <1>2, <1>5, ShapeOfNew
<1> QED
  BY <1>2, <1>3, <1>5, <1>6, PushPlanted

\* And for every step.
LEMMA PlantedNext == ParserInv /\ Traced /\ Planted /\ [Next \/ Returned]_vars => Planted'
<1> SUFFICES ASSUME ParserInv, Traced, Planted, [Next \/ Returned]_vars PROVE Planted'
  OBVIOUS
<1>1. CASE Shift
  BY <1>1, ShiftPlanted
<1>2. CASE Reduce
  BY <1>2, ReducePlanted
<1>3. CASE Lex \/ Error \/ Accept \/ UNCHANGED vars
  <2>1. states' = states /\ values' = values /\ nodes' = nodes
    BY <1>3 DEF Lex, Error, Accept, vars
  <2> QED
    BY <2>1 DEF Planted, Name
<1> QED
  BY <1>1, <1>2, <1>3 DEF Next, Returned

\* The nodes that the parser makes form trees, and every value on the stack is
\* of the class that the state above it stands for.
THEOREM ParserPlants == Spec => []Planted
<1>1. Init => Planted
  BY DEF Init, Planted
<1>2. ParserInv /\ Traced /\ Planted /\ [Next \/ Returned]_vars => Planted'
  BY PlantedNext
<1> QED
  BY <1>1, <1>2, ParserInvariant, ParserTraced, PTL DEF Spec

-----------------------------------------------------------------------------
(***************************************************************************)
(* Chains, accepted trees, and what the compiler makes of them.            *)
(***************************************************************************)
\* The binary rules of the levels above MUL_EXPR are never reduced: the token
\* that their operator is has been taken by BinOp before.
THEOREM ParserChainsFlat == Spec => []ChainsAreFlat
<1>1. Planted => ChainsAreFlat
  <2> SUFFICES ASSUME Planted, NEW n \in DOMAIN nodes,
                      nodes[n].tid \in {"ADD_EXPR", "REL_EXPR", "EQ_EXPR", "LAND_EXPR", "LOR_EXPR"}
               PROVE  Len(nodes[n].kids) = 1
    BY DEF ChainsAreFlat
  <2>1. n \in 1..Len(nodes)
    BY LenProperties DEF Planted
  <2>2. ShapedNode(nodes, nodes[n])
    BY <2>1 DEF Planted
  <2> QED
    BY <2>2 DEF ShapedNode, FlatLevels
<1> QED
  BY <1>1, ParserPlants, PTL

\* The program is accepted in the state behind it.
Accepted == pc = "accept" => Top = 11

\* A program is accepted in state 11 only, behind CompUnit.
LEMMA AcceptedNext == ParserInv /\ Traced /\ Accepted /\ [Next \/ Returned]_vars => Accepted'
<1> SUFFICES ASSUME ParserInv, Traced, Accepted, [Next \/ Returned]_vars, pc' = "accept"
             PROVE  Top' = 11
  BY DEF Accepted
<1>1. CASE Accept
  <2>1. Wants(Top, "$end") /\ states' = states
    BY <1>1, TopFacts DEF Accept
  <2>2. OpenBlock # "$end" /\ CloseBlock # "$end" /\ Semicolon # "$end"
    BY Zenon DEF OpenBlock, CloseBlock, Semicolon
  <2>3. Top = 11
    BY <2>1, <2>2 DEF Wants
  <2> QED
    BY <2>1, <2>3 DEF Top, Name
<1>2. CASE Shift
  <2>1. pc' \in {"parse", "exhausted"}
    BY <1>2, ShiftStep DEF Pushed
  <2> QED
    BY <2>1
<1>3. CASE Reduce
  <2>1. PICK i, d : Reduced(i, d)
    BY <1>3, ReduceStep
  <2>2. pc' \in {"parse", "exhausted"}
    BY <2>1 DEF Reduced, Pushed
  <2> QED
    BY <2>2
<1>4. CASE Lex
  BY <1>4 DEF Lex
<1>5. CASE Error
  BY <1>5 DEF Error
<1>6. CASE UNCHANGED vars
  BY <1>6 DEF vars, Accepted, Top, Name
<1> QED
  BY <1>1, <1>2, <1>3, <1>4, <1>5, <1>6 DEF Next, Returned

\* So it is in every state.
LEMMA ParserAccepted == Spec => []Accepted
<1>1. Init => Accepted
  BY DEF Init, Accepted
<1>2. ParserInv /\ Traced /\ Accepted /\ [Next \/ Returned]_vars => Accepted'
  BY AcceptedNext
<1> QED
  BY <1>1, <1>2, ParserInvariant, ParserTraced, PTL DEF Spec

\* The tree of an accepted program, down to the list of its block.
LEMMA AcceptedTree ==
    ASSUME ParserInv, Traced, Planted, Top = 11
    PROVE  /\ Len(states) = 2 /\ Len(values) = 1 /\ Root \in 1..Len(nodes)
           /\ nodes[Root].tid = "COMP_UNIT" /\ nodes[nodes[Root].kids[1]].tid = "FUNC_DEF"
           /\ Len(nodes[Root].kids) = 1 /\ nodes[Root].kids[1] \in 1..Len(nodes)
           /\ RootBlock \in 1..Len(nodes) /\ nodes[RootBlock].tid = "BLOCK"
           /\ Contents(RootBlock) \in 1..Len(nodes)
           /\ nodes[Contents(RootBlock)].tid = "BLOCK_ITEMS"
<1> DEFINE K == Len(states)
           N == Len(nodes)
<1>1. K \in Nat /\ K >= 1 /\ K = Len(values) + 1 /\ Len(values) \in Nat
  BY DEF ParserInv, ParserTypeOK, StackShape, Linked
<1>2. Name(1) = 10 /\ Name(K) = 11 /\ \A k \in 1..K - 1 : Over(Name(k), Name(k + 1))
  BY DEF Traced, Top
<1>3. K # 1
  <2> SUFFICES ASSUME K = 1 PROVE FALSE
    OBVIOUS
  <2>1. Name(K) = Name(1)
    OBVIOUS
  <2> HIDE DEF K
  <2> QED
    BY <1>2, <2>1
<1>4. K - 1 \in 1..K - 1 /\ (K - 1) + 1 = K
  BY <1>1, <1>3
<1>5. Name(K - 1) = 10
  <2>1. Over(Name(K - 1), Name(K))
    BY <1>2, <1>4
  <2> QED
    BY <1>2, <2>1 DEF Over
<1>6. K = 2
  <2> SUFFICES ASSUME K # 2 PROVE FALSE
    OBVIOUS
  <2>1. K - 2 \in 1..K - 1 /\ (K - 2) + 1 = K - 1
    BY <1>1, <1>3
  <2> HIDE DEF K
  <2>2. Over(Name(K - 2), Name((K - 2) + 1))
    BY <1>2, <2>1
  <2>3. Over(Name(K - 2), 10)
    BY <1>5, <2>1, <2>2
  <2> QED
    BY <2>3 DEF Over, Operands
<1>7. Len(values) = 1 /\ Root \in 1..N /\ Fits(11, nodes[Root])
  <2>1. Len(values) = 1 /\ 1 \in 1..Len(values) /\ 1 + 1 = K
    BY <1>1, <1>6
  <2>2. values[1] \in 1..N /\ Fits(Name(1 + 1), nodes[values[1]])
    BY <2>1 DEF Planted
  <2> QED
    BY <1>2, <2>1, <2>2 DEF Root
<1>8. \A n \in 1..N : nodes[n].kids \in Seq(1..n-1) /\ ShapedNode(nodes, nodes[n])
  BY DEF Planted
<1>9. \A n \in 1..N : \A k \in 1..Len(nodes[n].kids) : nodes[n].kids[k] \in 1..N
  <2> SUFFICES ASSUME NEW n \in 1..N, NEW k \in 1..Len(nodes[n].kids)
               PROVE  nodes[n].kids[k] \in 1..N
    OBVIOUS
  <2>1. nodes[n].kids \in Seq(1..n-1) /\ N \in Nat
    BY <1>8 DEF Planted
  <2> DEFINE ks == nodes[n].kids
  <2> HIDE DEF ks, N
  <2>2. ks[k] \in 1..n-1
    BY <2>1 DEF ks
  <2> QED
    BY <2>1, <2>2 DEF ks
<1> HIDE DEF N
<1>10. nodes[Root].tid = "COMP_UNIT"
  BY <1>7 DEF Fits, HoldsToken, HoldsNode
<1> DEFINE u == nodes[Root]
           f == nodes[u.kids[1]]
           b == nodes[f.kids[2]]
<1>11. Len(u.kids) = 1 /\ u.kids[1] \in 1..N /\ f.tid = "FUNC_DEF"
  <2>1. ShapedNode(nodes, u)
    BY <1>7, <1>8
  <2>2. Len(u.kids) = 1 /\ f.tid = "FUNC_DEF"
    BY <1>10, <2>1 DEF ShapedNode
  <2>3. 1 \in 1..Len(u.kids)
    BY <2>2
  <2> QED
    BY <1>7, <1>9, <2>2, <2>3
<1>12. Len(f.kids) = 2 /\ f.kids[2] \in 1..N /\ b.tid = "BLOCK"
  <2>1. ShapedNode(nodes, f)
    BY <1>8, <1>11
  <2> HIDE DEF u
  <2>2. Len(f.kids) = 2 /\ b.tid = "BLOCK"
    BY <1>11, <2>1 DEF ShapedNode
  <2>3. 2 \in 1..Len(f.kids)
    BY <2>2
  <2> QED
    BY <1>9, <1>11, <2>2, <2>3
<1>13. b.kids[1] \in 1..N /\ nodes[b.kids[1]].tid = "BLOCK_ITEMS"
  <2>1. ShapedNode(nodes, b)
    BY <1>8, <1>12
  <2> HIDE DEF u, f
  <2>2. Len(b.kids) = 1 /\ nodes[b.kids[1]].tid = "BLOCK_ITEMS"
    BY <1>12, <2>1 DEF ShapedNode
  <2>3. 1 \in 1..Len(b.kids)
    BY <2>2
  <2> QED
    BY <1>9, <1>12, <2>2, <2>3
<1>14. RootBlock = f.kids[2] /\ Contents(RootBlock) = b.kids[1]
  BY DEF RootBlock, Contents
<1> HIDE DEF u, f, b
<1>15. /\ RootBlock \in 1..N /\ nodes[RootBlock].tid = "BLOCK"
       /\ Contents(RootBlock) \in 1..N /\ nodes[Contents(RootBlock)].tid = "BLOCK_ITEMS"
  BY <1>12, <1>13, <1>14 DEF b
<1>16. /\ Len(nodes[Root].kids) = 1 /\ nodes[Root].kids[1] \in 1..N
       /\ nodes[nodes[Root].kids[1]].tid = "FUNC_DEF"
  BY <1>11 DEF f, u
<1> QED
  BY <1>6, <1>7, <1>10, <1>15, <1>16 DEF N

\* The words of a list of a block: the tag of the class behind two pointers.
LEMMA ListWords ==
    ASSUME NEW n, nodes[n].tid = "BLOCK_ITEMS"
    PROVE  /\ nodes[n].sub = "Null" => Words(n) = <<NullWord, NullWord, <<"int", 0>>>>
           /\ nodes[n].sub = "Recv" =>
                 Words(n) = <<Pointer(nodes[n].kids[1]), Pointer(nodes[n].kids[2]), <<"int", 1>>>>
BY DEF Words

\* The constructor of BasicBlockIR never comes to an expression of an accepted
\* program: what it takes for the expression is the tag of a list.
THEOREM ParserCompilesNothing == Spec => []NoStatementIsCompiled
<1>1. ParserInv /\ Traced /\ Planted /\ Accepted => NoStatementIsCompiled
  <2> SUFFICES ASSUME ParserInv, Traced, Planted, Top = 11
               PROVE  Constructor(RootBlock) # "traverse"
    BY DEF NoStatementIsCompiled, Accepted
  <2> DEFINE L == Contents(RootBlock)
  <2>1. L \in 1..Len(nodes) /\ nodes[L].tid = "BLOCK_ITEMS"
    BY AcceptedTree
  <2>2. ShapedNode(nodes, nodes[L])
    BY <2>1 DEF Planted
  <2>3. CASE nodes[L].sub = "Null"
    <3> DEFINE item == Words(L)
    <3>1. item = <<NullWord, NullWord, <<"int", 0>>>>
      BY <2>1, <2>3, ListWords
    <3> DEFINE tag == item[3]
    <3>2. item[1] = NullWord /\ tag = <<"int", 0>>
      BY <3>1
    <3>3. tag[2] = 0
      BY <3>2
    <3> HIDE DEF L, item
    <3>4. Constructor(RootBlock) = "abort"
      BY <3>2, <3>3 DEF Constructor, CastFails, L, item
    <3> QED
      BY <3>4
  <2>4. CASE nodes[L].sub = "Recv"
    <3> DEFINE item == Words(L)
               next == nodes[L].kids[2]
               expr == Words(next)[3]
    <3>1. nodes[next].tid = "BLOCK_ITEMS"
      BY <2>1, <2>2, <2>4 DEF ShapedNode
    <3>2. item = <<Pointer(nodes[L].kids[1]), Pointer(next), <<"int", 1>>>>
      BY <2>1, <2>4, ListWords
    <3> HIDE DEF next
    <3> DEFINE tag == item[3]
               stmt == item[2]
    <3>3. stmt = <<"node", next>> /\ tag = <<"int", 1>>
      BY <3>2 DEF Pointer
    <3>4. tag[2] = 1 /\ stmt[2] = next
      BY <3>3
    <3>5. nodes[next].sub \in {"Null", "Recv"}
      <4>1. next \in 1..Len(nodes)
        <5> DEFINE ks == nodes[L].kids
        <5>2. Len(ks) = 2
          BY <2>1, <2>2, <2>4 DEF ShapedNode
        <5> HIDE DEF L
        <5>1. ks \in Seq(1..L-1) /\ Len(nodes) \in Nat
          BY <2>1 DEF Planted
        <5> HIDE DEF ks
        <5>3. ks[2] \in 1..L-1
          <6> DEFINE S == 1..L-1
          <6>1. ks \in Seq(S) /\ 2 \in 1..Len(ks)
            BY <5>1, <5>2
          <6> HIDE DEF S
          <6>2. ks[2] \in S
            BY <6>1
          <6> QED
            BY <6>2 DEF S
        <5> QED
          BY <2>1, <5>1, <5>3 DEF next, ks
      <4>2. ShapedNode(nodes, nodes[next])
        BY <4>1 DEF Planted
      <4> QED
        BY <3>1, <4>2 DEF ShapedNode
    <3>6. expr = <<"int", 0>> \/ expr = <<"int", 1>>
      <4>1. CASE nodes[next].sub = "Null"
        <5>1. Words(next) = <<NullWord, NullWord, <<"int", 0>>>>
          BY <3>1, <4>1, ListWords
        <5> QED
          BY <5>1
      <4>2. CASE nodes[next].sub = "Recv"
        <5>1. Words(next) = <<Pointer(nodes[next].kids[1]), Pointer(nodes[next].kids[2]), <<"int", 1>>>>
          BY <3>1, <4>2, ListWords
        <5> QED
          BY <5>1
      <4> QED
        BY <3>5, <4>1, <4>2
    <3>7. expr[1] = "int"
      BY <3>6
    <3>8. Words(stmt[2])[3] = expr
      BY <3>4
    <3> DEFINE result == CASE CastFails(stmt) \/ CastFails(expr) -> "abort"
                           [] expr[1] = "node" -> "traverse"
                           [] OTHER -> "wild read"
    <3>9. result # "traverse"
      <4> HIDE DEF item, expr
      <4> QED
        BY <3>7
    <3>10. Constructor(RootBlock) = result
      <4>1. /\ Words(Contents(RootBlock))[3][2] = 1
            /\ Words(Contents(RootBlock))[2] = stmt
        BY <3>4
      <4>2. Words(Words(Contents(RootBlock))[2][2])[3] = expr
        BY <3>8
      <4> HIDE DEF item, expr, L
      <4> QED
        BY <4>1, <4>2 DEF Constructor, item, L
    <3> HIDE DEF result
    <3> QED
      BY <3>9, <3>10
  <2> QED
    BY <2>1, <2>2, <2>3, <2>4 DEF ShapedNode
<1> QED
  BY <1>1, ParserInvariant, ParserTraced, ParserPlants, ParserAccepted, PTL

-----------------------------------------------------------------------------
(***************************************************************************)
(* The places of a program, and where the stack says the parser is.        *)
(***************************************************************************)
\* The places that a reader can be at.
Place0 == [place : {"header", "item", "end", "operand", "operator", "rejected"}, count : Int]

\* The header of a program, token by token.
LEMMA HeaderTokens ==
    /\ Len(Header) = 5
    /\ Header[1] = "INT" /\ Header[2] = "IDENT" /\ Header[3] = "(" /\ Header[4] = ")"
    /\ Header[5] = OpenBlock
<1>1. Header = <<"INT", "IDENT", "(", ")", OpenBlock>>
  BY Zenon DEF Header, OpenBlock
<1> DEFINE h == Header
<1>2. h = <<"INT", "IDENT", "(", ")", OpenBlock>>
  BY <1>1
<1> HIDE DEF h
<1>3. Len(h) = 5 /\ h[1] = "INT" /\ h[2] = "IDENT" /\ h[3] = "(" /\ h[4] = ")" /\ h[5] = OpenBlock
  BY <1>2
<1> QED
  BY <1>3 DEF h

\* What a token does to the reader.
LEMMA ReaderStep ==
    ASSUME NEW at, NEW c
    PROVE  AfterToken(at, c) =
             CASE at.place = "header" /\ c = Header[at.count + 1] ->
                    IF at.count + 1 < Len(Header)
                    THEN At("header", at.count + 1) ELSE At("item", 0)
               [] at.place = "item" /\ c = "RETURN" -> At("operand", 0)
               [] at.place = "item" /\ c = CloseBlock -> At("end", 0)
               [] at.place = "operand" /\ c = "OPT" -> at
               [] at.place = "operand" /\ c = "(" -> At("operand", at.count + 1)
               [] at.place = "operand" /\ c \in {"INT_CONST", "IDENT"} -> At("operator", at.count)
               [] at.place = "operator" /\ c = "OPT" -> At("operand", at.count)
               [] at.place = "operator" /\ c = ")" /\ at.count > 0 -> At("operator", at.count - 1)
               [] at.place = "operator" /\ c = Semicolon /\ at.count = 0 -> At("item", 0)
               [] OTHER -> At("rejected", 0)
BY Zenon DEF AfterToken, CloseBlock, Semicolon

\* A token takes a reader from a place to a place.
LEMMA ReaderStays == ASSUME NEW at \in Place0, NEW c PROVE AfterToken(at, c) \in Place0
<1>1. \A p \in {"header", "item", "end", "operand", "operator", "rejected"}, n \in Int : At(p, n) \in Place0
  BY DEF At, Place0
<1>2. at.place \in {"header", "item", "end", "operand", "operator", "rejected"} /\ at.count \in Int
  BY DEF Place0
<1> HIDE DEF At, Place0
<1> QED
  BY <1>1, <1>2, ReaderStep

\* The place function exists and is what its definition says.
LEMMA PlaceAtIs ==
    ASSUME ParserInv
    PROVE  /\ PlaceAt \in [0..Len(read) -> Place0]
           /\ PlaceAt[0] = At("header", 0)
           /\ \A n \in 1..Len(read) : PlaceAt[n] = AfterToken(PlaceAt[n-1], read[n])
<1> DEFINE L == Len(read)
           base == At("header", 0)
           step == [p \in Place0 \X (1..L) |-> AfterToken(p[1], read[p[2]])]
           Body(f) == [n \in 0..L |-> IF n = 0 THEN base ELSE AfterToken(f[n-1], read[n])]
<1>1. L \in Nat
  BY DEF ParserInv, ParserTypeOK
<1>2. base \in Place0
  BY DEF At, Place0
<1>3. step \in [Place0 \X (1..L) -> Place0]
  BY ReaderStays
<1> HIDE DEF base, L
<1>4. PICK f : IsScan(f, Place0, base, step, L)
  <2> HIDE DEF step
  <2> QED
    BY <1>1, <1>2, <1>3, ScanExists
<1>5. f \in [0..L -> Place0] /\ f[0] = base /\ \A n \in 1..L : f[n] = AfterToken(f[n-1], read[n])
  <2>1. f \in [0..L -> Place0] /\ f[0] = base /\ \A k \in 1..L : f[k] = step[<<f[k-1], k>>]
    BY <1>4 DEF IsScan
  <2>2. \A n \in 1..L : f[n-1] \in Place0
    BY <1>1, <2>1
  <2> QED
    BY <2>1, <2>2
<1> HIDE DEF step
<1>6. f = Body(f)
  <2>1. f = [n \in 0..L |-> f[n]]
    BY <1>5
  <2>2. \A n \in 0..L : f[n] = IF n = 0 THEN base ELSE AfterToken(f[n-1], read[n])
    BY <1>1, <1>5
  <2> QED
    BY <2>1, <2>2, Zenon
<1>7. PlaceAt = CHOOSE g : g = Body(g)
  BY DEF PlaceAt, base, L
<1>8. PlaceAt = Body(PlaceAt)
  <2> HIDE DEF Body
  <2> QED
    BY <1>6, <1>7
<1>9. PlaceAt = [n \in 0..L |-> PlaceAt[n]] /\ PlaceAt[0] = base
  <2> DEFINE P == PlaceAt
  <2>1. P = [n \in 0..L |-> IF n = 0 THEN base ELSE AfterToken(P[n-1], read[n])]
    BY <1>8
  <2> HIDE DEF P
  <2>2. P = [n \in 0..L |-> P[n]] /\ P[0] = base
    BY <1>1, <2>1
  <2> QED
    BY <2>2 DEF P
<1>10. \A n \in 1..L : PlaceAt[n] = AfterToken(PlaceAt[n-1], read[n])
  <2> DEFINE P == PlaceAt
  <2>1. P = [n \in 0..L |-> IF n = 0 THEN base ELSE AfterToken(P[n-1], read[n])]
    BY <1>8
  <2> HIDE DEF P
  <2>2. \A n \in 1..L : P[n] = AfterToken(P[n-1], read[n])
    BY <1>1, <2>1
  <2> QED
    BY <2>2 DEF P
<1>11. \A k \in 0..L : PlaceAt[k] = f[k]
  <2> DEFINE P == PlaceAt
  <2>1. P[0] = f[0] /\ \A k \in 1..L : P[k-1] = f[k-1] => P[k] = f[k]
    BY <1>5, <1>9, <1>10
  <2> HIDE DEF P
  <2>2. \A k \in 0..L : P[k] = f[k]
    BY <1>1, <2>1, ScansAgree
  <2> QED
    BY <2>2 DEF P
<1>12. PlaceAt \in [0..L -> Place0]
  <2> DEFINE P == PlaceAt
  <2>1. P = [n \in 0..L |-> P[n]] /\ \A n \in 0..L : P[n] \in Place0
    BY <1>5, <1>9, <1>11
  <2> HIDE DEF P
  <2>2. P \in [0..L -> Place0]
    BY <2>1
  <2> QED
    BY <2>2 DEF P
<1> QED
  BY <1>9, <1>10, <1>12 DEF L, base

\* Punctuation is not a word.
LEMMA PunctuationDiffers ==
    /\ OpenBlock # "$end" /\ CloseBlock # "$end" /\ Semicolon # "$end"
    /\ CloseBlock # "RETURN" /\ Semicolon # "OPT" /\ Semicolon # ")"
    /\ CloseBlock # "CONST" /\ CloseBlock # "IDENT"
BY Zenon DEF OpenBlock, CloseBlock, Semicolon

\* The tops of the stack where a declaration or an assignment has begun.
Rejecting == {131, 132, 141, 171, 251}

\* The place in the program that the state c on top of the stack stands for; q is
\* the state below it, n the number of open parentheses on the stack.
Reader(c, q, n) ==
    CASE c = 10 -> At("header", 0)
      [] c \in {31, 41} -> At("header", 1)
      [] c = 32 -> At("header", 2)
      [] c = 33 -> At("header", 3)
      [] c = 34 -> At("header", 4)
      [] c \in {51, 52, 71, 72, 91, 263} -> At("item", 0)
      [] c \in {11, 21, 35, 53} -> At("end", 0)
      [] c \in Rejecting -> At("rejected", 0)
      [] c = 311 /\ q \in {51, 71} -> At("rejected", 0)
      [] c \in Operands \cup {351, 401} -> At("operand", n)
      [] c = 283 -> At("operator", n - 1)
      [] OTHER -> At("operator", n)

\* What the reader's step from there is, for a token that is shifted.
LEMMA ReaderShift ==
    ASSUME NEW c, NEW t, Wants(c, t), NEW d, Move(c, t, d), NEW q, NEW n \in Nat,
           c \in {51, 71, 262} => n = 0, c = 282 => n > 0
    PROVE  AfterToken(Reader(c, q, n), t) = Reader(d, c, IF d = 281 THEN n + 1 ELSE n)
<1>1. CASE c \in {10, 31, 32, 33, 34}
  <2>1. \/ c = 10 /\ t = "INT" /\ d = 41
        \/ c = 31 /\ t = "IDENT" /\ d = 32
        \/ c = 32 /\ t = "(" /\ d = 33
        \/ c = 33 /\ t = ")" /\ d = 34
        \/ c = 34 /\ t = OpenBlock /\ d = 51
    <3>1. \/ c = 10 /\ t = "INT"
          \/ c = 31 /\ t = "IDENT"
          \/ c = 32 /\ t = "("
          \/ c = 33 /\ t = ")"
          \/ c = 34 /\ t = OpenBlock
      BY <1>1 DEF Wants, Operands, Chains
    <3>2. OpenBlock # "Block"
      BY TokensUnnamed DEF Names
    <3> QED
      BY <3>1, <3>2 DEF Move, Operands
  <2>2. CASE c = 10
    <3>1. AfterToken(At("header", 0), "INT") = At("header", 1)
      BY ReaderStep, HeaderTokens DEF At
    <3> QED
      BY <2>1, <2>2, <3>1 DEF Reader, Rejecting, Operands
  <2>3. CASE c = 31
    <3>1. AfterToken(At("header", 1), "IDENT") = At("header", 2)
      BY ReaderStep, HeaderTokens DEF At
    <3> QED
      BY <2>1, <2>3, <3>1 DEF Reader, Rejecting, Operands
  <2>4. CASE c = 32
    <3>1. AfterToken(At("header", 2), "(") = At("header", 3)
      BY ReaderStep, HeaderTokens DEF At
    <3> QED
      BY <2>1, <2>4, <3>1 DEF Reader, Rejecting, Operands
  <2>5. CASE c = 33
    <3>1. AfterToken(At("header", 3), ")") = At("header", 4)
      BY ReaderStep, HeaderTokens DEF At
    <3> QED
      BY <2>1, <2>5, <3>1 DEF Reader, Rejecting, Operands
  <2>6. CASE c = 34
    <3>1. AfterToken(At("header", 4), OpenBlock) = At("item", 0)
      BY ReaderStep, HeaderTokens DEF At
    <3> QED
      BY <2>1, <2>6, <3>1 DEF Reader, Rejecting, Operands
  <2> QED
    BY <1>1, <2>2, <2>3, <2>4, <2>5, <2>6
<1>2. CASE c \in {51, 71}
  <2>1. t = "CONST" \/ t = "IDENT" \/ t = "RETURN"
    BY <1>2 DEF Wants, Operands, Chains
  <2>2. \/ t = "CONST" /\ d = 131
        \/ t = "IDENT" /\ d = 311
        \/ t = "RETURN" /\ d = 261
    BY <1>2, <2>1 DEF Move, Operands
  <2>3. n = 0 /\ Reader(c, q, n) = At("item", 0)
    BY <1>2 DEF Reader, Rejecting, Operands
  <2>4. /\ AfterToken(At("item", 0), "CONST") = At("rejected", 0)
        /\ AfterToken(At("item", 0), "IDENT") = At("rejected", 0)
        /\ AfterToken(At("item", 0), "RETURN") = At("operand", 0)
    BY ReaderStep, PunctuationDiffers DEF At
  <2> QED
    BY <1>2, <2>2, <2>3, <2>4 DEF Reader, Rejecting, Operands
<1>3. CASE c \in {52, 262, 282, 371}
  <2>1. \/ c = 52 /\ t = CloseBlock
        \/ c = 262 /\ t = Semicolon
        \/ c = 282 /\ t = ")"
        \/ c = 371 /\ t = "OPT"
    BY <1>3 DEF Wants, Operands, Chains
  <2>2. CASE c = 52
    <3>1. d = 53
      BY <2>2 DEF Move, Operands
    <3>2. AfterToken(At("item", 0), CloseBlock) = At("end", 0)
      BY ReaderStep, PunctuationDiffers DEF At
    <3> QED
      BY <2>1, <2>2, <3>1, <3>2 DEF Reader, Rejecting, Operands
  <2>3. CASE c = 262
    <3>1. d = 263 /\ n = 0
      BY <2>3 DEF Move, Operands
    <3>2. AfterToken(At("operator", 0), Semicolon) = At("item", 0)
      BY ReaderStep, PunctuationDiffers DEF At
    <3> QED
      BY <2>1, <2>3, <3>1, <3>2 DEF Reader, Rejecting, Operands
  <2>4. CASE c = 282
    <3>1. d = 283 /\ n > 0
      BY <2>4 DEF Move, Operands
    <3>2. AfterToken(At("operator", n), ")") = At("operator", n - 1)
      BY <3>1, ReaderStep, PunctuationDiffers DEF At
    <3> QED
      BY <2>1, <2>4, <3>1, <3>2 DEF Reader, Rejecting, Operands
  <2>5. CASE c = 371
    <3>1. t = "OPT" /\ d = 401
      BY <2>1, <2>5 DEF Move, Operands
    <3>2. AfterToken(At("operator", n), "OPT") = At("operand", n)
      BY ReaderStep, PunctuationDiffers DEF At
    <3> QED
      BY <2>5, <3>1, <3>2 DEF Reader, Rejecting, Operands
  <2> QED
    BY <1>3, <2>2, <2>3, <2>4, <2>5
<1>4. CASE c \in {131, 132}
  <2>1. d \in {141, 171}
    <3>1. (c = 131 /\ t = "INT") \/ (c = 132 /\ t = "IDENT")
      BY <1>4 DEF Wants, Operands, Chains
    <3> QED
      BY <3>1 DEF Move, Operands
  <2>2. AfterToken(At("rejected", 0), t) = At("rejected", 0)
    BY ReaderStep DEF At
  <2> QED
    BY <1>4, <2>1, <2>2 DEF Reader, Rejecting, Operands
<1>5. CASE c \in Operands
  <2>1. t = "(" \/ t = "IDENT" \/ t = "INT_CONST" \/ t = "OPT"
    BY <1>5 DEF Wants, Operands, Chains
  <2>2. \/ t = "(" /\ d = 281
        \/ t = "IDENT" /\ d = 311
        \/ t = "INT_CONST" /\ d = 321
        \/ t = "OPT" /\ d = 351
    BY <1>5, <2>1 DEF Move, Operands
  <2>3. Reader(c, q, n) = At("operand", n)
    BY <1>5 DEF Reader, Rejecting, Operands
  <2>4. /\ AfterToken(At("operand", n), "(") = At("operand", n + 1)
        /\ AfterToken(At("operand", n), "IDENT") = At("operator", n)
        /\ AfterToken(At("operand", n), "INT_CONST") = At("operator", n)
        /\ AfterToken(At("operand", n), "OPT") = At("operand", n)
    BY ReaderStep DEF At
  <2> QED
    BY <1>5, <2>2, <2>3, <2>4 DEF Reader, Rejecting, Operands
<1>6. \/ c \in {10, 31, 32, 33, 34}
      \/ c \in {51, 71}
      \/ c \in {52, 262, 282, 371}
      \/ c \in {131, 132}
      \/ c \in Operands
  <2>1. t \notin Names
    BY TokensUnnamed DEF Wants
  <2> QED
    BY <2>1 DEF Move, Operands, Names
<1> QED
  BY <1>1, <1>2, <1>3, <1>4, <1>5, <1>6

\* A reduction does not move the reader.
LEMMA ReaderReduce ==
    ASSUME NEW c, NEW i, Reduces(c, i), NEW p, NEW d, Reduction(i, p, d), NEW q, NEW n \in Nat,
           c = 311 => q = p
    PROVE  Reader(c, q, n) = Reader(d, p, IF i = 28 THEN n - 1 ELSE n)
<1>1. CASE i \in {2, 3, 4, 5, 6, 7, 9, 14, 26}
  <2>1. \/ c \in {21, 35, 53} /\ d \in {11, 21, 35}
        \/ c = 41 /\ d = 31
        \/ c \in {51, 71, 72, 91, 263} /\ d \in {52, 72, 71, 91}
        \/ c = 141 /\ d = 132
    BY <1>1 DEF Reduces, Ends, Reduction
  <2> QED
    BY <1>1, <2>1 DEF Reader, Rejecting, Operands
<1>2. CASE i = 31
  <2>1. c = 311 /\ ((p \in {51, 71} /\ d = 251) \/ (p \in Operands /\ d = 301))
    BY <1>2 DEF Reduces, Ends, Reduction
  <2> QED
    BY <1>2, <2>1 DEF Reader, Rejecting, Operands
<1>3. CASE i = 28
  <2>1. c = 283 /\ d = 331
    BY <1>3 DEF Reduces, Ends, Reduction
  <2> QED
    BY <1>3, <2>1 DEF Reader, Rejecting, Operands
<1>4. CASE i \in {35, 40}
  <2>1. c \in {351, 401} /\ d \in {341, 372}
    BY <1>4 DEF Reduces, Ends, Reduction
  <2> QED
    BY <1>4, <2>1 DEF Reader, Rejecting, Operands
<1>5. CASE i \notin {2, 3, 4, 5, 6, 7, 9, 14, 26, 31, 28, 35, 40}
  <2>1. c \in {491, 291, 301, 321, 331, 342, 361, 373, 371, 391, 421, 441, 471}
    BY <1>5 DEF Reduces, Ends
  <2>2. d \in {262, 282, 331, 291, 361, 342, 373, 371, 391, 421, 441, 471, 491}
    BY <1>5 DEF Reduction
  <2> QED
    BY <1>5, <2>1, <2>2 DEF Reader, Rejecting, Operands
<1> QED
  BY <1>1, <1>2, <1>3, <1>4, <1>5

\* Where the parser is stuck, the reader refuses the next token.
LEMMA ReaderStuck ==
    ASSUME NEW c \in Alive, NEW t, ~Wants(c, t), \A i : ~Ends(c, i), NEW q, NEW n \in Nat,
           c = 262 => n = 0 /\ t # "OPT", c = 282 => n > 0 /\ t # "OPT",
           c = 52 => t # "RETURN"
    PROVE  /\ AfterToken(Reader(c, q, n), t) = At("rejected", 0)
           /\ t = "$end" => Reader(c, q, n).place # "end"
<1>1. c \in {10, 11, 31, 32, 33, 34, 52, 131, 132, 171, 251, 262, 282} \cup Operands
  BY DEF Ends, Alive, Operands
<1>2. CASE c \in {10, 31, 32, 33, 34}
  <2>1. \/ c = 10 /\ t # "INT"
        \/ c = 31 /\ t # "IDENT"
        \/ c = 32 /\ t # "("
        \/ c = 33 /\ t # ")"
        \/ c = 34 /\ t # OpenBlock
    BY <1>2 DEF Wants
  <2>2. /\ t # "INT" => AfterToken(At("header", 0), t) = At("rejected", 0)
        /\ t # "IDENT" => AfterToken(At("header", 1), t) = At("rejected", 0)
        /\ t # "(" => AfterToken(At("header", 2), t) = At("rejected", 0)
        /\ t # ")" => AfterToken(At("header", 3), t) = At("rejected", 0)
        /\ t # OpenBlock => AfterToken(At("header", 4), t) = At("rejected", 0)
    BY ReaderStep, HeaderTokens DEF At
  <2> QED
    BY <2>1, <2>2 DEF Reader, Rejecting, Operands, At
<1>3. CASE c = 11
  <2>1. t # "$end" /\ Reader(c, q, n) = At("end", 0)
    BY <1>3 DEF Wants, Reader, Rejecting, Operands
  <2>2. AfterToken(At("end", 0), t) = At("rejected", 0)
    BY ReaderStep DEF At
  <2> QED
    BY <2>1, <2>2
<1>4. CASE c = 52
  <2>1. t # CloseBlock /\ t # "RETURN" /\ Reader(c, q, n) = At("item", 0)
    BY <1>4 DEF Wants, Reader, Rejecting, Operands
  <2>2. AfterToken(At("item", 0), t) = At("rejected", 0)
    BY <2>1, ReaderStep DEF At
  <2> QED
    BY <2>1, <2>2 DEF At
<1>5. CASE c \in {131, 132, 171, 251}
  <2>1. Reader(c, q, n) = At("rejected", 0)
    BY <1>5 DEF Reader, Rejecting, Operands
  <2>2. AfterToken(At("rejected", 0), t) = At("rejected", 0)
    BY ReaderStep DEF At
  <2> QED
    BY <2>1, <2>2 DEF At
<1>6. CASE c \in {262, 282}
  <2>1. Reader(c, q, n) = At("operator", n)
    BY <1>6 DEF Reader, Rejecting, Operands
  <2>2. /\ t # "OPT" /\ (c = 262 => n = 0 /\ t # Semicolon) /\ (c = 282 => n > 0 /\ t # ")")
    BY <1>6 DEF Wants
  <2>3. AfterToken(At("operator", n), t) = At("rejected", 0)
    BY <1>6, <2>2, ReaderStep DEF At
  <2> QED
    BY <2>1, <2>3 DEF At
<1>7. CASE c \in Operands
  <2>1. Reader(c, q, n) = At("operand", n)
    BY <1>7 DEF Reader, Rejecting, Operands
  <2>2. t \notin {"(", "IDENT", "INT_CONST", "OPT"}
    BY <1>7 DEF Wants
  <2>3. AfterToken(At("operand", n), t) = At("rejected", 0)
    BY <2>2, ReaderStep DEF At
  <2> QED
    BY <2>1, <2>3 DEF At
<1> QED
  BY <1>1, <1>2, <1>3, <1>4, <1>5, <1>6, <1>7

\* The parentheses that are open among the m lowest states.
OpenedIn(m) == {k \in 1..m : Name(k) = 281}

\* How many of them there are.
Opened(m) == Cardinality(OpenedIn(m))

\* The states of a program outside of its expressions; 311, behind an identifier,
\* is left out.
Outside == {10, 11, 21, 31, 32, 33, 34, 35, 41, 51, 52, 53, 71, 72, 91,
            131, 132, 141, 171, 251, 261, 262, 263}

\* No parenthesis is open below them.
Unnested == \A k \in 1..Len(states) : Name(k) \in Outside => \A j \in 1..k : Name(j) # 281

\* The token that is not shifted is the last one read, and the reader of the
\* others is where the stack says.
Located ==
    /\ lookahead # <<>> /\ lookahead[1] # "$end" =>
          Len(read) > 0 /\ read[Len(read)] = lookahead[1]
    /\ pc = "accept" => lookahead = <<"$end">>
    /\ Unnested
    /\ PlaceAt[Shifted] = Reader(Top, Name(Len(states) - 1), Opened(Len(states)))

\* How many parentheses a stack of m states has.
LEMMA OpenedCounts ==
    ASSUME NEW m \in Nat
    PROVE  /\ IsFiniteSet(OpenedIn(m)) /\ Opened(m) \in Nat
           /\ (\A k \in 1..m : Name(k) # 281) => Opened(m) = 0
           /\ (\E k \in 1..m : Name(k) = 281) => Opened(m) > 0
<1>1. IsFiniteSet(1..m)
  BY FS_Interval
<1>2. OpenedIn(m) \subseteq 1..m
  BY DEF OpenedIn
<1>3. IsFiniteSet(OpenedIn(m)) /\ Opened(m) \in Nat
  BY <1>1, <1>2, FS_Subset, FS_CardinalityType DEF Opened
<1>4. Opened(m) = 0 <=> OpenedIn(m) = {}
  BY <1>3, FS_EmptySet DEF Opened
<1>5. OpenedIn(m) = {} <=> \A k \in 1..m : Name(k) # 281
  BY DEF OpenedIn
<1> QED
  BY <1>3, <1>4, <1>5

\* A push of the state d opens one if d is the state behind a parenthesis.
LEMMA OpenedPush ==
    ASSUME ParserInv, NEW m \in 1..Len(states), NEW d, NEW v, Pushed(m, d, v)
    PROVE  Opened(Len(states))' = IF d = 281 THEN Opened(m) + 1 ELSE Opened(m)
<1>1. m \in Nat /\ Len(states') = m + 1
  BY DEF Pushed, ParserInv, StackShape, Linked
<1>2. (\A k \in 1..m : Name(k)' = Name(k)) /\ Name(m + 1)' = d
  BY DEF Pushed, Name
<1> DEFINE S == {k \in 1..m + 1 : Name(k)' = 281}
<1>3. Opened(Len(states))' = Cardinality(S)
  BY <1>1 DEF Opened, OpenedIn
<1>4. m + 1 \notin OpenedIn(m)
  BY <1>1 DEF OpenedIn
<1>5. CASE d = 281
  <2>1. S = OpenedIn(m) \cup {m + 1}
    BY <1>1, <1>2, <1>5 DEF OpenedIn
  <2> HIDE DEF S
  <2> QED
    BY <1>1, <1>3, <1>4, <1>5, <2>1, OpenedCounts, FS_AddElement DEF Opened
<1>6. CASE d # 281
  <2>1. S = OpenedIn(m)
    BY <1>1, <1>2, <1>6 DEF OpenedIn
  <2> HIDE DEF S
  <2> QED
    BY <1>3, <1>6, <2>1 DEF Opened
<1> QED
  BY <1>5, <1>6

\* No right-hand side is longer than that of FuncDef.
LEMMA ShortRules ==
    ASSUME NEW i, NEW c, Reduces(c, i)
    PROVE  Len(Rules[i].rhs) \in 0..5
<1>1. CASE i = 2
  BY <1>1, LiveRules DEF Sized
<1>2. CASE i = 3
  BY <1>2, LiveRules DEF Sized
<1>3. CASE i = 4
  BY <1>3, LiveRules DEF Sized
<1>4. CASE i = 5
  BY <1>4, LiveRules DEF Sized
<1>5. CASE i = 6
  BY <1>5, LiveRules DEF Sized
<1>6. CASE i = 7
  BY <1>6, LiveRules DEF Sized
<1>7. CASE i = 9
  BY <1>7, LiveRules DEF Sized
<1>8. CASE i = 14
  BY <1>8, LiveRules DEF Sized
<1>9. CASE i = 26
  BY <1>9, LiveRules DEF Sized
<1>10. CASE i = 27
  BY <1>10, LiveRules DEF Sized
<1>11. CASE i = 28
  BY <1>11, LiveRules DEF Sized
<1>12. CASE i = 29
  BY <1>12, LiveRules DEF Sized
<1>13. CASE i = 30
  BY <1>13, LiveRules DEF Sized
<1>14. CASE i = 31
  BY <1>14, LiveRules DEF Sized
<1>15. CASE i = 32
  BY <1>15, LiveRules DEF Sized
<1>16. CASE i = 33
  BY <1>16, LiveRules DEF Sized
<1>17. CASE i = 34
  BY <1>17, LiveRules DEF Sized
<1>18. CASE i = 35
  BY <1>18, LiveRules DEF Sized
<1>19. CASE i = 36
  BY <1>19, LiveRules DEF Sized
<1>20. CASE i = 37
  BY <1>20, LiveRules DEF Sized
<1>21. CASE i = 38
  BY <1>21, LiveRules DEF Sized
<1>22. CASE i = 40
  BY <1>22, LiveRules DEF Sized
<1>23. CASE i = 41
  BY <1>23, LiveRules DEF Sized
<1>24. CASE i = 43
  BY <1>24, LiveRules DEF Sized
<1>25. CASE i = 46
  BY <1>25, LiveRules DEF Sized
<1>26. CASE i = 48
  BY <1>26, LiveRules DEF Sized
<1>27. \/ i = 2
        \/ i = 3
        \/ i = 4
        \/ i = 5
        \/ i = 6
        \/ i = 7
        \/ i = 9
        \/ i = 14
        \/ i = 26
        \/ i = 27
        \/ i = 28
        \/ i = 29
        \/ i = 30
        \/ i = 31
        \/ i = 32
        \/ i = 33
        \/ i = 34
        \/ i = 35
        \/ i = 36
        \/ i = 37
        \/ i = 38
        \/ i = 40
        \/ i = 41
        \/ i = 43
        \/ i = 46
        \/ i = 48
  BY Zenon DEF Reduces, Ends
<1> QED
  BY <1>1, <1>2, <1>3, <1>4, <1>5, <1>6, <1>7, <1>8, <1>9, <1>10, <1>11,
     <1>12, <1>13, <1>14, <1>15, <1>16, <1>17, <1>18, <1>19, <1>20, <1>21,
     <1>22, <1>23, <1>24, <1>25, <1>26, <1>27

\* Only the right-hand side of rule 28 has a parenthesis.
LEMMA OpenedHandle ==
    ASSUME ParserInv, Traced, NEW i, NEW d, Reduced(i, d)
    PROVE  Opened(Len(states) - Len(Rules[i].rhs)) =
             IF i = 28 THEN Opened(Len(states)) - 1 ELSE Opened(Len(states))
<1> DEFINE K == Len(states)
           n == Len(Rules[i].rhs)
           m == K - n
<1>1. /\ n \in 0..K - 1 /\ Reduces(Top, i)
      /\ n > 1 => \A k \in 1..n : Name(m + k) = 10 * i + k
  BY DEF Reduced
<1>2. K \in Nat /\ Top = Name(K)
  BY TopFacts
<1>3. i \in Nat /\ (i = 28 => n = 3)
  <2>1. i \in Nat
    BY <1>1 DEF Reduces, Ends
  <2>2. i = 28 => n = 3
    BY LiveRules DEF Sized
  <2> QED
    BY <2>1, <2>2
<1> HIDE DEF n, K
<1>4. ASSUME NEW j \in m + 1..K, Name(j) = 281 PROVE i = 28 /\ j = m + 1
  <2>1. CASE n = 1
    <3>1. j = K
      BY <1>1, <1>2, <2>1
    <3> QED
      BY <1>1, <1>2, <1>4, <3>1 DEF Reduces, Ends
  <2>2. CASE n > 1
    <3>1. j - m \in 1..n /\ m + (j - m) = j
      BY <1>1, <1>2
    <3>2. Name(j) = 10 * i + (j - m)
      BY <1>1, <2>2, <3>1
    <3>3. j - m \in 1..5
      <4>1. n <= 5
        <5>1. Reduces(Top, i)
          BY <1>1
        <5>2. n \in 0..5
          BY <5>1, ShortRules DEF n
        <5> QED
          BY <5>2
      <4> QED
        BY <1>1, <1>2, <3>1, <4>1
    <3> QED
      BY <1>2, <1>3, <1>4, <3>2, <3>3
  <2>3. CASE n = 0
    BY <1>2, <2>3
  <2> QED
    BY <1>1, <1>2, <2>1, <2>2, <2>3
<1>5. m \in Nat /\ m <= K
  BY <1>1, <1>2
<1> HIDE DEF m
<1>6. CASE i = 28
  <2>1. Name(m + 1) = 281 /\ m + 1 <= K
    <3>1. 1 \in 1..n /\ n > 1 /\ 10 * i + 1 = 281
      BY <1>3, <1>6
    <3> QED
      BY <1>1, <1>2, <1>3, <1>6, <3>1 DEF m
  <2>2. OpenedIn(K) = OpenedIn(m) \cup {m + 1}
    <3>1. ASSUME NEW j \in OpenedIn(K) PROVE j \in OpenedIn(m) \cup {m + 1}
      BY <1>2, <1>4, <1>5, <3>1 DEF OpenedIn
    <3>2. ASSUME NEW j \in OpenedIn(m) \cup {m + 1} PROVE j \in OpenedIn(K)
      BY <1>2, <1>5, <2>1, <3>2 DEF OpenedIn
    <3> QED
      BY <3>1, <3>2
  <2>3. m + 1 \notin OpenedIn(m)
    BY <1>5 DEF OpenedIn
  <2>4. Opened(K) = Opened(m) + 1 /\ Opened(m) \in Nat
    BY <1>5, <2>2, <2>3, OpenedCounts, FS_AddElement DEF Opened
  <2> QED
    BY <1>6, <2>4 DEF K, m, n
<1>7. CASE i # 28
  <2>1. OpenedIn(K) = OpenedIn(m)
    <3>1. ASSUME NEW j \in OpenedIn(K) PROVE j \in OpenedIn(m)
      BY <1>2, <1>4, <1>5, <1>7, <3>1 DEF OpenedIn
    <3>2. ASSUME NEW j \in OpenedIn(m) PROVE j \in OpenedIn(K)
      BY <1>2, <1>5, <3>2 DEF OpenedIn
    <3> QED
      BY <3>1, <3>2
  <2> QED
    BY <1>7, <2>1 DEF Opened, K, m, n
<1> QED
  BY <1>6, <1>7

\* A push keeps the states outside of expressions unnested.
LEMMA UnnestedPush ==
    ASSUME ParserInv, Unnested, NEW m \in 1..Len(states), NEW d, NEW v, Pushed(m, d, v), Over(Name(m), d)
    PROVE  Unnested'
<1>1. m \in Nat /\ Len(states') = m + 1 /\ Len(states) \in Nat
  BY DEF Pushed, ParserInv, StackShape, Linked
<1>2. (\A k \in 1..m : Name(k)' = Name(k)) /\ Name(m + 1)' = d
  BY DEF Pushed, Name
<1>3. d \in Outside => Name(m) \in Outside /\ d # 281
  <2> DEFINE p == Name(m)
  <2>1. Over(p, d)
    OBVIOUS
  <2> HIDE DEF p
  <2>2. d \in Outside => p \in Outside /\ d # 281
    BY <2>1, SMTT(60) DEF Outside, Over, Operands
  <2> QED
    BY <2>2 DEF p
<1>4. \A k \in 1..m : Name(k) \in Outside => \A j \in 1..k : Name(j) # 281
  BY <1>1 DEF Unnested
<1> SUFFICES ASSUME NEW k \in 1..m + 1, Name(k)' \in Outside, NEW j \in 1..k
             PROVE  Name(j)' # 281
  BY <1>1 DEF Unnested
<1>5. CASE k = m + 1
  <2>1. Name(m) \in Outside /\ m \in 1..m /\ d # 281
    BY <1>1, <1>2, <1>3, <1>5
  <2>2. \A l \in 1..m : Name(l)' # 281
    BY <1>2, <1>4, <2>1
  <2> QED
    BY <1>1, <1>2, <1>5, <2>1, <2>2
<1>6. CASE k # m + 1
  <2>1. k \in 1..m /\ j \in 1..m
    BY <1>1, <1>6
  <2> QED
    BY <1>2, <1>4, <2>1
<1> QED
  BY <1>5, <1>6

\* What is known of PlaceAt from its recursion.
PlaceFacts ==
    /\ PlaceAt \in [0..Len(read) -> Place0]
    /\ PlaceAt[0] = At("header", 0)
    /\ \A n \in 1..Len(read) : PlaceAt[n] = AfterToken(PlaceAt[n-1], read[n])

\* PlaceAt is defined as it should be, in a state and in the next one.
LEMMA PlaceFactsHold == ParserInv => PlaceFacts
<1> SUFFICES ASSUME ParserInv PROVE PlaceFacts
  OBVIOUS
<1> QED
  BY PlaceAtIs DEF PlaceFacts

\* The same after a step.
LEMMA PlaceFactsNext == ParserInv' => PlaceFacts'
BY PlaceFactsHold, PTL

\* f tells where a reader of the first n tokens of r is.
IsReading(f, r, n) ==
    f[0] = At("header", 0) /\ \A k \in 1..n : f[k] = AfterToken(f[k-1], r[k])

\* There is only one such function.
LEMMA ReadersAgree ==
    ASSUME NEW n \in Nat, NEW f, NEW g, NEW r, IsReading(f, r, n), IsReading(g, r, n)
    PROVE  \A k \in 0..n : f[k] = g[k]
<1>1. f[0] = g[0] /\ \A k \in 1..n : f[k-1] = g[k-1] => f[k] = g[k]
  BY DEF IsReading
<1> QED
  BY <1>1, ScansAgree

\* Tokens that are read later do not move the reader of those before.
LEMMA PlacesStay ==
    ASSUME ParserInv, ParserInv', Len(read') >= Len(read),
           \A n \in 1..Len(read) : read'[n] = read[n]
    PROVE  \A n \in 0..Len(read) : PlaceAt'[n] = PlaceAt[n]
<1>1. Len(read) \in Nat /\ \A k \in 1..Len(read) : k \in 1..Len(read')
  BY DEF ParserInv, ParserTypeOK
<1>2. IsReading(PlaceAt, read', Len(read))
  BY PlaceFactsHold DEF PlaceFacts, IsReading
<1>3. IsReading(PlaceAt', read', Len(read))
  BY <1>1, PlaceFactsNext DEF PlaceFacts, IsReading
<1> QED
  BY <1>1, <1>2, <1>3, ReadersAgree

\* How many tokens are shifted.
ShiftedCount ==
    /\ Len(read) \in Nat
    /\ lookahead = <<>> => Shifted = Len(read)
    /\ lookahead # <<>> /\ lookahead[1] = "$end" => Shifted = Len(read)
    /\ lookahead # <<>> /\ lookahead[1] # "$end" =>
          lookahead[1] \in Classes /\ Shifted = Len(read) - 1

\* The number of shifted tokens is a position in what was read.
LEMMA ShiftedCounts == ParserInv => ShiftedCount
<1> SUFFICES ASSUME ParserInv PROVE ShiftedCount
  OBVIOUS
<1>1. /\ Len(read) \in Nat /\ lookahead \in {<<>>, <<"$end">>} \cup {<<c>> : c \in Classes}
  BY DEF ParserInv, ParserTypeOK
<1>2. CASE lookahead = <<>>
  BY <1>1, <1>2 DEF ShiftedCount, Shifted
<1>3. CASE lookahead = <<"$end">>
  BY <1>1, <1>3 DEF ShiftedCount, Shifted
<1>4. CASE lookahead \in {<<c>> : c \in Classes}
  <2>1. PICK c \in Classes : lookahead = <<c>>
    BY <1>4
  <2>2. c # "$end"
    BY NoStrClass
  <2>3. lookahead # <<>> /\ lookahead # <<"$end">> /\ lookahead[1] = c
    BY <2>1, <2>2
  <2> QED
    BY <1>1, <2>2, <2>3 DEF ShiftedCount, Shifted
<1> QED
  BY <1>1, <1>2, <1>3, <1>4

\* The same after a step.
LEMMA ShiftedCountsNext == ParserInv' => ShiftedCount'
BY ShiftedCounts, PTL

\* What the stack says of open parentheses where the reader must know.
LEMMA OpenedAtTop ==
    ASSUME ParserInv, Traced, Unnested
    PROVE  /\ Opened(Len(states)) \in Nat
           /\ Top \in Outside => Opened(Len(states)) = 0
           /\ Top = 282 => Opened(Len(states)) > 0
<1> DEFINE K == Len(states)
<1>1. K \in Nat /\ K >= 1 /\ Top = Name(K) /\ Top \in Alive
  BY TopFacts
<1>2. Opened(K) \in Nat
  BY <1>1, OpenedCounts
<1>3. ASSUME Top \in Outside PROVE Opened(K) = 0
  <2>1. \A j \in 1..K : Name(j) # 281
    BY <1>1, <1>3 DEF Unnested
  <2> QED
    BY <1>1, <2>1, OpenedCounts
<1>4. ASSUME Top = 282 PROVE Opened(K) > 0
  <2>1. K # 1
    <3> SUFFICES ASSUME K = 1 PROVE FALSE
      OBVIOUS
    <3>1. Name(K) = Name(1)
      OBVIOUS
    <3>2. Name(1) = 10
      BY DEF Traced
    <3> HIDE DEF K
    <3> QED
      BY <1>1, <1>4, <3>1, <3>2
  <2>2. K - 1 \in 1..K - 1 /\ (K - 1) + 1 = K /\ K - 1 \in 1..K
    <3>1. K \in Nat /\ K >= 1
      BY <1>1
    <3> HIDE DEF K
    <3> QED
      BY <2>1, <3>1
  <2>3. Over(Name(K - 1), Name((K - 1) + 1))
    BY <2>2 DEF Traced
  <2>4. Over(Name(K - 1), 282)
    BY <1>1, <1>4, <2>2, <2>3
  <2>5. Name(K - 1) = 281
    BY <2>4 DEF Over, Operands
  <2> QED
    BY <1>1, <2>2, <2>5, OpenedCounts
<1> QED
  BY <1>2, <1>3, <1>4

\* Reading a token does not move the stack, nor the reader behind the shifted ones.
LEMMA LocatedLex == ParserInv /\ ParserInv' /\ Located /\ Lex => Located'
<1> SUFFICES ASSUME ParserInv, ParserInv', Located, Lex PROVE Located'
  OBVIOUS
<1>1. lookahead = <<>> /\ states' = states /\ pc' = pc /\ pc = "parse"
  BY DEF Lex
<1>2. ShiftedCount /\ ShiftedCount'
  BY ShiftedCounts, ShiftedCountsNext
<1>3. Unnested' /\ (Reader(Top, Name(Len(states) - 1), Opened(Len(states))))' =
                     Reader(Top, Name(Len(states) - 1), Opened(Len(states)))
  BY <1>1 DEF Located, Unnested, Top, Name, Opened, OpenedIn
<1>4. PlaceAt[Len(read)] = Reader(Top, Name(Len(states) - 1), Opened(Len(states)))
  BY <1>1, <1>2 DEF Located, ShiftedCount
<1>5. ASSUME NEW c \in Classes, read' = Append(read, c), lookahead' = <<c>> PROVE Located'
  <2>1. c # "$end"
    BY NoStrClass
  <2>2. read \in Seq(Classes)
    BY DEF ParserInv, ParserTypeOK
  <2>3. /\ Len(read') = Len(read) + 1 /\ read'[Len(read')] = c
        /\ \A n \in 1..Len(read) : read'[n] = read[n]
    BY <1>5, <2>2
  <2>4. lookahead' # <<>> /\ lookahead'[1] = c
    BY <1>5
  <2>5. Shifted' = Len(read)
    BY <1>2, <2>1, <2>3, <2>4 DEF ShiftedCount
  <2>6. PlaceAt'[Len(read)] = PlaceAt[Len(read)]
    BY <1>2, <2>3, PlacesStay DEF ShiftedCount
  <2>7. PlaceAt'[Shifted'] = PlaceAt[Len(read)]
    BY <2>5, <2>6
  <2> QED
    BY <1>1, <1>2, <1>3, <1>4, <2>3, <2>4, <2>7 DEF Located, ShiftedCount
<1>6. ASSUME read' = read, lookahead' = <<"$end">> PROVE Located'
  <2>1. PlaceAt'[Len(read)] = PlaceAt[Len(read)]
    BY <1>2, <1>6, PlacesStay DEF ShiftedCount
  <2>2. lookahead' # <<>> /\ lookahead'[1] = "$end"
    BY <1>6
  <2>3. Shifted' = Len(read)
    BY <1>2, <1>6, <2>2 DEF ShiftedCount
  <2> QED
    BY <1>1, <1>3, <1>4, <2>1, <2>2, <2>3 DEF Located
<1> QED
  BY <1>5, <1>6 DEF Lex

\* A shifted token moves the reader to the place of the state that is entered.
LEMMA LocatedShift == ParserInv /\ ParserInv' /\ Traced /\ Located /\ Shift => Located'
<1> SUFFICES ASSUME ParserInv, ParserInv', Traced, Located, Shift PROVE Located'
  OBVIOUS
<1> DEFINE t == lookahead[1]
           K == Len(states)
           q == Name(K - 1)
           n == Opened(K)
<1>1. PICK d : Move(Top, t, d) /\ Pushed(K, d, Token(t))
  BY ShiftStep
<1>2. /\ lookahead # <<>> /\ t \in Classes /\ lookahead' = <<>> /\ read' = read /\ Wants(Top, t)
  BY ShiftStep
<1>3. t # "$end"
  BY <1>2, NoStrClass
<1>4. ShiftedCount /\ ShiftedCount'
  BY ShiftedCounts, ShiftedCountsNext
<1>5. Shifted = Len(read) - 1 /\ Shifted' = Len(read) /\ Len(read) > 0 /\ read[Len(read)] = t
  BY <1>2, <1>3, <1>4 DEF ShiftedCount, Located
<1>6. PlaceAt'[Len(read)] = AfterToken(PlaceAt[Len(read) - 1], t)
  <2>1. PlaceAt'[Len(read)] = PlaceAt[Len(read)]
    BY <1>2, <1>4, PlacesStay DEF ShiftedCount
  <2>2. Len(read) \in 1..Len(read)
    BY <1>4, <1>5 DEF ShiftedCount
  <2>3. PlaceAt[Len(read)] = AfterToken(PlaceAt[Len(read) - 1], read[Len(read)])
    BY <2>2, PlaceFactsHold DEF PlaceFacts
  <2> QED
    BY <1>5, <2>1, <2>3
<1>7. n \in Nat /\ (Top \in Outside => n = 0) /\ (Top = 282 => n > 0)
  BY OpenedAtTop DEF Located
<1>8. K \in 1..K /\ Top = Name(K) /\ Top \in Alive /\ K \in Nat
  BY TopFacts
<1>9. Opened(Len(states))' = IF d = 281 THEN n + 1 ELSE n
  BY <1>1, <1>8, OpenedPush
<1>10. Top' = d /\ Name(Len(states) - 1)' = Top
  <2>1. Top' = d /\ Len(states') = K + 1 /\ \A k \in 1..K : Name(k)' = Name(k)
    BY <1>1 DEF Pushed
  <2>2. (Name(Len(states) - 1))' = (NameOf(states'[Len(states') - 1]))
    BY DEF Name
  <2>3. Len(states') - 1 = K
    BY <1>8, <2>1
  <2>4. \A k : Name(k)' = NameOf(states'[k])
    BY DEF Name
  <2>5. NameOf(states'[Len(states') - 1]) = Name(K)
    BY <1>8, <2>1, <2>3, <2>4
  <2> QED
    BY <1>8, <2>1, <2>2, <2>5
<1> HIDE DEF n, K, q, t
<1>11. AfterToken(Reader(Top, q, n), t) = Reader(d, Top, IF d = 281 THEN n + 1 ELSE n)
  <2>1. Top \in {51, 71, 262} => n = 0
    BY <1>7 DEF Outside
  <2> QED
    BY <1>1, <1>2, <1>7, <2>1, ReaderShift
<1>12. PlaceAt[Len(read) - 1] = Reader(Top, q, n)
  BY <1>5 DEF Located, q, n, K
<1>13. PlaceAt'[Shifted'] = Reader(Top', Name(Len(states) - 1)', Opened(Len(states))')
  BY <1>5, <1>6, <1>9, <1>10, <1>11, <1>12
<1>14. Unnested'
  BY <1>1, <1>8, MoveOver, UnnestedPush DEF Located, K
<1>15. pc' # "accept"
  BY <1>1 DEF Pushed
<1> QED
  BY <1>2, <1>13, <1>14, <1>15 DEF Located

\* A reduction does not lead to the state behind a parenthesis.
LEMMA NotOpening == ASSUME NEW i, NEW p, NEW d, Reduction(i, p, d) PROVE d # 281
BY DEF Reduction, Operands

\* A reduction leads to a state of the same place.
LEMMA LocatedReduce == ParserInv /\ ParserInv' /\ Traced /\ Located /\ Reduce => Located'
<1> SUFFICES ASSUME ParserInv, ParserInv', Traced, Located, Reduce PROVE Located'
  OBVIOUS
<1>1. lookahead' = lookahead /\ read' = read /\ lookahead # <<>>
  BY ReduceStep
<1>2. PICK i, d : Reduced(i, d)
  BY ReduceStep
<1> DEFINE K == Len(states)
           m == K - Len(Rules[i].rhs)
           v == Build(Rules[i], SubSeq(values, m, Len(values)))
           p == Name(m)
           q == Name(K - 1)
           n == Opened(K)
<1>3. /\ Reduces(Top, i) /\ Reduction(i, p, d) /\ Move(p, Rules[i].lhs, d) /\ Pushed(m, d, v)
      /\ Len(Rules[i].rhs) \in 0..K - 1
  BY <1>2 DEF Reduced
<1>4. K \in Nat /\ m \in 1..K /\ Top \in Alive
  BY <1>3, TopFacts
<1>5. n \in Nat /\ Opened(m) = IF i = 28 THEN n - 1 ELSE n
  BY <1>2, OpenedAtTop, OpenedHandle DEF Located
<1>6. d # 281
  BY <1>3, NotOpening
<1>7. Opened(Len(states))' = Opened(m)
  <2> HIDE DEF v, m
  <2> QED
    BY <1>3, <1>4, <1>6, OpenedPush
<1>8. Top = 311 => q = p
  <2> SUFFICES ASSUME Top = 311 PROVE K - 1 = m
    OBVIOUS
  <2>1. i = 31
    BY <1>3 DEF Reduces, Ends
  <2> QED
    BY <2>1, LiveRules DEF Sized
<1>9. Top' = d /\ Name(Len(states) - 1)' = p
  <2>1. Top' = d /\ Len(states') = m + 1 /\ \A k \in 1..m : Name(k)' = Name(k)
    BY <1>3 DEF Pushed
  <2>2. (Name(Len(states) - 1))' = (NameOf(states'[Len(states') - 1]))
    BY DEF Name
  <2>3. Len(states') - 1 = m
    BY <1>4, <2>1
  <2>4. \A k : Name(k)' = NameOf(states'[k])
    BY DEF Name
  <2>5. m \in 1..m
    BY <1>4
  <2> HIDE DEF m
  <2> QED
    BY <2>1, <2>2, <2>3, <2>4, <2>5
<1>10. Unnested'
  <2>1. Over(p, d)
    BY <1>3, MoveOver
  <2> HIDE DEF v, m
  <2> QED
    BY <1>3, <1>4, <2>1, UnnestedPush DEF Located
<1>11. Shifted' = Shifted /\ Shifted \in 0..Len(read)
  <2>1. Shifted' = Shifted
    BY <1>1 DEF Shifted
  <2>2. ShiftedCount
    BY ShiftedCounts
  <2> QED
    BY <2>1, <2>2 DEF Located, ShiftedCount
<1>12. PlaceAt'[Shifted'] = PlaceAt[Shifted]
  BY <1>1, <1>11, PlacesStay, ShiftedCounts DEF ShiftedCount
<1>13. PlaceAt[Shifted] = Reader(Top, q, n)
  BY DEF Located
<1>14. pc' # "accept"
  BY <1>3 DEF Pushed
<1> HIDE DEF n, m, p, q, K, v
<1>15. Reader(Top, q, n) = Reader(d, p, IF i = 28 THEN n - 1 ELSE n)
  BY <1>3, <1>5, <1>8, ReaderReduce
<1>16. PlaceAt'[Shifted'] = Reader(Top', Name(Len(states) - 1)', Opened(Len(states))')
  BY <1>5, <1>7, <1>9, <1>12, <1>13, <1>15
<1> QED
  BY <1>1, <1>10, <1>14, <1>16 DEF Located

\* Every step keeps the reader and the stack together.
LEMMA LocatedNext ==
    ParserInv /\ ParserInv' /\ Traced /\ Located /\ [Next \/ Returned]_vars => Located'
<1> SUFFICES ASSUME ParserInv, ParserInv', Traced, Located, [Next \/ Returned]_vars PROVE Located'
  OBVIOUS
<1>1. CASE Lex
  BY <1>1, LocatedLex
<1>2. CASE Shift
  BY <1>2, LocatedShift
<1>3. CASE Reduce
  BY <1>3, LocatedReduce
<1>4. CASE Error \/ Accept \/ UNCHANGED vars
  <2>1. /\ states' = states /\ lookahead' = lookahead /\ read' = read
    BY <1>4 DEF Error, Accept, vars
  <2>2. Unnested' /\ (Reader(Top, Name(Len(states) - 1), Opened(Len(states))))' =
                       Reader(Top, Name(Len(states) - 1), Opened(Len(states)))
    BY <2>1 DEF Located, Unnested, Top, Name, Opened, OpenedIn
  <2>3. Shifted' = Shifted /\ PlaceAt' = PlaceAt
    BY <2>1 DEF Shifted, PlaceAt
  <2>4. pc' = "accept" => lookahead' = <<"$end">>
    <3>1. CASE Accept
      <4>1. lookahead # <<>> /\ lookahead[1] = "$end"
        BY <3>1 DEF Accept, Deciding
      <4>2. lookahead \in {<<"$end">>} \cup {<<c>> : c \in Classes}
        BY <4>1 DEF ParserInv, ParserTypeOK
      <4>3. ASSUME NEW c \in Classes, lookahead = <<c>> PROVE FALSE
        BY <4>1, <4>3, NoStrClass
      <4> QED
        BY <2>1, <4>2, <4>3
    <3>2. CASE Error \/ UNCHANGED vars
      BY <2>1, <3>2 DEF Error, vars, Located
    <3> QED
      BY <1>4, <3>1, <3>2
  <2> QED
    BY <2>1, <2>2, <2>3, <2>4 DEF Located
<1> QED
  BY <1>1, <1>2, <1>3, <1>4 DEF Next, Returned

\* The parser begins where a reader begins.
LEMMA LocatedInitially == Init => Located
<1> SUFFICES ASSUME Init PROVE Located
  OBVIOUS
<1>1. read = <<>> /\ lookahead = <<>> /\ states = <<StartState>> /\ pc = "parse"
  BY DEF Init
<1>2. Len(read) = 0 /\ Len(states) = 1 /\ Shifted = 0
  BY <1>1 DEF Shifted
<1>3. Traced /\ ParserInv
  BY TracedInitially, ParserInitial
<1>4. Name(1) = 10 /\ Top = 10
  BY <1>2, <1>3 DEF Traced, Top
<1>5. PlaceAt[0] = At("header", 0)
  BY <1>3, PlaceFactsHold DEF PlaceFacts
<1>6. Reader(Top, Name(Len(states) - 1), Opened(Len(states))) = At("header", 0)
  BY <1>4 DEF Reader, Operands, Rejecting
<1>7. Unnested
  <2> SUFFICES ASSUME NEW k \in 1..1, NEW j \in 1..k PROVE Name(j) # 281
    BY <1>2 DEF Unnested
  <2>1. j = 1
    OBVIOUS
  <2> QED
    BY <1>4, <2>1
<1> QED
  BY <1>1, <1>2, <1>5, <1>6, <1>7 DEF Located

\* A reader who knows the language of the parser is always where the stack of
\* states says, and counts as many open parentheses.
THEOREM ParserLocates == Spec => []Located
<1>1. Init => Located
  BY LocatedInitially
<1>2. ParserInv /\ ParserInv' /\ Traced /\ Located /\ [Next \/ Returned]_vars => Located'
  BY LocatedNext
<1> QED
  BY <1>1, <1>2, ParserInvariant, ParserTraced, PTL DEF Spec

\* Where no rule is left, the reader has rejected the token ahead.
LEMMA ExactlyError == ParserInv /\ Traced /\ Located /\ Error => AcceptedExactly'
<1> SUFFICES ASSUME ParserInv, Traced, Located, Error PROVE AcceptedExactly'
  OBVIOUS
<1> DEFINE t == lookahead[1]
           q == Name(Len(states) - 1)
           n == Opened(Len(states))
           L == Len(read)
<1>1. /\ lookahead # <<>> /\ t \notin Shiftable /\ Complete(Last(states)) = {} /\ pc' = "error"
      /\ UNCHANGED <<read, lookahead, states>>
  BY DEF Error, Deciding
<1>2. Top \in Alive /\ Last(states) = Kernel(Top) /\ ~Wants(Top, t)
  BY <1>1, TopFacts
<1>3. \A i : ~Ends(Top, i)
  BY <1>1, <1>2, StateFacts
<1>4. n \in Nat /\ (Top \in Outside => n = 0) /\ (Top = 282 => n > 0)
  BY OpenedAtTop DEF Located
<1>5. /\ Top \in {262, 282} => t # "OPT"
      /\ Top = 52 => t # "RETURN"
  BY DEF Traced, Facing
<1>6. PlaceAt[Shifted] = Reader(Top, q, n)
  BY DEF Located
<1> HIDE DEF t, q, n
<1>7. /\ AfterToken(Reader(Top, q, n), t) = At("rejected", 0)
      /\ t = "$end" => Reader(Top, q, n).place # "end"
  <2>1. /\ Top = 262 => n = 0 /\ t # "OPT"
        /\ Top = 282 => n > 0 /\ t # "OPT"
        /\ Top = 52 => t # "RETURN"
    BY <1>4, <1>5 DEF Outside
  <2> QED
    BY <1>2, <1>3, <1>4, <2>1, ReaderStuck
<1>8. Place' = Place /\ lookahead' = lookahead
  BY <1>1 DEF Place, PlaceAt
<1>9. ShiftedCount
  BY ShiftedCounts
<1>10. CASE t = "$end"
  <2>1. Shifted = L
    BY <1>1, <1>9, <1>10 DEF ShiftedCount, t
  <2>2. Place # "end"
    BY <1>6, <1>7, <1>10, <2>1 DEF Place
  <2>3. lookahead = <<"$end">>
    <3>1. lookahead \in {<<"$end">>} \cup {<<c>> : c \in Classes}
      BY <1>1 DEF ParserInv, ParserTypeOK
    <3>2. ASSUME NEW c \in Classes, lookahead = <<c>> PROVE FALSE
      BY <1>10, <3>2, NoStrClass DEF t
    <3> QED
      BY <3>1, <3>2
  <2> QED
    BY <1>1, <1>8, <2>2, <2>3 DEF AcceptedExactly
<1>11. CASE t # "$end"
  <2>1. Shifted = L - 1 /\ L > 0 /\ L \in Nat /\ read[L] = t
    BY <1>1, <1>9, <1>11 DEF ShiftedCount, Located, t
  <2>2. L \in 1..L
    BY <2>1
  <2>3. PlaceAt[L] = AfterToken(PlaceAt[L - 1], read[L])
    BY <2>2, PlaceFactsHold DEF PlaceFacts
  <2>4. PlaceAt[L] = At("rejected", 0)
    BY <1>6, <1>7, <2>1, <2>3
  <2>5. Place = "rejected"
    BY <2>4 DEF Place, At
  <2> QED
    BY <1>1, <1>8, <2>5 DEF AcceptedExactly
<1> QED
  BY <1>10, <1>11

\* Where the program is accepted, the reader is at its end.
LEMMA ExactlyAccept == ParserInv /\ Traced /\ Located /\ Accept => AcceptedExactly'
<1> SUFFICES ASSUME ParserInv, Traced, Located, Accept PROVE AcceptedExactly'
  OBVIOUS
<1>1. /\ lookahead # <<>> /\ lookahead[1] = "$end" /\ "$end" \in Shiftable /\ pc' = "accept"
      /\ UNCHANGED <<read, lookahead, states>>
  BY DEF Accept, Deciding
<1>2. Wants(Top, "$end")
  BY <1>1, TopFacts
<1>3. Top = 11
  BY <1>2, PunctuationDiffers DEF Wants
<1>4. PlaceAt[Shifted] = At("end", 0)
  BY <1>3 DEF Located, Reader, Operands, Rejecting
<1>5. Shifted = Len(read)
  BY <1>1, ShiftedCounts DEF ShiftedCount
<1>6. Place = "end"
  BY <1>4, <1>5 DEF Place, At
<1>7. Place' = Place
  BY <1>1 DEF Place, PlaceAt
<1> QED
  BY <1>1, <1>6, <1>7 DEF AcceptedExactly

\* The parser accepts exactly the functions of return statements: no other
\* program is accepted, and none of them is refused.
THEOREM ParserAcceptsExactly == Spec => []AcceptedExactly
<1>1. Init => AcceptedExactly
  BY DEF Init, AcceptedExactly
<1>2. ParserInv /\ Traced /\ Located /\ AcceptedExactly /\ [Next \/ Returned]_vars => AcceptedExactly'
  <2> SUFFICES ASSUME ParserInv, Traced, Located, AcceptedExactly, [Next \/ Returned]_vars
               PROVE  AcceptedExactly'
    OBVIOUS
  <2>1. CASE Lex
    BY <2>1 DEF Lex, AcceptedExactly
  <2>2. CASE Shift
    <3>1. pc' \in {"parse", "exhausted"}
      BY <2>2, ShiftStep DEF Pushed
    <3> QED
      BY <3>1 DEF AcceptedExactly
  <2>3. CASE Reduce
    <3>1. PICK i, d : Reduced(i, d)
      BY <2>3, ReduceStep
    <3>2. pc' \in {"parse", "exhausted"}
      BY <3>1 DEF Reduced, Pushed
    <3> QED
      BY <3>2 DEF AcceptedExactly
  <2>4. CASE Error
    BY <2>4, ExactlyError
  <2>5. CASE Accept
    BY <2>5, ExactlyAccept
  <2>6. CASE UNCHANGED vars
    BY <2>6 DEF vars, AcceptedExactly, Place, PlaceAt
  <2> QED
    BY <2>1, <2>2, <2>3, <2>4, <2>5, <2>6 DEF Next, Returned
<1> QED
  BY <1>1, <1>2, ParserInvariant, ParserTraced, ParserLocates, PTL DEF Spec

-----------------------------------------------------------------------------
(***************************************************************************)
(* Return statements.                                                      *)
(***************************************************************************)
\* The objects that stand for a part of the program with a return in it.
Returning(h, n) ==
    LET Kid1(k) == h[k].kids[1]
        Kid2(k) == h[k].kids[2]
        Filled(k) == h[k].sub = "Recv"
    IN  \/ h[n].tid = "TOKEN" /\ h[n].sub = "RETURN"
        \/ h[n].tid \in {"STMT", "BLOCK_ITEM"}
        \/ h[n].tid = "BLOCK_ITEMS" /\ Filled(n)
        \/ h[n].tid = "BLOCK" /\ Filled(Kid1(n))
        \/ h[n].tid = "FUNC_DEF" /\ Filled(Kid1(Kid2(n)))
        \/ h[n].tid = "COMP_UNIT" /\ Filled(Kid1(Kid2(Kid1(n))))

\* There is one on the stack if a return has been read.
ReturnsKept ==
    (\E k \in 1..Len(values) : Returning(nodes, values[k])) <=> \E j \in 1..Shifted : read[j] = "RETURN"

\* Only above these states.
LEMMA ReturningStates ==
    ASSUME NEW c, NEW n, Fits(c, nodes[n]), c \notin {261, 71, 91, 52, 72, 35, 21, 11}
    PROVE  ~Returning(nodes, n)
<1>1. nodes[n].tid = "TOKEN" => nodes[n].sub # "RETURN"
  <2> SUFFICES ASSUME nodes[n].tid = "TOKEN", nodes[n].sub = "RETURN" PROVE FALSE
    OBVIOUS
  <2>1. OpenBlock # "RETURN" /\ CloseBlock # "RETURN" /\ Semicolon # "RETURN"
    BY Zenon DEF OpenBlock, CloseBlock, Semicolon
  <2>2. HoldsToken(c, "RETURN")
    BY DEF Fits
  <2> QED
    BY <2>1, <2>2 DEF HoldsToken
<1>2. nodes[n].tid \notin {"STMT", "BLOCK_ITEM", "BLOCK_ITEMS", "BLOCK", "FUNC_DEF", "COMP_UNIT"}
  BY DEF Fits, HoldsNode
<1> QED
  BY <1>1, <1>2 DEF Returning

\* The sub-trees of a node are in the heap.
LEMMA KidsInHeap ==
    ASSUME Planted, NEW n \in 1..Len(nodes), NEW k \in 1..Len(nodes[n].kids)
    PROVE  nodes[n].kids[k] \in 1..Len(nodes)
<1> DEFINE ks == nodes[n].kids
           S == 1..n-1
<1>1. ks \in Seq(S) /\ Len(nodes) \in Nat
  BY DEF Planted
<1>2. \A j \in S : j \in 1..Len(nodes)
  BY <1>1
<1> HIDE DEF S
<1>3. k \in 1..Len(ks)
  OBVIOUS
<1> HIDE DEF ks
<1>4. ks[k] \in S
  BY <1>1, <1>3
<1> QED
  BY <1>2, <1>4 DEF ks

\* The list of a block, of a function and of a program.
LEMMA ListsInHeap ==
    ASSUME Planted, NEW n \in 1..Len(nodes)
    PROVE  /\ nodes[n].tid = "BLOCK" => nodes[n].kids[1] \in 1..Len(nodes)
           /\ nodes[n].tid = "FUNC_DEF" =>
                 nodes[n].kids[2] \in 1..Len(nodes) /\ nodes[nodes[n].kids[2]].tid = "BLOCK"
           /\ nodes[n].tid = "COMP_UNIT" =>
                 nodes[n].kids[1] \in 1..Len(nodes) /\ nodes[nodes[n].kids[1]].tid = "FUNC_DEF"
<1>1. ShapedNode(nodes, nodes[n])
  BY DEF Planted
<1> DEFINE L == Len(nodes[n].kids)
<1>2. \A k \in 1..L : nodes[n].kids[k] \in 1..Len(nodes)
  BY KidsInHeap
<1>3. /\ nodes[n].tid = "BLOCK" => L = 1
      /\ nodes[n].tid = "FUNC_DEF" => L = 2 /\ nodes[nodes[n].kids[2]].tid = "BLOCK"
      /\ nodes[n].tid = "COMP_UNIT" => L = 1 /\ nodes[nodes[n].kids[1]].tid = "FUNC_DEF"
  BY <1>1 DEF ShapedNode
<1> HIDE DEF L
<1>4. L = 1 => 1 \in 1..L
  OBVIOUS
<1>5. L = 2 => 2 \in 1..L
  OBVIOUS
<1> QED
  BY <1>2, <1>3, <1>4, <1>5

\* Whether an object returns does not change when the heap grows.
LEMMA ReturningKept ==
    ASSUME Planted, NEW v, nodes' = Append(nodes, v), NEW n \in 1..Len(nodes)
    PROVE  Returning(nodes', n) <=> Returning(nodes, n)
<1>1. \A k \in 1..Len(nodes) : nodes'[k] = nodes[k]
  BY HeapGrows
<1>2. CASE nodes[n].tid = "BLOCK"
  <2>1. nodes[n].kids[1] \in 1..Len(nodes)
    BY <1>2, ListsInHeap
  <2> QED
    BY <1>1, <1>2, <2>1 DEF Returning
<1>3. CASE nodes[n].tid = "FUNC_DEF"
  <2> DEFINE b == nodes[n].kids[2]
  <2>1. b \in 1..Len(nodes) /\ nodes[b].tid = "BLOCK"
    BY <1>3, ListsInHeap
  <2>2. nodes[b].kids[1] \in 1..Len(nodes)
    BY <2>1, ListsInHeap
  <2> QED
    BY <1>1, <1>3, <2>1, <2>2 DEF Returning
<1>4. CASE nodes[n].tid = "COMP_UNIT"
  <2> DEFINE f == nodes[n].kids[1]
             b == nodes[f].kids[2]
  <2>1. f \in 1..Len(nodes) /\ nodes[f].tid = "FUNC_DEF"
    BY <1>4, ListsInHeap
  <2>2. b \in 1..Len(nodes) /\ nodes[b].tid = "BLOCK"
    BY <2>1, ListsInHeap
  <2>3. nodes[b].kids[1] \in 1..Len(nodes)
    BY <2>2, ListsInHeap
  <2> QED
    BY <1>1, <1>4, <2>1, <2>2, <2>3 DEF Returning
<1>5. CASE nodes[n].tid \notin {"BLOCK", "FUNC_DEF", "COMP_UNIT"}
  BY <1>1, <1>5 DEF Returning
<1> QED
  BY <1>2, <1>3, <1>4, <1>5

\* The states where they are complete.
LEMMA PlainTop ==
    ASSUME NEW c, NEW i, Reduces(c, i), i \notin {2, 3, 5, 6, 7, 9, 26}
    PROVE  c \notin {261, 71, 91, 52, 72, 35, 21, 11}
BY SMTT(60) DEF Reduces, Ends, Chains, Operands

\* The rules with more than one symbol that are not about statements.
LEMMA LiveLong ==
    ASSUME NEW i, NEW c, Reduces(c, i), i \notin {2, 3, 5, 6, 7, 9, 26}, Len(Rules[i].rhs) > 1
    PROVE  i \in {28, 34, 37}
<1>1. CASE i = 4
  BY <1>1, LiveRules DEF Sized
<1>2. CASE i = 14
  BY <1>2, LiveRules DEF Sized
<1>3. CASE i = 27
  BY <1>3, LiveRules DEF Sized
<1>4. CASE i = 29
  BY <1>4, LiveRules DEF Sized
<1>5. CASE i = 30
  BY <1>5, LiveRules DEF Sized
<1>6. CASE i = 31
  BY <1>6, LiveRules DEF Sized
<1>7. CASE i = 32
  BY <1>7, LiveRules DEF Sized
<1>8. CASE i = 33
  BY <1>8, LiveRules DEF Sized
<1>9. CASE i = 35
  BY <1>9, LiveRules DEF Sized
<1>10. CASE i = 36
  BY <1>10, LiveRules DEF Sized
<1>11. CASE i = 38
  BY <1>11, LiveRules DEF Sized
<1>12. CASE i = 40
  BY <1>12, LiveRules DEF Sized
<1>13. CASE i = 41
  BY <1>13, LiveRules DEF Sized
<1>14. CASE i = 43
  BY <1>14, LiveRules DEF Sized
<1>15. CASE i = 46
  BY <1>15, LiveRules DEF Sized
<1>16. CASE i = 48
  BY <1>16, LiveRules DEF Sized
<1>20. i \in {28, 34, 37} \/ i = 4 \/ i = 14 \/ i = 27 \/ i = 29 \/ i = 30 \/ i = 31 \/ i = 32 \/ i = 33 \/ i = 35 \/ i = 36 \/ i = 38 \/ i = 40 \/ i = 41 \/ i = 43 \/ i = 46 \/ i = 48
  BY Zenon DEF Reduces, Ends
<1> QED
  BY <1>20, <1>1, <1>2, <1>3, <1>4, <1>5, <1>6, <1>7, <1>8, <1>9, <1>10, <1>11, <1>12, <1>13, <1>14, <1>15, <1>16

\* Of the values, those below the new one stay.
LEMMA ReturnsOfPush ==
    ASSUME ParserInv, Planted, NEW m \in 1..Len(states), NEW d, NEW v, Pushed(m, d, v)
    PROVE  (\E k \in 1..Len(values') : Returning(nodes', values'[k])) <=>
               \/ \E k \in 1..m - 1 : Returning(nodes, values[k])
               \/ Returning(nodes', Len(nodes) + 1)
<1>1. /\ Len(values') = m /\ nodes' = Append(nodes, v) /\ values'[m] = Len(nodes) + 1
      /\ \A k \in 1..m - 1 : values'[k] = values[k]
  BY DEF Pushed
<1>2. m \in Nat /\ m >= 1 /\ Len(states) = Len(values) + 1 /\ Len(values) \in Nat
  BY DEF ParserInv, ParserTypeOK, StackShape, Linked
<1>3. \A k \in 1..m - 1 : Returning(nodes', values'[k]) <=> Returning(nodes, values[k])
  <2> SUFFICES ASSUME NEW k \in 1..m - 1
               PROVE  Returning(nodes', values'[k]) <=> Returning(nodes, values[k])
    OBVIOUS
  <2>1. k \in 1..Len(values)
    BY <1>2
  <2>2. values[k] \in 1..Len(nodes)
    BY <2>1 DEF Planted
  <2>3. \A n \in 1..Len(nodes) : Returning(nodes', n) <=> Returning(nodes, n)
    BY <1>1, ReturningKept
  <2>4. values'[k] = values[k]
    BY <1>1
  <2> QED
    BY <2>2, <2>3, <2>4
<1>4. \A k \in 1..m : k \in 1..m - 1 \/ k = m
  BY <1>2
<1>5. m \in 1..m /\ \A k \in 1..m - 1 : k \in 1..m
  BY <1>2
<1> QED
  BY <1>1, <1>3, <1>4, <1>5

\* A node returns if one of the values it is built from does.
LEMMA ReducedReturns ==
    ASSUME ParserInv, Traced, Planted, NEW i, NEW d, Reduced(i, d),
           nodes' = Append(nodes, Build(Rules[i], RhsValues(i)))
    PROVE  Returning(nodes', Len(nodes) + 1) <=>
               \E k \in 1..Len(Rules[i].rhs) : Returning(nodes, RhsValues(i)[k])
<1> DEFINE rhs == RhsValues(i)
           rule == Rules[i]
           v == Build(rule, rhs)
           N == Len(nodes)
           S == 1..N
           n == Len(Rules[i].rhs)
<1> SUFFICES Returning(nodes', N + 1) <=> \E k \in 1..n : Returning(nodes, rhs[k])
  OBVIOUS
<1>1. /\ rhs \in Seq(S) /\ Len(rhs) = n
      /\ n = 1 => Fits(Top, nodes[rhs[1]])
      /\ n > 1 => \A k \in 1..n : Fits(10 * i + k, nodes[rhs[k]])
  BY RhsFacts
<1>2. Reduces(Top, i)
  BY DEF Reduced
<1>3. rule.kids \in Seq(1..n) /\ rule.own \in 0..n /\ n \in Nat
  BY <1>2, LiveKids
<1>4. /\ v.tid = rule.tid /\ v.sub = rule.sub
      /\ v.kids \in Seq(S) /\ Len(v.kids) = Len(rule.kids)
      /\ \A k \in 1..Len(rule.kids) : v.kids[k] = rhs[rule.kids[k]]
  <2> HIDE DEF n, S, rhs, rule, v
  <2>1. rule.kids \in Seq(1..Len(rhs))
    BY <1>1, <1>3
  <2>2. rhs \in Seq(S)
    BY <1>1
  <2> QED
    BY <2>1, <2>2, BuildFacts DEF v
<1>5. N \in Nat /\ nodes'[N + 1] = v
  BY HeapGrows
<1>6. \A k \in 1..n : rhs[k] \in 1..N
  <2> HIDE DEF n, S, rhs
  <2>1. \A k \in 1..n : rhs[k] \in S
    BY <1>1, <1>3
  <2> QED
    BY <2>1 DEF S
<1>7. \A k \in 1..N : nodes'[k] = nodes[k]
  BY HeapGrows
<1>8. \A k \in 1..N : Returning(nodes', k) <=> Returning(nodes, k)
  BY ReturningKept
<1>9. CASE i = 2
  <2>1. rule.tid = "COMP_UNIT" /\ rule.sub = "" /\ rule.kids = <<1>>
    BY <1>9, ProgramTrees DEF Tree
  <2>2. n = 1
    BY <1>9, LiveRules DEF Sized
  <2>3. Top = 21
    BY <1>2, <1>9 DEF Reduces, Ends
  <2>4. Fits(21, nodes[rhs[1]])
    BY <1>1, <2>2, <2>3
  <2> HIDE DEF n, rhs, rule, v, S
  <2>5. v.tid = "COMP_UNIT" /\ v.sub = ""
    BY <1>4, <2>1
  <2>6. v.kids[1] = rhs[1]
    <3> DEFINE ks == rule.kids
    <3>1. ks = <<1>>
      BY <2>1
    <3> HIDE DEF ks
    <3>2. ks[1] = 1 /\ 1 \in 1..Len(ks)
      BY <3>1
    <3>3. v.kids[1] = rhs[ks[1]]
      BY <1>4, <3>2 DEF ks
    <3> QED
      BY <3>2, <3>3
  <2>7. rhs[1] \in 1..N
    BY <1>1, <2>2, <1>6
  <2>8. nodes[rhs[1]].tid = "FUNC_DEF"
    BY <2>4 DEF Fits, HoldsToken, HoldsNode
  <2>9. Returning(nodes', N + 1) <=> Returning(nodes', rhs[1])
    BY <1>5, <1>7, <2>5, <2>6, <2>7, <2>8 DEF Returning
  <2>10. Returning(nodes', rhs[1]) <=> Returning(nodes, rhs[1])
    BY <2>7, <1>8
  <2>11. \A k \in 1..n : k = 1
    BY <2>2
  <2>12. 1 \in 1..n
    BY <2>2
  <2> QED
    BY <2>9, <2>10, <2>11, <2>12
<1>10. CASE i = 3
  <2>1. rule.tid = "FUNC_DEF" /\ rule.sub = "" /\ rule.kids = <<1, 5>>
    BY <1>10, ProgramTrees DEF Tree
  <2>2. n = 5
    BY <1>10, LiveRules DEF Sized
  <2>3. 10 * i + 1 = 31 /\ 10 * i + 2 = 32 /\ 10 * i + 3 = 33 /\ 10 * i + 4 = 34 /\ 10 * i + 5 = 35
    BY <1>10
  <2>4. Fits(31, nodes[rhs[1]]) /\ Fits(32, nodes[rhs[2]]) /\ Fits(33, nodes[rhs[3]]) /\ Fits(34, nodes[rhs[4]]) /\ Fits(35, nodes[rhs[5]])
    BY <1>1, <2>2, <2>3
  <2> HIDE DEF n, rhs, rule, v, S
  <2>5. v.tid = "FUNC_DEF" /\ v.sub = ""
    BY <1>4, <2>1
  <2>6. v.kids[2] = rhs[5]
    <3> DEFINE ks == rule.kids
    <3>1. ks = <<1, 5>>
      BY <2>1
    <3> HIDE DEF ks
    <3>2. ks[2] = 5 /\ 2 \in 1..Len(ks)
      BY <3>1
    <3>3. v.kids[2] = rhs[ks[2]]
      BY <1>4, <3>2 DEF ks
    <3> QED
      BY <3>2, <3>3
  <2>7. rhs[5] \in 1..N
    BY <1>1, <2>2, <1>6
  <2>8. nodes[rhs[5]].tid = "BLOCK"
    BY <2>4 DEF Fits, HoldsToken, HoldsNode
  <2>9. Returning(nodes', N + 1) <=> Returning(nodes', rhs[5])
    BY <1>5, <1>7, <2>5, <2>6, <2>7, <2>8 DEF Returning
  <2>10. Returning(nodes', rhs[5]) <=> Returning(nodes, rhs[5])
    BY <2>7, <1>8
  <2>11. ~Returning(nodes, rhs[1]) /\ ~Returning(nodes, rhs[2]) /\ ~Returning(nodes, rhs[3]) /\ ~Returning(nodes, rhs[4])
    <3>1. ~Returning(nodes, rhs[1])
      BY <2>4, 31 \notin {261, 71, 91, 52, 72, 35, 21, 11}, ReturningStates
    <3>2. ~Returning(nodes, rhs[2])
      BY <2>4, 32 \notin {261, 71, 91, 52, 72, 35, 21, 11}, ReturningStates
    <3>3. ~Returning(nodes, rhs[3])
      BY <2>4, 33 \notin {261, 71, 91, 52, 72, 35, 21, 11}, ReturningStates
    <3>4. ~Returning(nodes, rhs[4])
      BY <2>4, 34 \notin {261, 71, 91, 52, 72, 35, 21, 11}, ReturningStates
    <3> QED
      BY <3>1, <3>2, <3>3, <3>4
  <2>12. \A k \in 1..n : k = 1 \/ k = 2 \/ k = 3 \/ k = 4 \/ k = 5
    BY <2>2
  <2>13. 5 \in 1..n
    BY <2>2
  <2> QED
    BY <2>9, <2>10, <2>11, <2>12, <2>13
<1>11. CASE i = 5
  <2>1. rule.tid = "BLOCK" /\ rule.sub = "" /\ rule.kids = <<2>>
    BY <1>11, ProgramTrees DEF Tree
  <2>2. n = 3
    BY <1>11, LiveRules DEF Sized
  <2>3. 10 * i + 1 = 51 /\ 10 * i + 2 = 52 /\ 10 * i + 3 = 53
    BY <1>11
  <2>4. Fits(51, nodes[rhs[1]]) /\ Fits(52, nodes[rhs[2]]) /\ Fits(53, nodes[rhs[3]])
    BY <1>1, <2>2, <2>3
  <2> HIDE DEF n, rhs, rule, v, S
  <2>5. v.tid = "BLOCK" /\ v.sub = ""
    BY <1>4, <2>1
  <2>6. v.kids[1] = rhs[2]
    <3> DEFINE ks == rule.kids
    <3>1. ks = <<2>>
      BY <2>1
    <3> HIDE DEF ks
    <3>2. ks[1] = 2 /\ 1 \in 1..Len(ks)
      BY <3>1
    <3>3. v.kids[1] = rhs[ks[1]]
      BY <1>4, <3>2 DEF ks
    <3> QED
      BY <3>2, <3>3
  <2>7. rhs[2] \in 1..N
    BY <1>1, <2>2, <1>6
  <2>8. nodes[rhs[2]].tid = "BLOCK_ITEMS"
    BY <2>4 DEF Fits, HoldsToken, HoldsNode
  <2>9. Returning(nodes', N + 1) <=> Returning(nodes', rhs[2])
    BY <1>5, <1>7, <2>5, <2>6, <2>7, <2>8 DEF Returning
  <2>10. Returning(nodes', rhs[2]) <=> Returning(nodes, rhs[2])
    BY <2>7, <1>8
  <2>11. ~Returning(nodes, rhs[1]) /\ ~Returning(nodes, rhs[3])
    <3>1. ~Returning(nodes, rhs[1])
      BY <2>4, 51 \notin {261, 71, 91, 52, 72, 35, 21, 11}, ReturningStates
    <3>3. ~Returning(nodes, rhs[3])
      BY <2>4, 53 \notin {261, 71, 91, 52, 72, 35, 21, 11}, ReturningStates
    <3> QED
      BY <3>1, <3>3
  <2>12. \A k \in 1..n : k = 1 \/ k = 2 \/ k = 3
    BY <2>2
  <2>13. 2 \in 1..n
    BY <2>2
  <2> QED
    BY <2>9, <2>10, <2>11, <2>12, <2>13
<1>12. CASE i = 6
  <2>1. rule.tid = "BLOCK_ITEMS" /\ rule.sub = "Null" /\ rule.kids = <<>>
    BY <1>12, ItemTrees DEF Tree
  <2>2. n = 0
    BY <1>12, LiveRules DEF Sized
  <2> HIDE DEF n, rhs, rule, v, S
  <2>5. v.tid = "BLOCK_ITEMS" /\ v.sub = "Null"
    BY <1>4, <2>1
  <2>6. ~Returning(nodes', N + 1)
    BY <1>5, <2>5 DEF Returning
  <2>7. \A k \in 1..n : FALSE
    BY <2>2
  <2> QED
    BY <2>6, <2>7
<1>13. CASE i = 7
  <2>1. rule.tid = "BLOCK_ITEMS" /\ rule.sub = "Recv" /\ rule.kids = <<1, 2>>
    BY <1>13, ItemTrees DEF Tree
  <2>2. n = 2
    BY <1>13, LiveRules DEF Sized
  <2>3. 10 * i + 1 = 71 /\ 10 * i + 2 = 72
    BY <1>13
  <2>4. Fits(71, nodes[rhs[1]]) /\ Fits(72, nodes[rhs[2]])
    BY <1>1, <2>2, <2>3
  <2> HIDE DEF n, rhs, rule, v, S
  <2>5. v.tid = "BLOCK_ITEMS" /\ v.sub = "Recv"
    BY <1>4, <2>1
  <2>8. nodes[rhs[1]].tid = "BLOCK_ITEM"
    BY <2>4 DEF Fits, HoldsToken, HoldsNode
  <2>6. Returning(nodes, rhs[1])
    BY <2>8 DEF Returning
  <2>7. Returning(nodes', N + 1)
    BY <1>5, <2>5 DEF Returning
  <2>9. 1 \in 1..n
    BY <2>2
  <2> QED
    BY <2>6, <2>7, <2>9
<1>14. CASE i = 9
  <2>1. rule.tid = "BLOCK_ITEM" /\ rule.sub = "Stmt" /\ rule.kids = <<1>>
    BY <1>14, ItemTrees DEF Tree
  <2>2. n = 1
    BY <1>14, LiveRules DEF Sized
  <2>3. Top = 91
    BY <1>2, <1>14 DEF Reduces, Ends
  <2>4. Fits(91, nodes[rhs[1]])
    BY <1>1, <2>2, <2>3
  <2> HIDE DEF n, rhs, rule, v, S
  <2>5. v.tid = "BLOCK_ITEM" /\ v.sub = "Stmt"
    BY <1>4, <2>1
  <2>8. nodes[rhs[1]].tid = "STMT"
    BY <2>4 DEF Fits, HoldsToken, HoldsNode
  <2>6. Returning(nodes, rhs[1])
    BY <2>8 DEF Returning
  <2>7. Returning(nodes', N + 1)
    BY <1>5, <2>5 DEF Returning
  <2>9. 1 \in 1..n
    BY <2>2
  <2> QED
    BY <2>6, <2>7, <2>9
<1>15. CASE i = 26
  <2>1. rule.tid = "STMT" /\ rule.sub = "Ret" /\ rule.kids = <<2>>
    BY <1>15, StmtTrees DEF Tree
  <2>2. n = 3
    BY <1>15, LiveRules DEF Sized
  <2>3. 10 * i + 1 = 261 /\ 10 * i + 2 = 262 /\ 10 * i + 3 = 263
    BY <1>15
  <2>4. Fits(261, nodes[rhs[1]]) /\ Fits(262, nodes[rhs[2]]) /\ Fits(263, nodes[rhs[3]])
    BY <1>1, <2>2, <2>3
  <2> HIDE DEF n, rhs, rule, v, S
  <2>5. v.tid = "STMT" /\ v.sub = "Ret"
    BY <1>4, <2>1
  <2>8. nodes[rhs[1]].tid = "TOKEN" /\ nodes[rhs[1]].sub = "RETURN"
    BY <2>4 DEF Fits, HoldsToken, HoldsNode
  <2>6. Returning(nodes, rhs[1])
    BY <2>8 DEF Returning
  <2>7. Returning(nodes', N + 1)
    BY <1>5, <2>5 DEF Returning
  <2>9. 1 \in 1..n
    BY <2>2
  <2> QED
    BY <2>6, <2>7, <2>9
<1>16. CASE i \notin {2, 3, 5, 6, 7, 9, 26}
  <2>1. HoldsNode(d, rule.tid) /\ rule.tid # "TOKEN" /\ d \notin {261, 71, 91, 52, 72, 35, 21, 11}
    <3>1. Reduction(i, Name(Len(states) - n), d)
      BY DEF Reduced
    <3>2. HoldsNode(d, rule.tid) /\ rule.tid # "TOKEN"
      BY <1>2, <3>1, ReduceFits
    <3> HIDE DEF n, rule
    <3> DEFINE p == Name(Len(states) - n)
    <3>3. Reduction(i, p, d)
      BY <3>1
    <3> HIDE DEF p
    <3>4. d \notin {261, 71, 91, 52, 72, 35, 21, 11}
      BY <1>16, <3>3, SMTT(60) DEF Reduction, Operands
    <3> QED
      BY <3>2, <3>4
  <2>2. \A k \in 1..n : \E c : Fits(c, nodes[rhs[k]]) /\ c \notin {261, 71, 91, 52, 72, 35, 21, 11}
    <3>1. Top \notin {261, 71, 91, 52, 72, 35, 21, 11}
      BY <1>2, <1>16, PlainTop
    <3>2. CASE n = 1
      <4>1. \A k \in 1..n : k = 1
        BY <3>2
      <4> QED
        BY <1>1, <3>1, <3>2, <4>1
    <3>3. CASE n > 1
      <4>1. i \in {28, 34, 37}
        BY <1>2, <1>16, <3>3, LiveLong
      <4>2. n \in 0..5
        BY <1>2, ShortRules
      <4>3. \A k \in 1..n : 10 * i + k \notin {261, 71, 91, 52, 72, 35, 21, 11}
        BY <4>1, <4>2
      <4> QED
        BY <1>1, <3>3, <4>3
    <3>0. n \in Nat
      BY <1>3
    <3> HIDE DEF n, rhs, rule, v, S, N
    <3>4. n > 1 \/ n = 1 \/ n = 0
      BY <3>0
    <3>5. n = 0 => \A k \in 1..n : FALSE
      OBVIOUS
    <3> QED
      BY <3>2, <3>3, <3>4, <3>5
  <2> HIDE DEF n, rhs, rule, v, S, N
  <2>3. \A k \in 1..n : ~Returning(nodes, rhs[k])
    BY <2>2, ReturningStates
  <2>4. v.tid = rule.tid
    BY <1>4
  <2>5. v.tid \notin {"TOKEN", "STMT", "BLOCK_ITEM", "BLOCK_ITEMS", "BLOCK", "FUNC_DEF", "COMP_UNIT"}
    BY <2>1, <2>4 DEF HoldsNode
  <2>6. ~Returning(nodes', N + 1)
    BY <1>5, <2>5 DEF Returning
  <2> QED
    BY <2>3, <2>6
<1> QED
  BY <1>9, <1>10, <1>11, <1>12, <1>13, <1>14, <1>15, <1>16

\* No return statement has been read at the beginning.
LEMMA ReturnsInitially == Init => ReturnsKept
<1> SUFFICES ASSUME Init PROVE ReturnsKept
  OBVIOUS
<1>1. Len(values) = 0 /\ Shifted = 0
  BY DEF Init, Shifted
<1> QED
  BY <1>1 DEF ReturnsKept

\* A token that is read is not shifted yet.
LEMMA ReturnsLex == ParserInv /\ ParserInv' /\ ReturnsKept /\ Lex => ReturnsKept'
<1> SUFFICES ASSUME ParserInv, ParserInv', ReturnsKept, Lex PROVE ReturnsKept'
  OBVIOUS
<1>1. ShiftedCount /\ ShiftedCount'
  BY ShiftedCounts, ShiftedCountsNext
<1>2. values' = values /\ nodes' = nodes /\ lookahead = <<>>
  BY DEF Lex
<1>3. Shifted' = Shifted /\ \A j \in 1..Shifted : read'[j] = read[j]
  <2>1. CASE read' = read /\ lookahead' = <<"$end">>
    BY <1>1, <1>2, <2>1 DEF ShiftedCount
  <2>2. ASSUME NEW c \in Classes, read' = Append(read, c), lookahead' = <<c>>
        PROVE  Shifted' = Shifted /\ \A j \in 1..Shifted : read'[j] = read[j]
    <3>1. c # "$end"
      BY NoStrClass
    <3>2. read \in Seq(Classes)
      BY DEF ParserInv, ParserTypeOK
    <3>3. Len(read') = Len(read) + 1 /\ \A j \in 1..Len(read) : read'[j] = read[j]
      BY <2>2, <3>2
    <3>4. lookahead' # <<>> /\ (lookahead[1])' # "$end"
      BY <2>2, <3>1
    <3> QED
      BY <1>1, <1>2, <3>3, <3>4 DEF ShiftedCount
  <2> QED
    BY <2>1, <2>2 DEF Lex
<1> QED
  BY <1>2, <1>3 DEF ReturnsKept

\* Shifting a return puts it on the stack.
LEMMA ReturnsShift == ParserInv /\ ParserInv' /\ Traced /\ Planted /\ Located /\ ReturnsKept /\ Shift => ReturnsKept'
<1> SUFFICES ASSUME ParserInv, ParserInv', Traced, Planted, Located, ReturnsKept, Shift
             PROVE  ReturnsKept'
  OBVIOUS
<1> DEFINE t == lookahead[1]
           K == Len(states)
<1>1. PICK d : Move(Top, t, d) /\ Pushed(K, d, Token(t))
  BY ShiftStep
<1>2. /\ lookahead # <<>> /\ t \in Classes /\ lookahead' = <<>> /\ read' = read
  BY ShiftStep
<1>3. t # "$end"
  BY <1>2, NoStrClass
<1>4. ShiftedCount /\ ShiftedCount'
  BY ShiftedCounts, ShiftedCountsNext
<1>5. Shifted = Len(read) - 1 /\ Shifted' = Len(read) /\ Len(read) > 0 /\ read[Len(read)] = t /\ Len(read) \in Nat
  BY <1>2, <1>3, <1>4 DEF ShiftedCount, Located
<1>6. K \in 1..K /\ K \in Nat /\ Len(values) = K - 1
  BY TopFacts DEF ParserInv, ParserTypeOK
<1>7. (\E k \in 1..Len(values') : Returning(nodes', values'[k])) <=>
               \/ \E k \in 1..K - 1 : Returning(nodes, values[k])
               \/ Returning(nodes', Len(nodes) + 1)
  BY <1>1, <1>6, ReturnsOfPush
<1>8. nodes'[Len(nodes) + 1] = Token(t)
  <2>1. nodes' = Append(nodes, Token(t))
    BY <1>1 DEF Pushed
  <2> QED
    BY <2>1, HeapGrows
<1>9. Returning(nodes', Len(nodes) + 1) <=> t = "RETURN"
  BY <1>8 DEF Returning, Token
<1>10. (\E j \in 1..Shifted' : read'[j] = "RETURN") <=> (\E j \in 1..Shifted : read[j] = "RETURN") \/ t = "RETURN"
  <2>1. \A j : j \in 1..Len(read) <=> j \in 1..Len(read) - 1 \/ j = Len(read)
    BY <1>5
  <2> HIDE DEF t, K
  <2> QED
    BY <1>2, <1>5, <2>1
<1> HIDE DEF t, K
<1> QED
  BY <1>6, <1>7, <1>9, <1>10 DEF ReturnsKept

\* A reduction keeps it in the new node.
LEMMA ReturnsReduce == ParserInv /\ ParserInv' /\ Traced /\ Planted /\ ReturnsKept /\ Reduce => ReturnsKept'
<1> SUFFICES ASSUME ParserInv, ParserInv', Traced, Planted, ReturnsKept, Reduce
             PROVE  ReturnsKept'
  OBVIOUS
<1>1. PICK i, d : Reduced(i, d)
  BY ReduceStep
<1> DEFINE n == Len(Rules[i].rhs)
           K == Len(states)
           m == K - n
           v == Build(Rules[i], RhsValues(i))
<1>2. K \in Nat /\ K >= 1 /\ Len(values) = K - 1
  BY TopFacts DEF ParserInv, ParserTypeOK
<1>3. n \in 0..K - 1
  BY <1>1 DEF Reduced
<1>4. Pushed(m, d, v) /\ m \in 1..K
  BY <1>1, <1>2, <1>3 DEF Reduced, RhsValues
<1>5. lookahead' = lookahead /\ read' = read
  BY ReduceStep
<1>6. Shifted' = Shifted
  BY <1>5 DEF Shifted
<1>7. nodes' = Append(nodes, v)
  BY <1>4 DEF Pushed
<1>8. Returning(nodes', Len(nodes) + 1) <=> \E k \in 1..n : Returning(nodes, RhsValues(i)[k])
  BY <1>1, <1>7, ReducedReturns
<1>9. (\E k \in 1..Len(values') : Returning(nodes', values'[k])) <=>
               \/ \E k \in 1..m - 1 : Returning(nodes, values[k])
               \/ Returning(nodes', Len(nodes) + 1)
  <2> HIDE DEF m, v
  <2> QED
    BY <1>4, ReturnsOfPush
<1>10. \A k \in 1..n : RhsValues(i)[k] = values[m - 1 + k]
  <2>1. RhsValues(i) = SubSeq(values, m, K - 1)
    BY <1>2 DEF RhsValues
  <2> HIDE DEF n
  <2>2. \A k \in 1..(K - 1) - m + 1 : SubSeq(values, m, K - 1)[k] = values[m + k - 1]
    BY <1>2, <1>3
  <2> QED
    BY <1>2, <1>3, <2>1, <2>2
<1> HIDE DEF n, v
<1>11. \A k : k \in 1..K - 1 <=> k \in 1..m - 1 \/ \E j \in 1..n : k = m - 1 + j
  <2> TAKE k
  <2>1. ASSUME k \in 1..K - 1 PROVE k \in 1..m - 1 \/ \E j \in 1..n : k = m - 1 + j
    <3>1. k >= m => k - (m - 1) \in 1..n /\ k = m - 1 + (k - (m - 1))
      BY <1>2, <1>3, <2>1
    <3> QED
      BY <1>2, <1>3, <2>1, <3>1
  <2>2. \A j \in 1..n : m - 1 + j \in 1..K - 1
    BY <1>2, <1>3
  <2>3. k \in 1..m - 1 => k \in 1..K - 1
    BY <1>2, <1>3
  <2> HIDE DEF m
  <2> QED
    BY <2>1, <2>2, <2>3
<1> HIDE DEF m
<1>12. (\E k \in 1..K - 1 : Returning(nodes, values[k])) <=>
               \/ \E k \in 1..m - 1 : Returning(nodes, values[k])
               \/ \E j \in 1..n : Returning(nodes, values[m - 1 + j])
  BY <1>11
<1>13. (\E j \in 1..n : Returning(nodes, values[m - 1 + j])) <=> \E k \in 1..n : Returning(nodes, RhsValues(i)[k])
  BY <1>10
<1> QED
  BY <1>2, <1>5, <1>6, <1>8, <1>9, <1>12, <1>13 DEF ReturnsKept

\* Every step keeps the account of return statements.
LEMMA ReturnsNext ==
    ParserInv /\ ParserInv' /\ Traced /\ Planted /\ Located /\ ReturnsKept /\ [Next \/ Returned]_vars => ReturnsKept'
<1>1. ReturnsKept /\ UNCHANGED <<read, lookahead, values, nodes>> => ReturnsKept'
  BY DEF ReturnsKept, Shifted
<1> QED
  BY <1>1, ReturnsLex, ReturnsShift, ReturnsReduce DEF Next, Returned, Error, Accept, vars

\* A return that was shifted stays in sight: it, or a node that stands for it, is
\* on the stack of values, and nothing else there looks like one.
THEOREM ParserKeepsReturns == Spec => []ReturnsKept
<1> QED
  BY ReturnsInitially, ReturnsNext, ParserInvariant, ParserTraced, ParserPlants, ParserLocates, PTL DEF Spec

\* The heap is a sequence.
LEMMA PlantedHeap == Planted => Len(nodes) \in Nat /\ DOMAIN nodes = 1..Len(nodes)
<1> SUFFICES ASSUME Planted PROVE Len(nodes) \in Nat /\ DOMAIN nodes = 1..Len(nodes)
  OBVIOUS
<1> DEFINE S == {nodes[n] : n \in 1..Len(nodes)}
<1>1. nodes \in Seq(S)
  BY DEF Planted
<1> HIDE DEF S
<1> QED
  BY <1>1

\* The list of an accepted program has an element if and only if a return was read.
LEMMA AcceptedList ==
    ASSUME ParserInv, Traced, Planted, Located, Accepted, ReturnsKept, pc = "accept"
    PROVE  LET list == Contents(RootBlock)
           IN  /\ list \in 1..Len(nodes)
               /\ nodes[list].kids \in Seq(1..Len(nodes))
               /\ \/ Len(nodes[list].kids) = 0 /\ "RETURN" \notin Range(read)
                  \/ Len(nodes[list].kids) = 2 /\ "RETURN" \in Range(read)
<1> DEFINE b == RootBlock
           c == Contents(b)
<1>1. Top = 11
  BY DEF Accepted
<1>2. /\ Len(values) = 1 /\ Root \in 1..Len(nodes)
      /\ nodes[Root].tid = "COMP_UNIT"
      /\ b \in 1..Len(nodes) /\ nodes[b].tid = "BLOCK"
      /\ c \in 1..Len(nodes) /\ nodes[c].tid = "BLOCK_ITEMS"
  BY <1>1, AcceptedTree
<1>3. \/ nodes[c].sub = "Null" /\ Len(nodes[c].kids) = 0
      \/ nodes[c].sub = "Recv" /\ Len(nodes[c].kids) = 2
  BY <1>2 DEF Planted, ShapedNode
<1>4. nodes[c].kids \in Seq(1..Len(nodes))
  <2> DEFINE S == 1..c-1
             T == 1..Len(nodes)
             ks == nodes[c].kids
  <2> HIDE DEF c
  <2>1. ks \in Seq(S)
    BY <1>2 DEF Planted
  <2>2. \A j \in S : j \in T
    BY <1>2, PlantedHeap
  <2> HIDE DEF S, T, ks
  <2>3. ks \in Seq(T)
    BY <2>1, <2>2
  <2> QED
    BY <2>3 DEF T, ks
<1>5. c = nodes[nodes[nodes[Root].kids[1]].kids[2]].kids[1]
  BY DEF Contents, RootBlock
<1>6. Returning(nodes, Root) <=> nodes[c].sub = "Recv"
  BY <1>2, <1>5 DEF Returning
<1>7. (\E k \in 1..Len(values) : Returning(nodes, values[k])) <=> Returning(nodes, Root)
  BY <1>2 DEF Root
<1>8. Shifted = Len(read) /\ Len(read) \in Nat
  BY ShiftedCounts DEF ShiftedCount, Located
<1>9. "RETURN" \in Range(read) <=> \E j \in 1..Len(read) : read[j] = "RETURN"
  <2>1. read \in Seq(Classes)
    BY DEF ParserInv, ParserTypeOK
  <2>2. DOMAIN read = 1..Len(read)
    BY <2>1
  <2> QED
    BY <2>2 DEF Range
<1>10. Returning(nodes, Root) <=> "RETURN" \in Range(read)
  BY <1>7, <1>8, <1>9 DEF ReturnsKept
<1> HIDE DEF b, c
<1>11. \/ Len(nodes[c].kids) = 0 /\ "RETURN" \notin Range(read)
       \/ Len(nodes[c].kids) = 2 /\ "RETURN" \in Range(read)
  BY <1>3, <1>6, <1>10
<1> QED
  BY <1>2, <1>4, <1>11 DEF b, c

-----------------------------------------------------------------------------
(***************************************************************************)
(* The recursion of Texts has a solution, and unfolds.                     *)
(***************************************************************************)
\* f[k] joins the first k sequences of g, but for those up to the last number
\* of resets.
IsJoin(f, g, resets, n) ==
    /\ f[0] = <<>>
    /\ \A k \in 1..n : f[k] = IF k \in resets THEN <<>> ELSE f[k-1] \o g[k]

\* Two of them agree as far as what they join does.
LEMMA JoinsAgree ==
    ASSUME NEW n \in Nat, NEW f, NEW f2, NEW g, NEW g2, NEW r, NEW r2,
           IsJoin(f, g, r, n), IsJoin(f2, g2, r2, n),
           \A k \in 1..n : g[k] = g2[k] /\ (k \in r <=> k \in r2)
    PROVE  \A k \in 0..n : f[k] = f2[k]
<1>1. f[0] = f2[0] /\ \A k \in 1..n : f[k-1] = f2[k-1] => f[k] = f2[k]
  BY DEF IsJoin
<1> QED
  BY <1>1, ScansAgree

\* There is such a function, for parts of any kind.
LEMMA JoinExists ==
    ASSUME NEW n \in Nat, NEW S, NEW g, \A k \in 1..n : g[k] \in Seq(S), NEW r
    PROVE  \E f : f \in [0..n -> Seq(S)] /\ IsJoin(f, g, r, n)
<1> DEFINE T == Seq(S)
           Rebuilt(p) == IF p[2] \in r THEN <<>> ELSE p[1] \o g[p[2]]
           step == [p \in T \X (1..n) |-> Rebuilt(p)]
<1>1. <<>> \in T
  OBVIOUS
<1>2. \A p \in T \X (1..n) : Rebuilt(p) \in T
  <2> TAKE p \in T \X (1..n)
  <2>1. p[1] \in Seq(S) /\ g[p[2]] \in Seq(S)
    OBVIOUS
  <2>2. p[1] \o g[p[2]] \in Seq(S)
    BY <2>1, ConcatProperties
  <2> QED
    BY <1>1, <2>2
<1>3. step \in [T \X (1..n) -> T]
  <2> HIDE DEF T, Rebuilt
  <2> QED
    BY <1>2
<1>4. PICK f : IsScan(f, T, <<>>, step, n)
  <2> HIDE DEF step, T
  <2> QED
    BY <1>1, <1>3, ScanExists
<1>5. f \in [0..n -> T] /\ f[0] = <<>> /\ \A k \in 1..n : f[k] = step[<<f[k-1], k>>]
  BY <1>4 DEF IsScan
<1>6. \A k \in 1..n : f[k] = IF k \in r THEN <<>> ELSE f[k-1] \o g[k]
  <2> TAKE k \in 1..n
  <2> HIDE DEF T
  <2>1. f[k-1] \in T
    BY <1>5
  <2>2. step[<<f[k-1], k>>] = Rebuilt(<<f[k-1], k>>)
    BY <2>1
  <2> QED
    BY <1>5, <2>2
<1> QED
  BY <1>5, <1>6 DEF IsJoin

\* What is joined has the type of the parts.
LEMMA JoinTyped ==
    ASSUME NEW n \in Nat, NEW S, NEW g, \A k \in 1..n : g[k] \in Seq(S), NEW r,
           NEW f, IsJoin(f, g, r, n)
    PROVE  \A k \in 0..n : f[k] \in Seq(S)
<1>1. PICK h : h \in [0..n -> Seq(S)] /\ IsJoin(h, g, r, n)
  BY JoinExists
<1>2. \A k \in 0..n : f[k] = h[k]
  BY <1>1, JoinsAgree
<1> QED
  BY <1>1, <1>2

-----------------------------------------------------------------------------
\* The text of the token k of the program, if its class has one.
TokenText(k) == IF read[k] \in TextClasses THEN <<k>> ELSE <<>>

\* The texts of the tokens that were read.
TokenTexts == [k \in 1..Len(read) |-> TokenText(k)]

\* ReadTexts is defined.
LEMMA ReadTextsIs ==
    ASSUME ParserInv
    PROVE  IsJoin(ReadTexts, TokenTexts, {}, Len(read)) /\ \A k \in 1..Len(read) : TokenTexts[k] \in Seq(Nat)
<1> DEFINE L == Len(read)
           g == TokenTexts
           Body(f) == [k \in 0..L |-> IF k = 0 THEN <<>> ELSE f[k-1] \o
                                        IF read[k] \in TextClasses THEN <<k>> ELSE <<>>]
<1>1. L \in Nat
  BY DEF ParserInv, ParserTypeOK
<1>2. \A k \in 1..L : g[k] = (IF read[k] \in TextClasses THEN <<k>> ELSE <<>>) /\ g[k] \in Seq(Nat)
  BY DEF TokenTexts, TokenText
<1> HIDE DEF g, L
<1>3. PICK f : f \in [0..L -> Seq(Nat)] /\ IsJoin(f, g, {}, L)
  BY <1>1, <1>2, JoinExists
<1>4. f = Body(f)
  <2>1. f = [k \in 0..L |-> f[k]]
    BY <1>3
  <2>2. \A k \in 0..L : f[k] = IF k = 0 THEN <<>> ELSE f[k-1] \o
                                 IF read[k] \in TextClasses THEN <<k>> ELSE <<>>
    <3>1. f[0] = <<>> /\ \A k \in 1..L : f[k] = f[k-1] \o g[k]
      BY <1>3 DEF IsJoin
    <3>2. \A k \in 0..L : k = 0 \/ k \in 1..L
      BY <1>1
    <3>3. \A k \in 1..L : k # 0
      BY <1>1
    <3> QED
      BY <1>2, <3>1, <3>2, <3>3, Zenon
  <2> QED
    BY <2>1, <2>2, Zenon
<1>5. ReadTexts = CHOOSE f2 : f2 = Body(f2)
  BY DEF ReadTexts, L
<1>6. ReadTexts = Body(ReadTexts)
  <2> HIDE DEF Body
  <2> QED
    BY <1>4, <1>5
<1> DEFINE P == ReadTexts
<1>7. P = [k \in 0..L |-> IF k = 0 THEN <<>> ELSE P[k-1] \o
                             IF read[k] \in TextClasses THEN <<k>> ELSE <<>>]
  BY <1>6
<1> HIDE DEF P
<1>8. P[0] = <<>> /\ \A k \in 1..L : P[k] = P[k-1] \o g[k]
  BY <1>1, <1>2, <1>7
<1>9. IsJoin(P, g, {}, L)
  BY <1>8 DEF IsJoin
<1> QED
  BY <1>2, <1>9 DEF P, L, g

-----------------------------------------------------------------------------
\* The texts of a node of the heap h, given those of the nodes below it by f.
TextsOf(h, f, n) ==
    LET node == h[n]
        Part(k) == IF k \in DOMAIN node.kids THEN f[node.kids[k]] ELSE <<>>
        own == IF node.tok = NoText THEN <<>> ELSE <<node.tok>>
    IN  IF Len(node.kids) = 2
        THEN Part(1) \o own \o Part(2)
        ELSE own \o Part(1) \o Part(2) \o Part(3)

\* f gives the texts of every node of the heap h.
IsTexts(h, f) ==
    /\ f \in [1..Len(h) -> Seq(Nat)]
    /\ \A n \in 1..Len(h) : f[n] = TextsOf(h, f, n)

\* Each node is made of nodes before it.
BuiltUp(h) ==
    /\ Len(h) \in Nat /\ DOMAIN h = 1..Len(h)
    /\ \A n \in 1..Len(h) : h[n].kids \in Seq(1..n-1) /\ h[n].tok \in Nat

\* The heap of the parser is.
LEMMA PlantedUp == Planted => BuiltUp(nodes)
BY PlantedHeap DEF Planted, BuiltUp

\* The sub-trees of a node are before it.
LEMMA KidsBefore ==
    ASSUME NEW h, BuiltUp(h), NEW n \in 1..Len(h), NEW k \in DOMAIN h[n].kids
    PROVE  h[n].kids[k] \in 1..n-1 /\ h[n].kids[k] \in 1..Len(h)
<1> DEFINE ks == h[n].kids
           S == 1..n-1
<1>1. ks \in Seq(S) /\ Len(h) \in Nat
  BY DEF BuiltUp
<1>2. \A j \in S : j \in 1..Len(h)
  BY <1>1
<1> HIDE DEF S
<1>3. k \in DOMAIN ks
  OBVIOUS
<1> HIDE DEF ks
<1>4. ks[k] \in S
  BY <1>1, <1>3
<1> QED
  BY <1>2, <1>4 DEF ks, S

\* The texts of a node are positions of the program.
LEMMA TextsOfTyped ==
    ASSUME NEW h, BuiltUp(h), NEW f \in [1..Len(h) -> Seq(Nat)], NEW n \in 1..Len(h)
    PROVE  TextsOf(h, f, n) \in Seq(Nat)
<1> DEFINE Part(k) == IF k \in DOMAIN h[n].kids THEN f[h[n].kids[k]] ELSE <<>>
           own == IF h[n].tok = NoText THEN <<>> ELSE <<h[n].tok>>
<1>1. \A k : Part(k) \in Seq(Nat)
  <2> TAKE k
  <2>1. CASE k \in DOMAIN h[n].kids
    <3>1. h[n].kids[k] \in 1..Len(h)
      BY <2>1, KidsBefore
    <3> QED
      BY <2>1, <3>1
  <2> QED
    BY <2>1
<1>2. own \in Seq(Nat)
  BY DEF BuiltUp
<1> HIDE DEF Part, own
<1>3. Part(1) \in Seq(Nat) /\ Part(2) \in Seq(Nat) /\ Part(3) \in Seq(Nat)
  BY <1>1
<1>4. Part(1) \o own \o Part(2) \in Seq(Nat) /\ own \o Part(1) \o Part(2) \o Part(3) \in Seq(Nat)
  BY <1>2, <1>3, ConcatProperties
<1>5. TextsOf(h, f, n) = IF Len(h[n].kids) = 2 THEN Part(1) \o own \o Part(2)
                         ELSE own \o Part(1) \o Part(2) \o Part(3)
  BY DEF TextsOf, Part, own
<1> QED
  BY <1>4, <1>5

\* They depend on the node and on the texts of its kids only.
LEMMA TextsOfSame ==
    ASSUME NEW h, NEW f, NEW h2, NEW f2, NEW n, h[n] = h2[n],
           \A k \in DOMAIN h[n].kids : f[h[n].kids[k]] = f2[h[n].kids[k]]
    PROVE  TextsOf(h, f, n) = TextsOf(h2, f2, n)
BY DEF TextsOf

\* There is a function that gives the texts of every node: by recursion over the
\* heap, where the kids of a node come before it.
LEMMA TextsExist ==
    ASSUME NEW h, BuiltUp(h)
    PROVE  \E f : IsTexts(h, f)
<1> DEFINE D == Seq(Nat)
           N == 1..Len(h)
           lev == [n \in N |-> n]
           Rebuilt(p) == TextsOf(h, p[1], p[2])
           step == [p \in [N -> D] \X N |-> Rebuilt(p)]
<1>1. lev \in [N -> Nat] /\ D # {}
  <2>1. <<>> \in D
    OBVIOUS
  <2>2. \A n \in N : n \in Nat
    BY DEF BuiltUp
  <2> HIDE DEF D, N
  <2> QED
    BY <2>1, <2>2
<1>2. \A p \in [N -> D] \X N : Rebuilt(p) \in D
  <2> TAKE p \in [N -> D] \X N
  <2>1. p[1] \in [1..Len(h) -> Seq(Nat)] /\ p[2] \in 1..Len(h)
    OBVIOUS
  <2> QED
    BY <2>1, TextsOfTyped
<1>3. step \in [[N -> D] \X N -> D]
  <2> HIDE DEF N, D, Rebuilt
  <2> QED
    BY <1>2
<1>4. \A f, g \in [N -> D], n \in N :
          (\A k \in N : lev[k] < lev[n] => f[k] = g[k]) => step[<<f, n>>] = step[<<g, n>>]
  <2> TAKE f, g \in [N -> D], n \in N
  <2> HAVE \A k \in N : lev[k] < lev[n] => f[k] = g[k]
  <2>1. \A k \in DOMAIN h[n].kids : f[h[n].kids[k]] = g[h[n].kids[k]]
    <3> TAKE k \in DOMAIN h[n].kids
    <3> DEFINE j == h[n].kids[k]
    <3>1. j \in 1..n-1 /\ j \in N
      BY KidsBefore
    <3> HIDE DEF j
    <3>2. lev[j] < lev[n]
      BY <3>1 DEF BuiltUp
    <3> QED
      BY <3>1, <3>2 DEF j
  <2>2. TextsOf(h, f, n) = TextsOf(h, g, n)
    BY <2>1 DEF TextsOf
  <2> HIDE DEF N, D
  <2>3. step[<<f, n>>] = Rebuilt(<<f, n>>) /\ step[<<g, n>>] = Rebuilt(<<g, n>>)
    OBVIOUS
  <2> QED
    BY <2>2, <2>3
<1>5. \E f : IsSolution(f, N, D, step)
  <2> HIDE DEF N, D, lev, step
  <2>1. IsRecursion(N, lev, D, step)
    BY <1>1, <1>3, <1>4 DEF IsRecursion
  <2> QED
    BY <2>1, RecursionExists
<1>6. PICK f : f \in [N -> D] /\ \A n \in N : f[n] = step[<<f, n>>]
  BY <1>5 DEF IsSolution
<1>7. \A n \in N : f[n] = TextsOf(h, f, n)
  <2> TAKE n \in N
  <2> HIDE DEF N, D
  <2>1. step[<<f, n>>] = Rebuilt(<<f, n>>)
    BY <1>6
  <2> QED
    BY <1>6, <2>1
<1> QED
  BY <1>6, <1>7 DEF IsTexts

\* The texts of a node do not change when the heap grows.
LEMMA TextsAgree ==
    ASSUME NEW h, BuiltUp(h), NEW h2, \A n \in 1..Len(h) : h2[n] = h[n],
           Len(h2) \in Nat, Len(h2) >= Len(h),
           NEW f, NEW f2, IsTexts(h, f), IsTexts(h2, f2)
    PROVE  \A n \in 1..Len(h) : f2[n] = f[n]
<1> DEFINE N == 1..Len(h)
           P == {n \in N : f2[n] = f[n]}
           lev == [n \in N |-> n]
<1>1. \A n \in N : lev[n] \in Nat
  BY DEF BuiltUp
<1>2. \A n \in N : (\A k \in N : lev[k] < lev[n] => k \in P) => n \in P
  <2> TAKE n \in N
  <2> HAVE \A k \in N : lev[k] < lev[n] => k \in P
  <2>1. \A k \in DOMAIN h[n].kids : f[h[n].kids[k]] = f2[h[n].kids[k]]
    <3> TAKE k \in DOMAIN h[n].kids
    <3> DEFINE j == h[n].kids[k]
    <3>1. j \in 1..n-1 /\ j \in N
      BY KidsBefore
    <3> HIDE DEF j
    <3>2. lev[j] < lev[n]
      BY <3>1 DEF BuiltUp
    <3> QED
      BY <3>1, <3>2 DEF j
  <2>2. TextsOf(h, f, n) = TextsOf(h2, f2, n)
    BY <2>1, TextsOfSame
  <2>3. n \in 1..Len(h2)
    BY DEF BuiltUp
  <2>4. f[n] = TextsOf(h, f, n) /\ f2[n] = TextsOf(h2, f2, n)
    BY <2>3 DEF IsTexts
  <2> QED
    BY <2>2, <2>4
<1>3. N \subseteq P
  <2> HIDE DEF N, P, lev
  <2> QED
    BY <1>1, <1>2, LevelInduction
<1> QED
  BY <1>3

\* Texts is defined.
LEMMA TextsIs == Planted => IsTexts(nodes, Texts)
<1> SUFFICES ASSUME Planted PROVE IsTexts(nodes, Texts)
  OBVIOUS
<1> DEFINE Body(f) == [n \in DOMAIN nodes |-> TextsOf(nodes, f, n)]
<1>1. BuiltUp(nodes)
  BY PlantedUp
<1>2. PICK f : IsTexts(nodes, f)
  BY <1>1, TextsExist
<1>3. DOMAIN nodes = 1..Len(nodes)
  BY <1>1 DEF BuiltUp
<1>4. f = Body(f)
  <2>1. f = [n \in DOMAIN nodes |-> f[n]]
    BY <1>2, <1>3 DEF IsTexts
  <2>2. \A n \in DOMAIN nodes : f[n] = TextsOf(nodes, f, n)
    BY <1>2, <1>3 DEF IsTexts
  <2> QED
    BY <2>1, <2>2, Zenon
<1>5. Texts = CHOOSE g : g = Body(g)
  BY DEF Texts, TextsOf
<1>6. Texts = Body(Texts)
  <2> HIDE DEF Body
  <2> QED
    BY <1>4, <1>5
<1> DEFINE P == Texts
<1>7. P = [n \in DOMAIN nodes |-> TextsOf(nodes, P, n)]
  BY <1>6
<1>8. f \in [1..Len(nodes) -> Seq(Nat)] /\ \A n \in 1..Len(nodes) : f[n] = TextsOf(nodes, f, n)
  BY <1>2 DEF IsTexts
<1> HIDE DEF P
<1>9. \A n \in 1..Len(nodes) : P[n] = TextsOf(nodes, P, n)
  BY <1>3, <1>7
<1> DEFINE N == 1..Len(nodes)
           Q == {n \in N : P[n] = f[n]}
           lev == [n \in N |-> n]
<1>10. \A n \in N : lev[n] \in Nat
  BY <1>1 DEF BuiltUp
<1>11. \A n \in N : (\A k \in N : lev[k] < lev[n] => k \in Q) => n \in Q
  <2> TAKE n \in N
  <2> HAVE \A k \in N : lev[k] < lev[n] => k \in Q
  <2>1. \A k \in DOMAIN nodes[n].kids : P[nodes[n].kids[k]] = f[nodes[n].kids[k]]
    <3> TAKE k \in DOMAIN nodes[n].kids
    <3> DEFINE j == nodes[n].kids[k]
    <3>1. j \in 1..n-1 /\ j \in N
      BY <1>1, KidsBefore
    <3> HIDE DEF j
    <3>2. lev[j] < lev[n]
      BY <1>1, <3>1 DEF BuiltUp
    <3> QED
      BY <3>1, <3>2 DEF j
  <2>2. TextsOf(nodes, P, n) = TextsOf(nodes, f, n)
    BY <2>1, TextsOfSame
  <2> QED
    BY <1>8, <1>9, <2>2
<1>12. N \subseteq Q
  <2> HIDE DEF N, Q, lev
  <2> QED
    BY <1>10, <1>11, LevelInduction
<1>13. P \in [1..Len(nodes) -> Seq(Nat)]
  BY <1>3, <1>7, <1>8, <1>12
<1> QED
  BY <1>9, <1>13 DEF P, IsTexts

\* What is known of Texts from its recursion.
TextsDefined == BuiltUp(nodes) /\ IsTexts(nodes, Texts)

\* It holds in every state of the parser.
LEMMA TextsHold == Planted => TextsDefined
BY PlantedUp, TextsIs DEF TextsDefined

\* After a step as before it.
LEMMA TextsHoldNext == Planted' => TextsDefined'
BY TextsHold, PTL

-----------------------------------------------------------------------------
(***************************************************************************)
(* Tokens, and the texts of a node by those of its kids.                   *)
(***************************************************************************)
\* The texts of the values on the stack.
ValueTexts == [k \in 1..Len(values) |-> Texts[values[k]]]

\* What is known of StackTexts from its recursion.
StackDefined ==
    /\ IsJoin(StackTexts, ValueTexts, {}, Len(values))
    /\ \A k \in 1..Len(values) : ValueTexts[k] \in Seq(Nat) /\ ValueTexts[k] = Texts[values[k]]
    /\ Len(values) \in Nat

\* What is known of ReadTexts from its recursion.
ReadDefined ==
    /\ IsJoin(ReadTexts, TokenTexts, {}, Len(read))
    /\ \A k \in 1..Len(read) : TokenTexts[k] \in Seq(Nat) /\ TokenTexts[k] = TokenText(k)
    /\ Len(read) \in Nat

\* ReadTexts is defined as it should be, in a state and in the next one.
LEMMA ReadHolds == ParserInv => ReadDefined
<1> SUFFICES ASSUME ParserInv PROVE ReadDefined
  OBVIOUS
<1>1. Len(read) \in Nat
  BY DEF ParserInv, ParserTypeOK
<1>2. \A k \in 1..Len(read) : TokenTexts[k] = TokenText(k)
  BY DEF TokenTexts
<1> QED
  BY <1>1, <1>2, ReadTextsIs DEF ReadDefined

\* The same after a step.
LEMMA ReadHoldsNext == ParserInv' => ReadDefined'
BY ReadHolds, PTL

\* StackTexts is defined.
LEMMA StackHolds == ParserInv /\ Planted => StackDefined
<1> SUFFICES ASSUME ParserInv, Planted PROVE StackDefined
  OBVIOUS
<1> DEFINE L == Len(values)
           g == ValueTexts
           Body(f) == [k \in 0..L |-> IF k = 0 THEN <<>> ELSE f[k-1] \o Texts[values[k]]]
<1>1. L \in Nat
  BY DEF ParserInv, ParserTypeOK, StackShape, Linked
<1>2. \A k \in 1..L : g[k] = Texts[values[k]] /\ g[k] \in Seq(Nat)
  <2> TAKE k \in 1..L
  <2>1. values[k] \in 1..Len(nodes)
    BY DEF Planted
  <2>2. Texts \in [1..Len(nodes) -> Seq(Nat)]
    BY TextsIs DEF IsTexts
  <2>3. g[k] = Texts[values[k]]
    BY DEF ValueTexts
  <2> QED
    BY <2>1, <2>2, <2>3
<1> HIDE DEF g, L
<1>3. PICK f : f \in [0..L -> Seq(Nat)] /\ IsJoin(f, g, {}, L)
  BY <1>1, <1>2, JoinExists
<1>4. f = Body(f)
  <2>1. f = [k \in 0..L |-> f[k]]
    BY <1>3
  <2>2. \A k \in 0..L : f[k] = IF k = 0 THEN <<>> ELSE f[k-1] \o Texts[values[k]]
    <3>1. f[0] = <<>> /\ \A k \in 1..L : f[k] = f[k-1] \o g[k]
      BY <1>3 DEF IsJoin
    <3>2. \A k \in 0..L : k = 0 \/ k \in 1..L
      BY <1>1
    <3>3. \A k \in 1..L : k # 0
      BY <1>1
    <3> QED
      BY <1>2, <3>1, <3>2, <3>3, Zenon
  <2> QED
    BY <2>1, <2>2, Zenon
<1>5. StackTexts = CHOOSE f2 : f2 = Body(f2)
  BY DEF StackTexts, L
<1>6. StackTexts = Body(StackTexts)
  <2> HIDE DEF Body
  <2> QED
    BY <1>4, <1>5
<1> DEFINE P == StackTexts
<1>7. P = [k \in 0..L |-> IF k = 0 THEN <<>> ELSE P[k-1] \o Texts[values[k]]]
  BY <1>6
<1> HIDE DEF P
<1>8. P[0] = <<>> /\ \A k \in 1..L : P[k] = P[k-1] \o g[k]
  BY <1>1, <1>2, <1>7
<1>9. IsJoin(P, g, {}, L)
  BY <1>8 DEF IsJoin
<1> QED
  BY <1>1, <1>2, <1>9 DEF P, L, g, StackDefined

\* The same after a step.
LEMMA StackHoldsNext == ParserInv' /\ Planted' => StackDefined'
BY StackHolds, PTL

-----------------------------------------------------------------------------
\* The text that a node holds itself.
OwnText(tok) == IF tok = NoText THEN <<>> ELSE <<tok>>

\* The texts of a node by the number of its sub-trees.
LEMMA TextsByKids ==
    ASSUME NEW h, BuiltUp(h), NEW f, IsTexts(h, f), NEW n \in 1..Len(h)
    PROVE  LET ks == h[n].kids
               own == OwnText(h[n].tok)
           IN  /\ Len(ks) = 0 => f[n] = own
               /\ Len(ks) = 1 => f[n] = own \o f[ks[1]] /\ f[ks[1]] \in Seq(Nat)
               /\ Len(ks) = 2 => /\ f[n] = f[ks[1]] \o own \o f[ks[2]]
                                 /\ f[ks[1]] \in Seq(Nat) /\ f[ks[2]] \in Seq(Nat)
               /\ Len(ks) = 3 => /\ f[n] = own \o f[ks[1]] \o f[ks[2]] \o f[ks[3]]
                                 /\ f[ks[1]] \in Seq(Nat)
<1> DEFINE ks == h[n].kids
           own == OwnText(h[n].tok)
           Part(k) == IF k \in DOMAIN ks THEN f[ks[k]] ELSE <<>>
<1> SUFFICES /\ Len(ks) = 0 => f[n] = own
             /\ Len(ks) = 1 => f[n] = own \o f[ks[1]] /\ f[ks[1]] \in Seq(Nat)
             /\ Len(ks) = 2 => /\ f[n] = f[ks[1]] \o own \o f[ks[2]]
                               /\ f[ks[1]] \in Seq(Nat) /\ f[ks[2]] \in Seq(Nat)
             /\ Len(ks) = 3 => /\ f[n] = own \o f[ks[1]] \o f[ks[2]] \o f[ks[3]]
                               /\ f[ks[1]] \in Seq(Nat)
  OBVIOUS
<1>1. ks \in Seq(1..n-1) /\ Len(ks) \in Nat /\ DOMAIN ks = 1..Len(ks)
  BY DEF BuiltUp
<1>2. f[n] = IF Len(ks) = 2 THEN Part(1) \o own \o Part(2)
             ELSE own \o Part(1) \o Part(2) \o Part(3)
  BY DEF IsTexts, TextsOf, OwnText
<1>3. own \in Seq(Nat)
  BY DEF BuiltUp, OwnText
<1>4. \A k \in 1..Len(ks) : Part(k) = f[ks[k]] /\ f[ks[k]] \in Seq(Nat)
  <2> TAKE k \in 1..Len(ks)
  <2>1. ks[k] \in 1..Len(h)
    BY <1>1, KidsBefore
  <2> QED
    BY <1>1, <2>1 DEF IsTexts
<1>5. \A k : k \notin 1..Len(ks) => Part(k) = <<>>
  BY <1>1
<1> HIDE DEF Part, own, ks
<1>6. CASE Len(ks) = 0
  <2>1. Part(1) = <<>> /\ Part(2) = <<>> /\ Part(3) = <<>>
    BY <1>5, <1>6
  <2> QED
    BY <1>2, <1>3, <1>6, <2>1, ConcatEmptySeq
<1>7. CASE Len(ks) = 1
  <2>1. Part(1) = f[ks[1]] /\ Part(2) = <<>> /\ Part(3) = <<>> /\ f[ks[1]] \in Seq(Nat)
    BY <1>4, <1>5, <1>7
  <2>2. own \o f[ks[1]] \in Seq(Nat)
    BY <1>3, <2>1, ConcatProperties
  <2>3. own \o f[ks[1]] \o <<>> \o <<>> = own \o f[ks[1]]
    BY <2>2, ConcatEmptySeq
  <2> QED
    <3>1. f[n] = own \o Part(1) \o Part(2) \o Part(3)
      BY <1>2, <1>7
    <3>2. f[n] = own \o f[ks[1]] \o <<>> \o <<>>
      BY <2>1, <3>1, Zenon
    <3>3. f[n] = own \o f[ks[1]]
      BY <2>3, <3>2, Zenon
    <3> QED
      BY <1>7, <2>1, <3>3
<1>8. CASE Len(ks) = 2
  <2>1. Part(1) = f[ks[1]] /\ Part(2) = f[ks[2]] /\ f[ks[1]] \in Seq(Nat) /\ f[ks[2]] \in Seq(Nat)
    BY <1>4, <1>8
  <2> QED
    <3>1. f[n] = Part(1) \o own \o Part(2)
      BY <1>2, <1>8
    <3>2. f[n] = f[ks[1]] \o own \o f[ks[2]]
      BY <2>1, <3>1, Zenon
    <3> QED
      BY <1>8, <2>1, <3>2
<1>9. CASE Len(ks) = 3
  <2>1. Part(1) = f[ks[1]] /\ Part(2) = f[ks[2]] /\ Part(3) = f[ks[3]] /\ f[ks[1]] \in Seq(Nat)
    BY <1>4, <1>9
  <2> QED
    <3>1. f[n] = own \o Part(1) \o Part(2) \o Part(3)
      BY <1>2, <1>9
    <3>2. f[n] = own \o f[ks[1]] \o f[ks[2]] \o f[ks[3]]
      BY <2>1, <3>1, Zenon
    <3> QED
      BY <1>9, <2>1, <3>2
<1> QED
  BY <1>6, <1>7, <1>8, <1>9

-----------------------------------------------------------------------------
\* A token has no sub-trees, and a text if its class has one.
PlainToken(node) ==
    node.tid = "TOKEN" =>
        /\ node.kids = <<>> /\ node.sub \in Classes
        /\ IF node.sub \in TextClasses THEN node.tok # NoText ELSE node.tok = NoText

\* That is so of all nodes.
TokensPlain == \A n \in 1..Len(nodes) : PlainToken(nodes[n])

\* A token that is shifted is plain.
LEMMA TokensShift == ParserInv /\ ParserInv' /\ Traced /\ Planted /\ Located /\ TokensPlain /\ Shift => TokensPlain'
<1> SUFFICES ASSUME ParserInv, ParserInv', Traced, Planted, Located, TokensPlain, Shift
             PROVE  TokensPlain'
  OBVIOUS
<1> DEFINE t == lookahead[1]
<1>1. PICK d : Pushed(Len(states), d, Token(t))
  BY ShiftStep
<1>2. lookahead # <<>> /\ t \in Classes
  BY ShiftStep
<1>3. t # "$end"
  BY <1>2, NoStrClass
<1>4. Len(read) > 0 /\ Len(read) \in Nat
  BY <1>2, <1>3, ShiftedCounts DEF Located, ShiftedCount
<1>5. PlainToken(Token(t))
  BY <1>2, <1>4 DEF PlainToken, Token, NoText
<1>6. nodes' = Append(nodes, Token(t))
  BY <1>1 DEF Pushed
<1> HIDE DEF t
<1>7. /\ Len(nodes) \in Nat /\ Len(nodes') = Len(nodes) + 1
      /\ \A n \in 1..Len(nodes) : nodes'[n] = nodes[n]
      /\ nodes'[Len(nodes) + 1] = Token(t)
  BY <1>6, HeapGrows
<1>8. \A n \in 1..Len(nodes') : n \in 1..Len(nodes) \/ n = Len(nodes) + 1
  BY <1>7
<1>9. \A n \in 1..Len(nodes') : PlainToken(nodes'[n])
  BY <1>5, <1>7, <1>8 DEF TokensPlain
<1> QED
  BY <1>9 DEF TokensPlain

\* A reduction makes no token.
LEMMA TokensReduce == ParserInv /\ Traced /\ Planted /\ TokensPlain /\ Reduce => TokensPlain'
<1> SUFFICES ASSUME ParserInv, Traced, Planted, TokensPlain, Reduce
             PROVE  TokensPlain'
  OBVIOUS
<1>1. PICK i, d : Reduced(i, d)
  BY ReduceStep
<1> DEFINE v == Build(Rules[i], RhsValues(i))
           p == Name(Len(states) - Len(Rules[i].rhs))
<1>2. v.tid = Rules[i].tid /\ Reduces(Top, i) /\ Reduction(i, p, d)
  BY <1>1, ReduceShape DEF Reduced
<1>3. Rules[i].tid # "TOKEN"
  <2> HIDE DEF p, v
  <2> QED
    BY <1>2, ReduceFits
<1>4. PlainToken(v)
  BY <1>2, <1>3 DEF PlainToken
<1>6. nodes' = Append(nodes, v)
  BY <1>1 DEF Reduced, RhsValues, Pushed
<1> HIDE DEF v
<1>7. /\ Len(nodes) \in Nat /\ Len(nodes') = Len(nodes) + 1
      /\ \A n \in 1..Len(nodes) : nodes'[n] = nodes[n]
      /\ nodes'[Len(nodes) + 1] = v
  BY <1>6, HeapGrows
<1>8. \A n \in 1..Len(nodes') : n \in 1..Len(nodes) \/ n = Len(nodes) + 1
  BY <1>7
<1>9. \A n \in 1..Len(nodes') : PlainToken(nodes'[n])
  BY <1>4, <1>7, <1>8 DEF TokensPlain
<1> QED
  BY <1>9 DEF TokensPlain

\* Every step keeps the tokens plain.
LEMMA TokensNext ==
    ParserInv /\ ParserInv' /\ Traced /\ Planted /\ Located /\ TokensPlain /\ [Next \/ Returned]_vars => TokensPlain'
<1>1. TokensPlain /\ UNCHANGED nodes => TokensPlain'
  BY DEF TokensPlain
<1> QED
  BY <1>1, TokensShift, TokensReduce DEF Next, Returned, Lex, Error, Accept, vars

\* So they are in every state.
LEMMA ParserTokens == Spec => []TokensPlain
<1>1. Init => TokensPlain
  <2>1. Init => Len(nodes) = 0
    BY DEF Init
  <2> QED
    BY <2>1 DEF TokensPlain
<1> QED
  BY <1>1, TokensNext, ParserInvariant, ParserTraced, ParserPlants, ParserLocates, PTL DEF Spec

-----------------------------------------------------------------------------
\* What becomes of the n symbols of rule i.
Shape(i, kids, own, n) ==
    Rules[i].kids = kids /\ Rules[i].own = own /\ Len(Rules[i].rhs) = n

\* The rules by what becomes of their right-hand sides.
LEMMA RuleShapes ==
    ASSUME NEW i, NEW c, Reduces(c, i)
    PROVE  \/ Shape(i, <<1>>, 0, 1)
           \/ Shape(i, <<>>, 1, 1) /\ i \in {31, 32, 35, 40}
           \/ Shape(i, <<>>, 0, 1) /\ i \in {4, 14}
           \/ Shape(i, <<>>, 0, 0)
           \/ Shape(i, <<1, 2>>, 0, 2)
           \/ Shape(i, <<2>>, 0, 3) /\ i \in {5, 26, 28}
           \/ Shape(i, <<1, 2, 3>>, 0, 3)
           \/ Shape(i, <<1, 5>>, 2, 5) /\ i = 3
<1>1. CASE i = 2
  <2>1. Shape(2, <<1>>, 0, 1)
    BY ProgramTrees, LiveRules DEF Tree, Sized, Shape
  <2> QED
    BY <1>1, <2>1
<1>2. CASE i = 3
  <2>1. Shape(3, <<1, 5>>, 2, 5)
    BY ProgramTrees, LiveRules DEF Tree, Sized, Shape
  <2> QED
    BY <1>2, <2>1
<1>3. CASE i = 4
  <2>1. Shape(4, <<>>, 0, 1)
    BY ProgramTrees, LiveRules DEF Tree, Sized, Shape
  <2> QED
    BY <1>3, <2>1
<1>4. CASE i = 5
  <2>1. Shape(5, <<2>>, 0, 3)
    BY ProgramTrees, LiveRules DEF Tree, Sized, Shape
  <2> QED
    BY <1>4, <2>1
<1>5. CASE i = 6
  <2>1. Shape(6, <<>>, 0, 0)
    BY ItemTrees, LiveRules DEF Tree, Sized, Shape
  <2> QED
    BY <1>5, <2>1
<1>6. CASE i = 7
  <2>1. Shape(7, <<1, 2>>, 0, 2)
    BY ItemTrees, LiveRules DEF Tree, Sized, Shape
  <2> QED
    BY <1>6, <2>1
<1>7. CASE i = 9
  <2>1. Shape(9, <<1>>, 0, 1)
    BY ItemTrees, LiveRules DEF Tree, Sized, Shape
  <2> QED
    BY <1>7, <2>1
<1>8. CASE i = 14
  <2>1. Shape(14, <<>>, 0, 1)
    BY ItemTrees, LiveRules DEF Tree, Sized, Shape
  <2> QED
    BY <1>8, <2>1
<1>9. CASE i = 26
  <2>1. Shape(26, <<2>>, 0, 3)
    BY StmtTrees, LiveRules DEF Tree, Sized, Shape
  <2> QED
    BY <1>9, <2>1
<1>10. CASE i = 27
  <2>1. Shape(27, <<1>>, 0, 1)
    BY StmtTrees, LiveRules DEF Tree, Sized, Shape
  <2> QED
    BY <1>10, <2>1
<1>11. CASE i = 28
  <2>1. Shape(28, <<2>>, 0, 3)
    BY OperandTrees, LiveRules DEF Tree, Sized, Shape
  <2> QED
    BY <1>11, <2>1
<1>12. CASE i = 29
  <2>1. Shape(29, <<1>>, 0, 1)
    BY OperandTrees, LiveRules DEF Tree, Sized, Shape
  <2> QED
    BY <1>12, <2>1
<1>13. CASE i = 30
  <2>1. Shape(30, <<1>>, 0, 1)
    BY OperandTrees, LiveRules DEF Tree, Sized, Shape
  <2> QED
    BY <1>13, <2>1
<1>14. CASE i = 31
  <2>1. Shape(31, <<>>, 1, 1)
    BY OperandTrees, LiveRules DEF Tree, Sized, Shape
  <2> QED
    BY <1>14, <2>1
<1>15. CASE i = 32
  <2>1. Shape(32, <<>>, 1, 1)
    BY OperandTrees, LiveRules DEF Tree, Sized, Shape
  <2> QED
    BY <1>15, <2>1
<1>16. CASE i = 33
  <2>1. Shape(33, <<1>>, 0, 1)
    BY OperandTrees, LiveRules DEF Tree, Sized, Shape
  <2> QED
    BY <1>16, <2>1
<1>17. CASE i = 34
  <2>1. Shape(34, <<1, 2>>, 0, 2)
    BY OperandTrees, LiveRules DEF Tree, Sized, Shape
  <2> QED
    BY <1>17, <2>1
<1>18. CASE i = 35
  <2>1. Shape(35, <<>>, 1, 1)
    BY OperandTrees, LiveRules DEF Tree, Sized, Shape
  <2> QED
    BY <1>18, <2>1
<1>19. CASE i = 36
  <2>1. Shape(36, <<1>>, 0, 1)
    BY ArithmeticTrees, LiveRules DEF Tree, Sized, Shape
  <2> QED
    BY <1>19, <2>1
<1>20. CASE i = 37
  <2>1. Shape(37, <<1, 2, 3>>, 0, 3)
    BY ArithmeticTrees, LiveRules DEF Tree, Sized, Shape
  <2> QED
    BY <1>20, <2>1
<1>21. CASE i = 38
  <2>1. Shape(38, <<1>>, 0, 1)
    BY ArithmeticTrees, LiveRules DEF Tree, Sized, Shape
  <2> QED
    BY <1>21, <2>1
<1>22. CASE i = 40
  <2>1. Shape(40, <<>>, 1, 1)
    BY ArithmeticTrees, LiveRules DEF Tree, Sized, Shape
  <2> QED
    BY <1>22, <2>1
<1>23. CASE i = 41
  <2>1. Shape(41, <<1>>, 0, 1)
    BY ChainTrees, LiveRules DEF Tree, Sized, Shape
  <2> QED
    BY <1>23, <2>1
<1>24. CASE i = 43
  <2>1. Shape(43, <<1>>, 0, 1)
    BY ChainTrees, LiveRules DEF Tree, Sized, Shape
  <2> QED
    BY <1>24, <2>1
<1>25. CASE i = 46
  <2>1. Shape(46, <<1>>, 0, 1)
    BY ChainTrees, LiveRules DEF Tree, Sized, Shape
  <2> QED
    BY <1>25, <2>1
<1>26. CASE i = 48
  <2>1. Shape(48, <<1>>, 0, 1)
    BY ChainTrees, LiveRules DEF Tree, Sized, Shape
  <2> QED
    BY <1>26, <2>1
<1>99. i = 2 \/ i = 3 \/ i = 4 \/ i = 5 \/ i = 6 \/ i = 7 \/ i = 9 \/ i = 14 \/ i = 26 \/ i = 27 \/ i = 28 \/ i = 29 \/ i = 30 \/ i = 31 \/ i = 32 \/ i = 33 \/ i = 34 \/ i = 35 \/ i = 36 \/ i = 37 \/ i = 38 \/ i = 40 \/ i = 41 \/ i = 43 \/ i = 46 \/ i = 48
  BY Zenon DEF Reduces, Ends
<1> QED
  BY <1>99, <1>1, <1>2, <1>3, <1>4, <1>5, <1>6, <1>7, <1>8, <1>9, <1>10, <1>11, <1>12, <1>13, <1>14, <1>15, <1>16, <1>17, <1>18, <1>19, <1>20, <1>21, <1>22, <1>23, <1>24, <1>25, <1>26

-----------------------------------------------------------------------------
(***************************************************************************)
(* Joining the texts of a right-hand side.                                 *)
(***************************************************************************)
\* x joins the n sequences of t, where n is the length of a right-hand side.
Spelled(t, n, x) ==
    \/ n = 0 /\ x = <<>>
    \/ n = 1 /\ x = t[1]
    \/ n = 2 /\ x = t[1] \o t[2]
    \/ n = 3 /\ x = t[1] \o t[2] \o t[3]
    \/ n = 5 /\ x = t[1] \o t[2] \o t[3] \o t[4] \o t[5]

\* An operator for the provers to keep together.
Cat(x, y) == x \o y

\* On T, joining is closed and associative.
Joining(T) == \A x, y, z \in T : Cat(x, y) \in T /\ Cat(Cat(x, y), z) = Cat(x, Cat(y, z))

\* So it is on sequences.
LEMMA SeqJoining == \A S : Joining(Seq(S))
<1> TAKE S
<1>1. \A s, t, u \in Seq(S) : (s \o t) \o u = s \o (t \o u)
  BY ConcatAssociative
<1>2. \A s, t \in Seq(S) : s \o t \in Seq(S)
  BY ConcatProperties
<1> QED
  BY <1>1, <1>2, Zenon DEF Joining, Cat

\* Two, three and five parts behind s, one after the other or at once.
LEMMA JoinedTwo ==
    ASSUME NEW T, Joining(T), NEW s \in T, NEW a \in T, NEW b \in T
    PROVE  Cat(Cat(s, a), b) = Cat(s, Cat(a, b)) /\ Cat(a, b) \in T
BY DEF Joining

\* The same for three.
LEMMA JoinedThree ==
    ASSUME NEW T, Joining(T), NEW s \in T, NEW a \in T, NEW b \in T, NEW c \in T
    PROVE  Cat(Cat(Cat(s, a), b), c) = Cat(s, Cat(Cat(a, b), c)) /\ Cat(Cat(a, b), c) \in T
BY DEF Joining

\* The same for five.
LEMMA JoinedFive ==
    ASSUME NEW T, Joining(T), NEW s \in T, NEW a \in T, NEW b \in T, NEW c \in T,
           NEW d \in T, NEW e \in T
    PROVE  /\ Cat(Cat(Cat(Cat(Cat(s, a), b), c), d), e) = Cat(s, Cat(Cat(Cat(Cat(a, b), c), d), e))
           /\ Cat(Cat(Cat(Cat(a, b), c), d), e) \in T
<1>1. Cat(Cat(Cat(s, a), b), c) = Cat(s, Cat(Cat(a, b), c)) /\ Cat(Cat(a, b), c) \in T
  BY JoinedThree
<1>2. /\ Cat(Cat(Cat(s, Cat(Cat(a, b), c)), d), e) = Cat(s, Cat(Cat(Cat(Cat(a, b), c), d), e))
      /\ Cat(Cat(Cat(Cat(a, b), c), d), e) \in T
  BY <1>1, JoinedThree
<1> QED
  BY <1>1, <1>2

\* t is the part of g behind the first p sequences.
Follows(t, g, p, n) == \A k \in 1..n : t[k] = g[p+k]

\* The parts are sequences over S.
PartsIn(g, n, S) == \A k \in 1..n : g[k] \in Seq(S)

\* No reset among the n positions behind p.
GoesOn(resets, p, n) == \A k \in 1..n : p + k \notin resets

\* What is joined on a stack up to the top, and up to a right-hand side.
Joinable(S, K, F, g, r, p, n, t, x) ==
    /\ K \in Nat /\ IsJoin(F, g, r, K) /\ PartsIn(g, K, S)
    /\ p \in Nat /\ n \in Nat /\ p + n <= K /\ GoesOn(r, p, n)
    /\ Follows(t, g, p, n) /\ Spelled(t, n, x)

\* What the join of a stack has at its top, if the right-hand side there spells x.
LEMMA JoinOfSpelled ==
    ASSUME NEW S, NEW K, NEW F, NEW g, NEW r, NEW p, NEW n, NEW t, NEW x,
           Joinable(S, K, F, g, r, p, n, t, x)
    PROVE  F[p + n] = F[p] \o x /\ x \in Seq(S)
<1> SUFFICES ASSUME K \in Nat, IsJoin(F, g, r, K), PartsIn(g, K, S),
                    p \in Nat, n \in Nat, p + n <= K, GoesOn(r, p, n),
                    Follows(t, g, p, n), Spelled(t, n, x)
             PROVE  F[p + n] = F[p] \o x /\ x \in Seq(S)
  BY DEF Joinable
<1>0. /\ \A k \in 1..K : g[k] \in Seq(S)
      /\ \A k \in 1..n : p + k \notin r
      /\ \A k \in 1..n : t[k] = g[p+k]
  BY DEF PartsIn, GoesOn, Follows
<1>1. F[p] \in Seq(S)
  <2>1. p \in 0..K
    OBVIOUS
  <2> QED
    BY <1>0, <2>1, JoinTyped
<1>2. \A k \in 1..n : F[p+k] = F[p+(k-1)] \o t[k] /\ t[k] \in Seq(S)
  <2> TAKE k \in 1..n
  <2>1. p + k \in 1..K /\ (p + k) - 1 = p + (k - 1)
    OBVIOUS
  <2> DEFINE q == p + k
  <2>2. F[q] = F[q - 1] \o g[q] /\ g[q] \in Seq(S)
    <3>1. q \in 1..K /\ q \notin r
      BY <1>0, <2>1
    <3> HIDE DEF q
    <3> QED
      BY <1>0, <3>1 DEF IsJoin
  <2> QED
    BY <1>0, <2>1, <2>2
<1> DEFINE At0(k) == F[p+k]
<1>3. \A k \in 1..n : At0(k) = At0(k-1) \o t[k] /\ t[k] \in Seq(S)
  BY <1>2
<1>4. At0(0) = F[p]
  OBVIOUS
<1> SUFFICES At0(n) = F[p] \o x /\ x \in Seq(S)
  OBVIOUS
<1> HIDE DEF At0
<1>5. CASE n = 0 /\ x = <<>>
  BY <1>1, <1>4, <1>5, ConcatEmptySeq
<1>6. CASE n = 1 /\ x = t[1]
  <2>1. At0(1) = At0(0) \o t[1] /\ t[1] \in Seq(S)
    <3>1. 1 \in 1..n /\ 1 - 1 = 0
      BY <1>6
    <3> QED
      BY <1>3, <3>1, Zenon
  <2> QED
    BY <1>4, <1>6, <2>1, Zenon
<1>7. CASE n = 2 /\ x = t[1] \o t[2]
  <2>1. At0(1) = At0(0) \o t[1] /\ At0(2) = At0(1) \o t[2] /\ t[1] \in Seq(S) /\ t[2] \in Seq(S)
    BY <1>3, <1>7
  <2>2. At0(2) = F[p] \o t[1] \o t[2]
    BY <1>4, <2>1, Zenon
  <2>3. At0(2) = F[p] \o x /\ x \in Seq(S)
    <3> DEFINE s == F[p]
               a == t[1]
               b == t[2]
    <3>1. s \in Seq(S) /\ a \in Seq(S) /\ b \in Seq(S)
      BY <1>1, <2>1
    <3>2. At0(2) = s \o a \o b /\ x = a \o b
      BY <1>7, <2>2
    <3> HIDE DEF s, a, b
    <3>3. Cat(Cat(s, a), b) = Cat(s, Cat(a, b)) /\ Cat(a, b) \in Seq(S)
      BY <3>1, SeqJoining, JoinedTwo
    <3>4. s \o a \o b = s \o (a \o b) /\ a \o b \in Seq(S)
      BY <3>3, Zenon DEF Cat
    <3> QED
      BY <3>2, <3>4, Zenon DEF s
  <2> QED
    BY <1>7, <2>3
<1>8. CASE n = 3 /\ x = t[1] \o t[2] \o t[3]
  <2>1. /\ At0(1) = At0(0) \o t[1] /\ At0(2) = At0(1) \o t[2] /\ At0(3) = At0(2) \o t[3]
        /\ t[1] \in Seq(S) /\ t[2] \in Seq(S) /\ t[3] \in Seq(S)
    <3>1. 1 \in 1..n /\ 1 - 1 = 0 /\ 2 \in 1..n /\ 2 - 1 = 1 /\ 3 \in 1..n /\ 3 - 1 = 2
      BY <1>8
    <3> QED
      BY <1>3, <3>1, Zenon
  <2>2. At0(3) = F[p] \o t[1] \o t[2] \o t[3]
    BY <1>4, <2>1, Zenon
  <2>3. At0(3) = F[p] \o x /\ x \in Seq(S)
    <3> DEFINE s == F[p]
               a == t[1]
               b == t[2]
               c == t[3]
    <3>1. s \in Seq(S) /\ a \in Seq(S) /\ b \in Seq(S) /\ c \in Seq(S)
      BY <1>1, <2>1
    <3>2. At0(3) = s \o a \o b \o c /\ x = a \o b \o c
      BY <1>8, <2>2
    <3> HIDE DEF s, a, b, c
    <3>3. Cat(Cat(Cat(s, a), b), c) = Cat(s, Cat(Cat(a, b), c)) /\ Cat(Cat(a, b), c) \in Seq(S)
      BY <3>1, SeqJoining, JoinedThree
    <3>4. s \o a \o b \o c = s \o (a \o b \o c) /\ a \o b \o c \in Seq(S)
      BY <3>3, Zenon DEF Cat
    <3> QED
      BY <3>2, <3>4, Zenon DEF s
  <2> QED
    BY <1>8, <2>3
<1>9. CASE n = 5 /\ x = t[1] \o t[2] \o t[3] \o t[4] \o t[5]
  <2>1. /\ At0(1) = At0(0) \o t[1] /\ At0(2) = At0(1) \o t[2] /\ At0(3) = At0(2) \o t[3]
        /\ At0(4) = At0(3) \o t[4] /\ At0(5) = At0(4) \o t[5]
    <3>1. /\ 1 \in 1..n /\ 1 - 1 = 0 /\ 2 \in 1..n /\ 2 - 1 = 1 /\ 3 \in 1..n /\ 3 - 1 = 2
          /\ 4 \in 1..n /\ 4 - 1 = 3 /\ 5 \in 1..n /\ 5 - 1 = 4
      BY <1>9
    <3> QED
      BY <1>3, <3>1, Zenon
  <2>2. t[1] \in Seq(S) /\ t[2] \in Seq(S) /\ t[3] \in Seq(S) /\ t[4] \in Seq(S) /\ t[5] \in Seq(S)
    BY <1>3, <1>9
  <2>3. At0(5) = F[p] \o t[1] \o t[2] \o t[3] \o t[4] \o t[5]
    BY <1>4, <2>1, Zenon
  <2>4. At0(5) = F[p] \o x /\ x \in Seq(S)
    <3> DEFINE s == F[p]
               a == t[1]
               b == t[2]
               c == t[3]
               d == t[4]
               e == t[5]
    <3>1. s \in Seq(S) /\ a \in Seq(S) /\ b \in Seq(S) /\ c \in Seq(S) /\ d \in Seq(S) /\ e \in Seq(S)
      BY <1>1, <2>2
    <3>2. At0(5) = s \o a \o b \o c \o d \o e /\ x = a \o b \o c \o d \o e
      BY <1>9, <2>3
    <3> HIDE DEF s, a, b, c, d, e
    <3>3. Cat(Cat(Cat(Cat(Cat(s, a), b), c), d), e) = Cat(s, Cat(Cat(Cat(Cat(a, b), c), d), e)) /\ Cat(Cat(Cat(Cat(a, b), c), d), e) \in Seq(S)
      BY <3>1, SeqJoining, JoinedFive
    <3>4. s \o a \o b \o c \o d \o e = s \o (a \o b \o c \o d \o e) /\ a \o b \o c \o d \o e \in Seq(S)
      BY <3>3, Zenon DEF Cat
    <3> QED
      BY <3>2, <3>4, Zenon DEF s
  <2> QED
    BY <1>9, <2>4
<1> QED
  BY <1>5, <1>6, <1>7, <1>8, <1>9 DEF Spelled

-----------------------------------------------------------------------------
\* The states above a token without a text.
SilentStates == {33, 34, 41, 51, 53, 131, 141, 261, 263, 281, 283}

\* The states above a token with one.
NamedStates == {32, 171, 311, 321, 351, 401}

\* The rules that have a text of their own end in these states.
LEMMA NamedReduces ==
    ASSUME NEW c, NEW i \in {31, 32, 35, 40}, Reduces(c, i)
    PROVE  c \in NamedStates
BY DEF Reduces, Ends, NamedStates

\* The tokens of these states have no text, and have one.
LEMMA TokensByState ==
    ASSUME NEW c, NEW node, Fits(c, node)
    PROVE  /\ c \in SilentStates => node.tid = "TOKEN" /\ node.sub \notin TextClasses
           /\ c \in NamedStates => node.tid = "TOKEN" /\ node.sub \in TextClasses
<1>1. c \in SilentStates \cup NamedStates => \A tid : ~HoldsNode(c, tid)
  BY DEF HoldsNode, SilentStates, NamedStates
<1>2. c \in SilentStates \cup NamedStates => node.tid = "TOKEN" /\ HoldsToken(c, node.sub)
  BY <1>1 DEF Fits
<1>3. /\ OpenBlock \notin TextClasses /\ CloseBlock \notin TextClasses /\ Semicolon \notin TextClasses
  BY Zenon DEF OpenBlock, CloseBlock, Semicolon, TextClasses
<1>4. "INT" \notin TextClasses /\ "(" \notin TextClasses /\ ")" \notin TextClasses
      /\ "CONST" \notin TextClasses /\ "RETURN" \notin TextClasses
  BY DEF TextClasses
<1>5. ASSUME NEW t, HoldsToken(c, t), c \in SilentStates PROVE t \notin TextClasses
  <2>1. t \in {"INT", "(", ")", OpenBlock, CloseBlock, Semicolon, "CONST", "RETURN"}
    BY <1>5 DEF HoldsToken, SilentStates
  <2> QED
    BY <1>3, <1>4, <2>1
<1>6. ASSUME NEW t, HoldsToken(c, t), c \in NamedStates PROVE t \in TextClasses
  BY <1>6 DEF HoldsToken, NamedStates, TextClasses
<1> QED
  BY <1>2, <1>5, <1>6

\* The texts of a token.
LEMMA TextsOfToken ==
    ASSUME TextsDefined, TokensPlain, NEW n \in 1..Len(nodes), nodes[n].tid = "TOKEN"
    PROVE  /\ Texts[n] = OwnText(nodes[n].tok)
           /\ nodes[n].sub \notin TextClasses => Texts[n] = <<>>
<1>1. nodes[n].kids = <<>> /\ (nodes[n].sub \notin TextClasses => nodes[n].tok = NoText)
  BY DEF TokensPlain, PlainToken
<1>2. Len(nodes[n].kids) = 0
  BY <1>1
<1>3. Texts[n] = OwnText(nodes[n].tok)
  <2> DEFINE h == nodes
             f == Texts
  <2>1. BuiltUp(h) /\ IsTexts(h, f) /\ n \in 1..Len(h)
    BY DEF TextsDefined
  <2> HIDE DEF h, f
  <2>2. Len(h[n].kids) = 0 => f[n] = OwnText(h[n].tok)
    BY <2>1, TextsByKids
  <2> QED
    BY <1>2, <2>2 DEF h, f
<1> QED
  BY <1>1, <1>3 DEF OwnText

\* The new node of a reduction has the texts of the values that it is built from.
LEMMA ReducedTexts ==
    ASSUME ParserInv, Traced, Planted, TokensPlain, TextsDefined, TextsDefined',
           NEW i, NEW d, Reduced(i, d),
           nodes' = Append(nodes, Build(Rules[i], RhsValues(i))),
           NEW t, \A k \in 1..Len(Rules[i].rhs) : t[k] = Texts[RhsValues(i)[k]]
    PROVE  Spelled(t, Len(Rules[i].rhs), Texts'[Len(nodes) + 1])
<1> DEFINE rhs == RhsValues(i)
           rule == Rules[i]
           v == Build(rule, rhs)
           N == Len(nodes)
           S == 1..N
           n == Len(Rules[i].rhs)
           new == Texts'[N + 1]
<1> SUFFICES Spelled(t, n, new)
  OBVIOUS
<1>1. /\ rhs \in Seq(S) /\ Len(rhs) = n
      /\ n = 1 => Fits(Top, nodes[rhs[1]])
      /\ n > 1 => \A k \in 1..n : Fits(10 * i + k, nodes[rhs[k]])
  BY RhsFacts
<1>2. Reduces(Top, i)
  BY DEF Reduced
<1>3. rule.kids \in Seq(1..n) /\ rule.own \in 0..n /\ n \in Nat
  BY <1>2, LiveKids
<1>4. /\ Len(v.kids) = Len(rule.kids)
      /\ \A k \in 1..Len(rule.kids) : v.kids[k] = rhs[rule.kids[k]]
      /\ v.tok = IF rule.own = 0 THEN NoText ELSE nodes[rhs[rule.own]].tok
  <2> HIDE DEF n, S, rhs, rule, v
  <2>1. rule.kids \in Seq(1..Len(rhs))
    BY <1>1, <1>3
  <2>2. rhs \in Seq(S)
    BY <1>1
  <2> QED
    BY <2>1, <2>2, BuildFacts DEF v
<1>5. N \in Nat /\ nodes'[N + 1] = v /\ Len(nodes') = N + 1
  BY HeapGrows
<1>6. \A k \in 1..n : rhs[k] \in 1..N
  <2> HIDE DEF n, S, rhs
  <2>1. \A k \in 1..n : rhs[k] \in S
    BY <1>1, <1>3
  <2> QED
    BY <2>1 DEF S
<1>7. \A k \in 1..N : Texts'[k] = Texts[k]
  <2>1. \A k \in 1..N : nodes'[k] = nodes[k]
    BY HeapGrows
  <2>2. BuiltUp(nodes) /\ IsTexts(nodes, Texts) /\ IsTexts(nodes', Texts')
    BY DEF TextsDefined
  <2>3. Len(nodes') \in Nat /\ Len(nodes') >= Len(nodes)
    BY <1>5
  <2> DEFINE h == nodes
             h2 == nodes'
             f1 == Texts
             f2 == Texts'
  <2>4. /\ BuiltUp(h) /\ IsTexts(h, f1) /\ IsTexts(h2, f2) /\ \A k \in 1..Len(h) : h2[k] = h[k]
        /\ Len(h2) \in Nat /\ Len(h2) >= Len(h)
    BY <2>1, <2>2, <2>3
  <2> HIDE DEF h, h2, f1, f2
  <2>5. \A k \in 1..Len(h) : f2[k] = f1[k]
    BY <2>4, TextsAgree
  <2> QED
    BY <2>5 DEF h, f1, f2
<1>8. \A k \in 1..n : Texts'[rhs[k]] = t[k] /\ t[k] = Texts[rhs[k]] /\ t[k] \in Seq(Nat)
  <2> TAKE k \in 1..n
  <2>1. rhs[k] \in 1..N
    BY <1>6
  <2>2. t[k] = Texts[rhs[k]]
    OBVIOUS
  <2>3. Texts[rhs[k]] \in Seq(Nat)
    BY <2>1 DEF TextsDefined, IsTexts
  <2> QED
    BY <1>7, <2>1, <2>2, <2>3
<1> DEFINE ks == v.kids
           own == OwnText(v.tok)
           f == Texts'
<1>9. /\ Len(ks) = 0 => new = own
      /\ Len(ks) = 1 => new = own \o f[ks[1]] /\ f[ks[1]] \in Seq(Nat)
      /\ Len(ks) = 2 => /\ new = f[ks[1]] \o own \o f[ks[2]]
                        /\ f[ks[1]] \in Seq(Nat) /\ f[ks[2]] \in Seq(Nat)
      /\ Len(ks) = 3 => /\ new = own \o f[ks[1]] \o f[ks[2]] \o f[ks[3]]
                        /\ f[ks[1]] \in Seq(Nat)
  <2>1. BuiltUp(nodes') /\ IsTexts(nodes', Texts')
    BY DEF TextsDefined
  <2>2. N + 1 \in 1..Len(nodes')
    BY <1>5
  <2>3. nodes'[N + 1] = v
    BY <1>5
  <2> HIDE DEF v, N
  <2> DEFINE h == nodes'
             z == N + 1
  <2>4. BuiltUp(h) /\ IsTexts(h, f) /\ z \in 1..Len(h) /\ h[z] = v
    BY <2>1, <2>2, <2>3
  <2> HIDE DEF h, z, f
  <2>5. LET ks2 == h[z].kids
            own2 == OwnText(h[z].tok)
        IN  /\ Len(ks2) = 0 => f[z] = own2
            /\ Len(ks2) = 1 => f[z] = own2 \o f[ks2[1]] /\ f[ks2[1]] \in Seq(Nat)
            /\ Len(ks2) = 2 => /\ f[z] = f[ks2[1]] \o own2 \o f[ks2[2]]
                              /\ f[ks2[1]] \in Seq(Nat) /\ f[ks2[2]] \in Seq(Nat)
            /\ Len(ks2) = 3 => /\ f[z] = own2 \o f[ks2[1]] \o f[ks2[2]] \o f[ks2[3]]
                              /\ f[ks2[1]] \in Seq(Nat)
    BY <2>4, TextsByKids
  <2> QED
    BY <2>4, <2>5, Zenon DEF f, z
<1> HIDE DEF n, rhs, rule, v, N, S, new, f, ks, own
<1>10. /\ Len(ks) = Len(rule.kids)
       /\ \A k \in 1..Len(rule.kids) : ks[k] = rhs[rule.kids[k]]
       /\ rule.own = 0 => own = <<>>
  BY <1>4 DEF ks, own, OwnText
<1>11. \A k \in 1..n : f[rhs[k]] = t[k] /\ t[k] \in Seq(Nat)
  BY <1>8 DEF f
<1>12. ASSUME NEW c \in SilentStates, NEW k \in 1..n, Fits(c, nodes[rhs[k]]) PROVE t[k] = <<>>
  <2>1. nodes[rhs[k]].tid = "TOKEN" /\ nodes[rhs[k]].sub \notin TextClasses
    BY <1>12, TokensByState
  <2>2. rhs[k] \in 1..Len(nodes)
    BY <1>6 DEF N
  <2>3. Texts[rhs[k]] = <<>>
    BY <2>1, <2>2, TextsOfToken
  <2> QED
    BY <1>8, <2>3
<1>13. ASSUME NEW c \in NamedStates, NEW k \in 1..n, Fits(c, nodes[rhs[k]])
       PROVE  t[k] = OwnText(nodes[rhs[k]].tok)
  <2>1. nodes[rhs[k]].tid = "TOKEN"
    BY <1>13, TokensByState
  <2>2. rhs[k] \in 1..Len(nodes)
    BY <1>6 DEF N
  <2>3. Texts[rhs[k]] = OwnText(nodes[rhs[k]].tok)
    BY <2>1, <2>2, TextsOfToken
  <2> QED
    BY <1>8, <2>3
<1>14. CASE Shape(i, <<1>>, 0, 1)
  <2>1. rule.kids = <<1>> /\ rule.own = 0 /\ n = 1
    BY <1>14 DEF Shape, rule, n
  <2>2. Len(ks) = 1 /\ ks[1] = rhs[1]
    <3> DEFINE rk == rule.kids
    <3>1. Len(ks) = Len(rk) /\ \A k \in 1..Len(rk) : ks[k] = rhs[rk[k]]
      BY <1>10
    <3>2. rk = <<1>>
      BY <2>1
    <3> HIDE DEF rk
    <3> QED
      BY <3>1, <3>2
  <2>3. f[ks[1]] = t[1] /\ t[1] \in Seq(Nat)
    BY <1>11, <2>1, <2>2
  <2>4. new = <<>> \o t[1]
    BY <1>9, <1>10, <2>1, <2>2, <2>3
  <2>5. new = t[1]
    BY <2>3, <2>4, ConcatEmptySeq
  <2> QED
    BY <2>1, <2>5 DEF Spelled
<1>15. CASE Shape(i, <<>>, 1, 1) /\ i \in {31, 32, 35, 40}
  <2>1. rule.kids = <<>> /\ rule.own = 1 /\ n = 1
    BY <1>15 DEF Shape, rule, n
  <2>2. Len(ks) = 0
    <3>1. Len(ks) = Len(rule.kids)
      BY <1>10
    <3> QED
      BY <2>1, <3>1
  <2>3. Top \in NamedStates
    BY <1>2, <1>15, NamedReduces
  <2>4. t[1] = OwnText(nodes[rhs[1]].tok)
    BY <1>1, <1>13, <2>1, <2>3
  <2>5. v.tok = nodes[rhs[1]].tok
    BY <1>4, <2>1
  <2>6. new = t[1]
    BY <1>9, <2>2, <2>4, <2>5 DEF own
  <2> QED
    BY <2>1, <2>6 DEF Spelled
<1>16. CASE Shape(i, <<>>, 0, 1) /\ i \in {4, 14}
  <2>1. rule.kids = <<>> /\ rule.own = 0 /\ n = 1
    BY <1>16 DEF Shape, rule, n
  <2>2. Len(ks) = 0
    <3>1. Len(ks) = Len(rule.kids)
      BY <1>10
    <3> QED
      BY <2>1, <3>1
  <2>3. Top \in SilentStates
    BY <1>2, <1>16 DEF Reduces, Ends, SilentStates
  <2>4. t[1] = <<>>
    BY <1>1, <1>12, <2>1, <2>3
  <2>5. new = <<>>
    BY <1>9, <1>10, <2>1, <2>2
  <2> QED
    BY <2>1, <2>4, <2>5 DEF Spelled
<1>17. CASE Shape(i, <<>>, 0, 0)
  <2>1. rule.kids = <<>> /\ rule.own = 0 /\ n = 0
    BY <1>17 DEF Shape, rule, n
  <2>2. Len(ks) = 0
    <3>1. Len(ks) = Len(rule.kids)
      BY <1>10
    <3> QED
      BY <2>1, <3>1
  <2>5. new = <<>>
    BY <1>9, <1>10, <2>1, <2>2
  <2> QED
    BY <2>1, <2>5 DEF Spelled
<1>18. CASE Shape(i, <<1, 2>>, 0, 2)
  <2>1. rule.kids = <<1, 2>> /\ rule.own = 0 /\ n = 2
    BY <1>18 DEF Shape, rule, n
  <2>2. Len(ks) = 2 /\ ks[1] = rhs[1] /\ ks[2] = rhs[2]
    <3> DEFINE rk == rule.kids
    <3>1. Len(ks) = Len(rk) /\ \A k \in 1..Len(rk) : ks[k] = rhs[rk[k]]
      BY <1>10
    <3>2. rk = <<1, 2>>
      BY <2>1
    <3> HIDE DEF rk
    <3> QED
      BY <3>1, <3>2
  <2>3. f[ks[1]] = t[1] /\ t[1] \in Seq(Nat) /\ f[ks[2]] = t[2] /\ t[2] \in Seq(Nat)
    BY <1>11, <2>1, <2>2
  <2>4. new = f[ks[1]] \o <<>> \o f[ks[2]]
    BY <1>9, <1>10, <2>1, <2>2
  <2>5. t[1] \o <<>> = t[1]
    BY <2>3, ConcatEmptySeq
  <2>6. new = t[1] \o t[2]
    BY <2>3, <2>4, <2>5, Zenon
  <2> QED
    BY <2>1, <2>6 DEF Spelled
<1>19. CASE Shape(i, <<2>>, 0, 3) /\ i \in {5, 26, 28}
  <2>1. rule.kids = <<2>> /\ rule.own = 0 /\ n = 3
    BY <1>19 DEF Shape, rule, n
  <2>2. Len(ks) = 1 /\ ks[1] = rhs[2]
    <3> DEFINE rk == rule.kids
    <3>1. Len(ks) = Len(rk) /\ \A k \in 1..Len(rk) : ks[k] = rhs[rk[k]]
      BY <1>10
    <3>2. rk = <<2>>
      BY <2>1
    <3> HIDE DEF rk
    <3> QED
      BY <3>1, <3>2
  <2>3. f[ks[1]] = t[2] /\ t[2] \in Seq(Nat)
    BY <1>11, <2>1, <2>2
  <2>4. 10 * i + 1 \in SilentStates /\ 10 * i + 3 \in SilentStates
    BY <1>19 DEF SilentStates
  <2>5. t[1] = <<>> /\ t[3] = <<>>
    <3>1. Fits(10 * i + 1, nodes[rhs[1]]) /\ Fits(10 * i + 3, nodes[rhs[3]])
      BY <1>1, <2>1
    <3>2. 1 \in 1..n /\ 3 \in 1..n
      BY <2>1
    <3> QED
      BY <1>12, <2>4, <3>1, <3>2
  <2>6. new = <<>> \o t[2]
    BY <1>9, <1>10, <2>1, <2>2, <2>3
  <2>7. new = t[2]
    BY <2>3, <2>6, ConcatEmptySeq
  <2>8. <<>> \o t[2] \o <<>> = t[2]
    BY <2>3, ConcatEmptySeq
  <2>9. new = t[1] \o t[2] \o t[3]
    BY <2>5, <2>7, <2>8, Zenon
  <2> QED
    BY <2>1, <2>9 DEF Spelled
<1>20. CASE Shape(i, <<1, 2, 3>>, 0, 3)
  <2>1. rule.kids = <<1, 2, 3>> /\ rule.own = 0 /\ n = 3
    BY <1>20 DEF Shape, rule, n
  <2>2. Len(ks) = 3 /\ ks[1] = rhs[1] /\ ks[2] = rhs[2] /\ ks[3] = rhs[3]
    <3> DEFINE rk == rule.kids
    <3>1. Len(ks) = Len(rk) /\ \A k \in 1..Len(rk) : ks[k] = rhs[rk[k]]
      BY <1>10
    <3>2. rk = <<1, 2, 3>>
      BY <2>1
    <3> HIDE DEF rk
    <3> QED
      BY <3>1, <3>2
  <2>3. f[ks[1]] = t[1] /\ t[1] \in Seq(Nat) /\ f[ks[2]] = t[2] /\ t[2] \in Seq(Nat) /\ f[ks[3]] = t[3] /\ t[3] \in Seq(Nat)
    BY <1>11, <2>1, <2>2
  <2>4. new = <<>> \o f[ks[1]] \o f[ks[2]] \o f[ks[3]]
    BY <1>9, <1>10, <2>1, <2>2
  <2>5. <<>> \o t[1] = t[1]
    BY <2>3, ConcatEmptySeq
  <2>6. new = t[1] \o t[2] \o t[3]
    BY <2>3, <2>4, <2>5, Zenon
  <2> QED
    BY <2>1, <2>6 DEF Spelled
<1>21. CASE Shape(i, <<1, 5>>, 2, 5) /\ i = 3
  <2>1. rule.kids = <<1, 5>> /\ rule.own = 2 /\ n = 5
    BY <1>21 DEF Shape, rule, n
  <2>2. Len(ks) = 2 /\ ks[1] = rhs[1] /\ ks[2] = rhs[5]
    <3> DEFINE rk == rule.kids
    <3>1. Len(ks) = Len(rk) /\ \A k \in 1..Len(rk) : ks[k] = rhs[rk[k]]
      BY <1>10
    <3>2. rk = <<1, 5>>
      BY <2>1
    <3> HIDE DEF rk
    <3> QED
      BY <3>1, <3>2
  <2>3. f[ks[1]] = t[1] /\ t[1] \in Seq(Nat) /\ f[ks[2]] = t[5] /\ t[5] \in Seq(Nat)
    BY <1>11, <2>1, <2>2
  <2>4. 10 * i + 2 = 32 /\ 10 * i + 3 = 33 /\ 10 * i + 4 = 34
    BY <1>21
  <2>5. /\ Fits(32, nodes[rhs[2]]) /\ Fits(33, nodes[rhs[3]]) /\ Fits(34, nodes[rhs[4]])
        /\ 2 \in 1..n /\ 3 \in 1..n /\ 4 \in 1..n
    BY <1>1, <2>1, <2>4
  <2>6. 32 \in NamedStates /\ 33 \in SilentStates /\ 34 \in SilentStates
    BY DEF NamedStates, SilentStates
  <2>7. t[2] = OwnText(nodes[rhs[2]].tok) /\ t[3] = <<>> /\ t[4] = <<>>
    BY <1>12, <1>13, <2>5, <2>6
  <2>8. v.tok = nodes[rhs[2]].tok
    BY <1>4, <2>1
  <2>9. new = f[ks[1]] \o own \o f[ks[2]]
    BY <1>9, <2>2
  <2>10. new = t[1] \o t[2] \o t[5]
    BY <2>3, <2>7, <2>8, <2>9, Zenon DEF own
  <2>11. t[2] \in Seq(Nat)
    BY <1>11, <2>5
  <2>12. t[1] \o t[2] \in Seq(Nat)
    BY <2>3, <2>11, ConcatProperties
  <2>13. t[1] \o t[2] \o <<>> \o <<>> = t[1] \o t[2]
    BY <2>12, ConcatEmptySeq
  <2>14. new = t[1] \o t[2] \o t[3] \o t[4] \o t[5]
    BY <2>7, <2>10, <2>13, Zenon
  <2> QED
    BY <2>1, <2>14 DEF Spelled
<1> QED
  BY <1>2, <1>14, <1>15, <1>16, <1>17, <1>18, <1>19, <1>20, <1>21, RuleShapes

-----------------------------------------------------------------------------
(***************************************************************************)
(* The texts on the stack are those that were read.                        *)
(***************************************************************************)
\* Texts do not change when the heap grows.
LEMMA TextsStay ==
    ASSUME Planted, Planted', NEW v, nodes' = Append(nodes, v)
    PROVE  \A n \in 1..Len(nodes) : Texts'[n] = Texts[n]
<1> DEFINE h == nodes
           h2 == nodes'
           f1 == Texts
           f2 == Texts'
<1>1. /\ Len(nodes) \in Nat /\ Len(nodes') = Len(nodes) + 1
      /\ \A k \in 1..Len(nodes) : nodes'[k] = nodes[k]
  BY HeapGrows
<1>2. BuiltUp(h) /\ IsTexts(h, f1) /\ IsTexts(h2, f2)
  BY TextsHold, TextsHoldNext DEF TextsDefined
<1>3. /\ \A k \in 1..Len(h) : h2[k] = h[k]
      /\ Len(h2) \in Nat /\ Len(h2) >= Len(h)
  BY <1>1
<1> HIDE DEF h, h2, f1, f2
<1>4. \A k \in 1..Len(h) : f2[k] = f1[k]
  BY <1>2, <1>3, TextsAgree
<1> QED
  BY <1>4 DEF h, f1, f2

\* What a push makes of the texts on the stack.
LEMMA StackAfterPush ==
    ASSUME ParserInv, ParserInv', Planted, Planted',
           NEW m \in 1..Len(states), NEW d, NEW v, Pushed(m, d, v)
    PROVE  StackTexts'[Len(values')] = StackTexts[m - 1] \o Texts'[Len(nodes) + 1]
<1>1. /\ Len(values') = m /\ nodes' = Append(nodes, v) /\ values'[m] = Len(nodes) + 1
      /\ \A k \in 1..m - 1 : values'[k] = values[k]
  BY DEF Pushed
<1>2. m \in Nat /\ m >= 1 /\ Len(states) = Len(values) + 1 /\ Len(values) \in Nat
  BY DEF ParserInv, ParserTypeOK, StackShape, Linked
<1> DEFINE F == StackTexts
           G == StackTexts'
           g == ValueTexts
           g2 == ValueTexts'
           T2 == Texts'
<1>3. /\ IsJoin(F, g, {}, Len(values)) /\ \A k \in 1..Len(values) : g[k] = Texts[values[k]]
  BY StackHolds DEF StackDefined
<1>4. /\ IsJoin(G, g2, {}, Len(values')) /\ \A k \in 1..Len(values') : g2[k] = T2[values'[k]]
  BY StackHoldsNext DEF StackDefined
<1>5. \A n \in 1..Len(nodes) : T2[n] = Texts[n]
  BY <1>1, TextsStay
<1> HIDE DEF F, G, g, g2, T2
<1>6. \A k \in 1..m - 1 : g[k] = g2[k]
  <2> TAKE k \in 1..m - 1
  <2>1. k \in 1..Len(values) /\ k \in 1..Len(values')
    BY <1>1, <1>2
  <2>2. values[k] \in 1..Len(nodes)
    BY <2>1 DEF Planted
  <2> QED
    BY <1>1, <1>3, <1>4, <1>5, <2>1, <2>2
<1>7. IsJoin(F, g, {}, m - 1) /\ IsJoin(G, g2, {}, m - 1)
  <2>1. \A k \in 1..m - 1 : k \in 1..Len(values) /\ k \in 1..Len(values')
    BY <1>1, <1>2
  <2> QED
    BY <1>3, <1>4, <2>1 DEF IsJoin
<1>8. F[m - 1] = G[m - 1]
  <2>1. m - 1 \in Nat /\ m - 1 \in 0..m - 1
    BY <1>2
  <2>2. \A k \in 0..m - 1 : F[k] = G[k]
    BY <1>6, <1>7, <2>1, JoinsAgree
  <2> QED
    BY <2>1, <2>2
<1>9. G[m] = G[m - 1] \o g2[m] /\ g2[m] = T2[Len(nodes) + 1]
  <2>1. m \in 1..Len(values') /\ m \notin {}
    BY <1>1, <1>2
  <2> QED
    BY <1>1, <1>4, <2>1 DEF IsJoin
<1>10. G[Len(values')] = F[m - 1] \o T2[Len(nodes) + 1]
  BY <1>1, <1>8, <1>9
<1> QED
  BY <1>10 DEF F, G, T2

\* The texts of what was read stay, whatever is read.
LEMMA ReadTextsStay ==
    ASSUME ParserInv, ParserInv', Len(read') >= Len(read),
           \A n \in 1..Len(read) : read'[n] = read[n]
    PROVE  \A n \in 0..Len(read) : ReadTexts'[n] = ReadTexts[n]
<1> DEFINE F == ReadTexts
           G == ReadTexts'
           g == TokenTexts
           g2 == TokenTexts'
           L == Len(read)
<1>1. /\ IsJoin(F, g, {}, L) /\ L \in Nat
      /\ \A k \in 1..L : g[k] = IF read[k] \in TextClasses THEN <<k>> ELSE <<>>
  BY ReadHolds DEF ReadDefined, TokenText
<1>2. /\ IsJoin(G, g2, {}, Len(read')) /\ Len(read') \in Nat
      /\ \A k \in 1..Len(read') : g2[k] = IF read'[k] \in TextClasses THEN <<k>> ELSE <<>>
  BY ReadHoldsNext DEF ReadDefined, TokenText
<1> HIDE DEF F, G, g, g2
<1>3. \A k \in 1..L : k \in 1..Len(read')
  BY <1>1, <1>2
<1>4. \A k \in 1..L : g2[k] = g[k]
  BY <1>1, <1>2, <1>3
<1>5. IsJoin(G, g2, {}, L)
  BY <1>2, <1>3 DEF IsJoin
<1> HIDE DEF L
<1>6. \A n \in 0..L : G[n] = F[n]
  BY <1>1, <1>4, <1>5, JoinsAgree
<1> QED
  BY <1>6 DEF F, G, L

\* Reading a token leaves the texts of the shifted ones as they were.
LEMMA SpellsLex == ParserInv /\ ParserInv' /\ Planted /\ Planted' /\ TreesSpellProgram /\ Lex => TreesSpellProgram'
<1> SUFFICES ASSUME ParserInv, ParserInv', Planted, Planted', TreesSpellProgram, Lex PROVE TreesSpellProgram'
  OBVIOUS
<1>1. ShiftedCount /\ ShiftedCount'
  BY ShiftedCounts, ShiftedCountsNext
<1>2. values' = values /\ nodes' = nodes /\ lookahead = <<>>
  BY DEF Lex
<1>3. Shifted' = Shifted /\ Shifted = Len(read) /\ Len(read) \in Nat /\ Len(read') >= Len(read)
      /\ \A j \in 1..Len(read) : read'[j] = read[j]
  <2>1. CASE read' = read /\ lookahead' = <<"$end">>
    BY <1>1, <1>2, <2>1 DEF ShiftedCount
  <2>2. ASSUME NEW c \in Classes, read' = Append(read, c), lookahead' = <<c>>
        PROVE  Shifted' = Shifted /\ Shifted = Len(read) /\ Len(read) \in Nat /\ Len(read') >= Len(read)
               /\ \A j \in 1..Len(read) : read'[j] = read[j]
    <3>1. c # "$end"
      BY NoStrClass
    <3>2. read \in Seq(Classes)
      BY DEF ParserInv, ParserTypeOK
    <3>3. Len(read') = Len(read) + 1 /\ \A j \in 1..Len(read) : read'[j] = read[j]
      BY <2>2, <3>2
    <3>4. lookahead' # <<>> /\ (lookahead[1])' # "$end"
      BY <2>2, <3>1
    <3> QED
      BY <1>1, <1>2, <3>3, <3>4 DEF ShiftedCount
  <2> QED
    BY <2>1, <2>2 DEF Lex
<1>4. ReadTexts'[Shifted'] = ReadTexts[Shifted]
  <2>1. \A n \in 0..Len(read) : ReadTexts'[n] = ReadTexts[n]
    BY <1>3, ReadTextsStay
  <2>2. Len(read) \in 0..Len(read)
    BY <1>3
  <2> QED
    BY <1>3, <2>1, <2>2
<1>5. Texts' = Texts
  BY <1>2 DEF Texts
<1>6. StackTexts' = StackTexts
  BY <1>2, <1>5 DEF StackTexts
<1> QED
  BY <1>2, <1>4, <1>6 DEF TreesSpellProgram

\* A token that is shifted adds its text on both sides.
LEMMA SpellsShift ==
    ParserInv /\ ParserInv' /\ Traced /\ Planted /\ Planted' /\ Located /\ TreesSpellProgram /\ Shift
        => TreesSpellProgram'
<1> SUFFICES ASSUME ParserInv, ParserInv', Traced, Planted, Planted', Located, TreesSpellProgram, Shift
             PROVE  TreesSpellProgram'
  OBVIOUS
<1> DEFINE t == lookahead[1]
           K == Len(states)
<1>1. PICK d : Pushed(K, d, Token(t))
  BY ShiftStep
<1>2. /\ lookahead # <<>> /\ t \in Classes /\ lookahead' = <<>> /\ read' = read
  BY ShiftStep
<1>3. t # "$end"
  BY <1>2, NoStrClass
<1>4. ShiftedCount /\ ShiftedCount'
  BY ShiftedCounts, ShiftedCountsNext
<1>5. /\ Shifted = Len(read) - 1 /\ Shifted' = Len(read) /\ Len(read) > 0 /\ read[Len(read)] = t
      /\ Len(read) \in Nat
  BY <1>2, <1>3, <1>4 DEF ShiftedCount, Located
<1>6. K \in 1..K /\ K \in Nat /\ Len(values) = K - 1
  BY TopFacts DEF ParserInv, ParserTypeOK
<1>7. StackTexts'[Len(values')] = StackTexts[K - 1] \o Texts'[Len(nodes) + 1]
  BY <1>1, <1>6, StackAfterPush
<1>8. /\ nodes'[Len(nodes) + 1] = Token(t) /\ Len(nodes') = Len(nodes) + 1 /\ Len(nodes) \in Nat
  <2>1. nodes' = Append(nodes, Token(t))
    BY <1>1 DEF Pushed
  <2> QED
    BY <2>1, HeapGrows
<1>9. Texts'[Len(nodes) + 1] = IF t \in TextClasses THEN <<Len(read)>> ELSE <<>>
  <2> DEFINE h == nodes'
             f == Texts'
             n == Len(nodes) + 1
  <2>1. BuiltUp(h) /\ IsTexts(h, f)
    BY TextsHoldNext DEF TextsDefined
  <2>2. n \in 1..Len(h) /\ h[n] = Token(t)
    BY <1>8
  <2> HIDE DEF h, f, n, t
  <2>3. Len(h[n].kids) = 0 => f[n] = OwnText(h[n].tok)
    BY <2>1, <2>2, TextsByKids
  <2>4. h[n].kids = <<>> /\ h[n].tok = IF t \in TextClasses THEN Len(read) ELSE NoText
    BY <2>2 DEF Token
  <2>5. f[n] = IF t \in TextClasses THEN <<Len(read)>> ELSE <<>>
    BY <1>5, <2>3, <2>4 DEF OwnText, NoText
  <2> QED
    BY <2>5 DEF f, n
<1>10. ReadTexts'[Shifted'] = ReadTexts[Len(read) - 1] \o IF t \in TextClasses THEN <<Len(read)>> ELSE <<>>
  <2>1. ReadTexts' = ReadTexts
    BY <1>2 DEF ReadTexts
  <2>2. IsJoin(ReadTexts, TokenTexts, {}, Len(read))
    BY ReadHolds DEF ReadDefined
  <2>3. Len(read) \in 1..Len(read) /\ Len(read) \notin {}
    BY <1>5
  <2>4. TokenTexts[Len(read)] = IF t \in TextClasses THEN <<Len(read)>> ELSE <<>>
    BY <1>5, <2>3 DEF TokenTexts, TokenText
  <2>5. ReadTexts[Len(read)] = ReadTexts[Len(read) - 1] \o TokenTexts[Len(read)]
    BY <2>2, <2>3 DEF IsJoin
  <2> QED
    BY <1>5, <2>1, <2>4, <2>5
<1>11. StackTexts[K - 1] = ReadTexts[Len(read) - 1]
  BY <1>5, <1>6 DEF TreesSpellProgram
<1> QED
  BY <1>7, <1>9, <1>10, <1>11, Zenon DEF TreesSpellProgram

\* A reduction leaves the texts of the stack as they were.
LEMMA SpellsReduce ==
    ParserInv /\ ParserInv' /\ Traced /\ Planted /\ Planted' /\ TokensPlain /\ TreesSpellProgram /\ Reduce
        => TreesSpellProgram'
<1> SUFFICES ASSUME ParserInv, ParserInv', Traced, Planted, Planted', TokensPlain, TreesSpellProgram, Reduce
             PROVE  TreesSpellProgram'
  OBVIOUS
<1>1. PICK i, d : Reduced(i, d)
  BY ReduceStep
<1> DEFINE n == Len(Rules[i].rhs)
           K == Len(states)
           m == K - n
           v == Build(Rules[i], RhsValues(i))
           new == Texts'[Len(nodes) + 1]
<1>2. K \in Nat /\ K >= 1 /\ Len(values) = K - 1
  BY TopFacts DEF ParserInv, ParserTypeOK
<1>3. n \in 0..K - 1
  BY <1>1 DEF Reduced
<1>4. Pushed(m, d, v) /\ m \in 1..K
  BY <1>1, <1>2, <1>3 DEF Reduced, RhsValues
<1>5. lookahead' = lookahead /\ read' = read
  BY ReduceStep
<1>6. Shifted' = Shifted /\ ReadTexts' = ReadTexts
  BY <1>5 DEF Shifted, ReadTexts
<1>7. nodes' = Append(nodes, v)
  BY <1>4 DEF Pushed
<1>8. \A k \in 1..n : RhsValues(i)[k] = values[m - 1 + k] /\ m - 1 + k \in 1..K - 1
  <2>1. RhsValues(i) = SubSeq(values, m, K - 1)
    BY <1>2 DEF RhsValues
  <2> HIDE DEF n
  <2>2. \A k \in 1..(K - 1) - m + 1 : SubSeq(values, m, K - 1)[k] = values[m + k - 1]
    BY <1>2, <1>3
  <2> QED
    BY <1>2, <1>3, <2>1, <2>2
<1>9. /\ IsJoin(StackTexts, ValueTexts, {}, K - 1)
      /\ \A k \in 1..K - 1 : ValueTexts[k] \in Seq(Nat) /\ ValueTexts[k] = Texts[values[k]]
  BY <1>2, StackHolds DEF StackDefined
<1> DEFINE t == [k \in 1..n |-> Texts[RhsValues(i)[k]]]
<1>10. Spelled(t, n, new)
  <2> DEFINE u == t
  <2>1. \A k \in 1..n : u[k] = Texts[RhsValues(i)[k]]
    OBVIOUS
  <2>2. TextsDefined /\ TextsDefined'
    BY TextsHold, TextsHoldNext
  <2> HIDE DEF u
  <2>3. Spelled(u, n, new)
    BY <1>1, <1>7, <2>1, <2>2, ReducedTexts
  <2> QED
    BY <2>3 DEF u
<1>11. \A k \in 1..n : t[k] = ValueTexts[m - 1 + k]
  BY <1>8, <1>9
<1>12. StackTexts'[Len(values')] = StackTexts[m - 1] \o new
  <2> HIDE DEF m, v
  <2> QED
    BY <1>4, StackAfterPush DEF new
<1>13. m - 1 \in Nat /\ n \in Nat /\ (m - 1) + n = K - 1
  BY <1>2, <1>3
<1> HIDE DEF n, v, t, new
<1>14. StackTexts[K - 1] = StackTexts[m - 1] \o new
  <2> DEFINE p == m - 1
             L == K - 1
             F == StackTexts
             g == ValueTexts
  <2>1. /\ IsJoin(F, g, {}, L) /\ L \in Nat /\ p \in Nat /\ p + n <= L /\ p + n = L
        /\ PartsIn(g, L, Nat) /\ Follows(t, g, p, n)
    BY <1>9, <1>11, <1>13 DEF PartsIn, Follows
  <2> DEFINE r == {}
  <2>2. GoesOn(r, p, n) /\ IsJoin(F, g, r, L) /\ n \in Nat /\ Spelled(t, n, new)
    BY <1>10, <1>13, <2>1 DEF GoesOn
  <2> HIDE DEF p, L, F, g, r
  <2>3. F[p + n] = F[p] \o new
    <3>1. Joinable(Nat, L, F, g, r, p, n, t, new)
      BY <2>1, <2>2 DEF Joinable
    <3> QED
      BY <3>1, JoinOfSpelled
  <2>4. F[L] = F[p] \o new
    BY <2>1, <2>3
  <2> QED
    BY <2>4 DEF F, L, p
<1>15. StackTexts[K - 1] = ReadTexts[Shifted]
  BY <1>2 DEF TreesSpellProgram
<1> QED
  BY <1>6, <1>12, <1>14, <1>15, Zenon DEF TreesSpellProgram

\* At every moment the texts that were shifted are on the stack, in order.
THEOREM ParserSpells == Spec => []TreesSpellProgram
<1>1. Init => TreesSpellProgram
  <2> SUFFICES ASSUME Init PROVE TreesSpellProgram
    OBVIOUS
  <2>1. Len(values) = 0 /\ Shifted = 0 /\ Len(read) = 0
    BY DEF Init, Shifted
  <2>2. StackTexts[0] = <<>>
    <3>1. StackTexts = [k \in 0..0 |-> <<>>]
      <4> DEFINE B(f) == [k \in 0..0 |-> IF k = 0 THEN <<>> ELSE f[k-1] \o Texts[values[k]]]
                 e == [k \in 0..0 |-> <<>>]
      <4>1. \A f : B(f) = e
        OBVIOUS
      <4>2. StackTexts = CHOOSE f : f = B(f)
        BY <2>1 DEF StackTexts
      <4> HIDE DEF B, e
      <4>3. StackTexts = B(StackTexts)
        BY <4>1, <4>2
      <4> QED
        BY <4>1, <4>3 DEF e
    <3> QED
      BY <3>1
  <2>3. ReadTexts[0] = <<>>
    <3>1. ReadTexts = [k \in 0..0 |-> <<>>]
      <4> DEFINE B(f) == [k \in 0..0 |-> IF k = 0 THEN <<>> ELSE f[k-1] \o
                                           IF read[k] \in TextClasses THEN <<k>> ELSE <<>>]
                 e == [k \in 0..0 |-> <<>>]
      <4>1. \A f : B(f) = e
        OBVIOUS
      <4>2. ReadTexts = CHOOSE f : f = B(f)
        BY <2>1 DEF ReadTexts
      <4> HIDE DEF B, e
      <4>3. ReadTexts = B(ReadTexts)
        BY <4>1, <4>2
      <4> QED
        BY <4>1, <4>3 DEF e
    <3> QED
      BY <3>1
  <2> QED
    BY <2>1, <2>2, <2>3 DEF TreesSpellProgram
<1>2. ASSUME TreesSpellProgram, UNCHANGED <<read, lookahead, values, nodes>> PROVE TreesSpellProgram'
  <2>1. Texts' = Texts /\ ReadTexts' = ReadTexts /\ Shifted' = Shifted
    BY <1>2 DEF Texts, ReadTexts, Shifted
  <2>2. StackTexts' = StackTexts
    BY <1>2, <2>1 DEF StackTexts
  <2> QED
    BY <1>2, <2>1, <2>2 DEF TreesSpellProgram
<1>3. ASSUME ParserInv, ParserInv', Traced, Planted, Planted', TokensPlain, Located,
             TreesSpellProgram, [Next \/ Returned]_vars
      PROVE  TreesSpellProgram'
  <2>1. \/ Lex \/ Shift \/ Reduce \/ UNCHANGED <<read, lookahead, values, nodes>>
    BY <1>3 DEF Next, Returned, Error, Accept, vars
  <2> QED
    BY <1>2, <1>3, <2>1, SpellsLex, SpellsShift, SpellsReduce
<1> QED
  BY <1>1, <1>3, ParserInvariant, ParserTraced, ParserPlants, ParserLocates, ParserTokens, PTL DEF Spec

-----------------------------------------------------------------------------
(***************************************************************************)
(* What log prints of the node of each rule.                               *)
(***************************************************************************)
\* The empty name, under a name that the provers can keep folded.
Blank == ""

\* What log prints, one node class after the other: the nodes above the list of a block.
LEMMA ProgramList ==
    \A l \in ProgramLogs :
        \/ l = Log("COMP_UNIT", Blank, <<Kid(1)>>)
        \/ l = Log("FUNC_DEF", Blank, <<Kid(1), Own, Kid(2)>>)
        \/ l = Log("FUNC_TYPE", Blank, <<Verbatim("int")>>)
        \/ l = Log("BLOCK", Blank, <<Kid(1)>>)
BY Zenon DEF ProgramLogs, Blank

\* The classes of these nodes.
LEMMA ProgramClasses == \A l \in ProgramLogs : l.tid \in {"COMP_UNIT", "FUNC_DEF", "FUNC_TYPE", "BLOCK"}
BY ProgramList DEF Log

\* What log prints, one node class after the other: the nodes of lists and statements.
LEMMA ItemList ==
    \A l \in ItemLogs :
        \/ l = Log("BLOCK_ITEMS", "Null", <<>>)
        \/ l = Log("BLOCK_ITEMS", "Recv", <<>>)
        \/ l = Log("BLOCK_ITEM", "Decl", <<Kid(1)>>)
        \/ l = Log("BLOCK_ITEM", "Stmt", <<Kid(1)>>)
        \/ l = Log("BLOCK_ITEM", "Null", <<>>)
        \/ l = Log("STMT", "Lval", <<Kid(2)>>)
        \/ l = Log("STMT", "Ret", <<Kid(1)>>)
BY Zenon DEF ItemLogs, Blank

\* The classes of these nodes.
LEMMA ItemClasses == \A l \in ItemLogs : l.tid \in {"BLOCK_ITEMS", "BLOCK_ITEM", "STMT"}
BY ItemList DEF Log

\* What log prints, one node class after the other: the nodes of operands.
LEMMA OperandList ==
    \A l \in OperandLogs :
        \/ l = Log("EXPR", Blank, <<Kid(1)>>)
        \/ l = Log("PRIMARY_EXPR", "Expr", <<Verbatim("("), Kid(1), Verbatim(")")>>)
        \/ l = Log("PRIMARY_EXPR", "Num", <<Kid(1)>>)
        \/ l = Log("PRIMARY_EXPR", "LVal", <<Kid(1)>>)
        \/ l = Log("LVAL", Blank, <<Own>>)
        \/ l = Log("NUMBER", Blank, <<IntConst>>)
        \/ l = Log("UNARY_EXPR", "Pri", <<Kid(1)>>)
        \/ l = Log("UNARY_EXPR", "Una", <<Kid(1), Kid(2)>>)
BY Zenon DEF OperandLogs, Blank

\* The classes of these nodes.
LEMMA OperandClasses == \A l \in OperandLogs : l.tid \in {"EXPR", "PRIMARY_EXPR", "LVAL", "NUMBER", "UNARY_EXPR"}
BY OperandList DEF Log

\* What log prints, one node class after the other: the nodes of sums and products.
LEMMA ArithmeticList ==
    \A l \in ArithmeticLogs :
        \/ l = Log("UNARY_OP", Blank, <<Own>>)
        \/ l = Log("MUL_EXPR", "Una", <<Kid(1)>>)
        \/ l = Log("MUL_EXPR", "Mul", <<Kid(1), Kid(2), Kid(3)>>)
        \/ l = Log("ADD_EXPR", "Mul", <<Kid(1)>>)
        \/ l = Log("ADD_EXPR", "Add", <<Kid(1), Kid(2), Kid(3)>>)
BY Zenon DEF ArithmeticLogs, Blank

\* The classes of these nodes.
LEMMA ArithmeticClasses == \A l \in ArithmeticLogs : l.tid \in {"UNARY_OP", "MUL_EXPR", "ADD_EXPR"}
BY ArithmeticList DEF Log

\* What log prints, one node class after the other: the nodes of comparisons.
LEMMA RelationList ==
    \A l \in RelationLogs :
        \/ l = Log("BINARY_OP", Blank, <<Own>>)
        \/ l = Log("REL_EXPR", "Add", <<Kid(1)>>)
        \/ l = Log("REL_EXPR", "Rel", <<Kid(1), Kid(2), Kid(3)>>)
        \/ l = Log("EQ_EXPR", "Rel", <<Kid(1)>>)
        \/ l = Log("EQ_EXPR", "Eq", <<Kid(1), Kid(2), Kid(3)>>)
BY Zenon DEF RelationLogs, Blank

\* The classes of these nodes.
LEMMA RelationClasses == \A l \in RelationLogs : l.tid \in {"BINARY_OP", "REL_EXPR", "EQ_EXPR"}
BY RelationList DEF Log

\* What log prints, one node class after the other: the nodes of the logical operators.
LEMMA LogicList ==
    \A l \in LogicLogs :
        \/ l = Log("CMP_OP", Blank, <<Own>>)
        \/ l = Log("LAND_EXPR", "Eq", <<Kid(1)>>)
        \/ l = Log("LAND_EXPR", "LAnd", <<Kid(1), Own, Kid(2)>>)
        \/ l = Log("LOR_EXPR", "LAnd", <<Kid(1)>>)
        \/ l = Log("LOR_EXPR", "LOr", <<Kid(1), Own, Kid(2)>>)
BY Zenon DEF LogicLogs, Blank

\* The classes of these nodes.
LEMMA LogicClasses == \A l \in LogicLogs : l.tid \in {"CMP_OP", "LAND_EXPR", "LOR_EXPR"}
BY LogicList DEF Log

\* What log prints, one node class after the other: the nodes of declarations.
LEMMA DeclList ==
    \A l \in DeclLogs :
        \/ l = Log("DECL", Blank, <<Kid(1)>>)
        \/ l = Log("CONST_DECL", Blank, <<Kid(1), Kid(2)>>)
        \/ l = Log("BTYPE", Blank, <<Verbatim("int")>>)
        \/ l = Log("CONST_DEFS", "Null", <<>>)
        \/ l = Log("CONST_DEFS", "Recr", <<>>)
BY Zenon DEF DeclLogs, Blank

\* The classes of these nodes.
LEMMA DeclClasses == \A l \in DeclLogs : l.tid \in {"DECL", "CONST_DECL", "BTYPE", "CONST_DEFS"}
BY DeclList DEF Log

\* What log prints, one node class after the other: the nodes of constants.
LEMMA ConstList ==
    \A l \in ConstLogs :
        \/ l = Log("CONST_DEF", Blank, <<Own, Verbatim("="), Kid(1)>>)
        \/ l = Log("CONST_INIT_VAL", Blank, <<Kid(1)>>)
        \/ l = Log("CONST_EXPR", Blank, <<Kid(1)>>)
BY Zenon DEF ConstLogs, Blank

\* The classes of these nodes.
LEMMA ConstClasses == \A l \in ConstLogs : l.tid \in {"CONST_DEF", "CONST_INIT_VAL", "CONST_EXPR"}
BY ConstList DEF Log

\* The log of a class is the only one.
IsLog(tid, sub, parts) ==
    /\ Log(tid, sub, parts) \in Logs
    /\ \A l \in Logs : l.tid = tid /\ l.sub = sub => l.parts = parts

\* PartsOf takes the parts of the one log of a class.
LEMMA PartsOfLog ==
    ASSUME NEW tid, NEW sub, NEW parts, IsLog(tid, sub, parts)
    PROVE  PartsOf[<<tid, sub>>] = parts
<1> DEFINE l0 == Log(tid, sub, parts)
           c == <<tid, sub>>
           D == {<<l.tid, l.sub>> : l \in Logs}
           F(x) == (CHOOSE l \in Logs : <<l.tid, l.sub>> = x).parts
<1>1. l0 \in Logs /\ l0.tid = tid /\ l0.sub = sub
  BY DEF IsLog, Log
<1>2. c \in D
  BY <1>1
<1>3. PartsOf = [x \in D |-> F(x)]
  BY DEF PartsOf
<1>4. PartsOf[c] = F(c)
  <2> HIDE DEF F, D, c
  <2> QED
    BY <1>2, <1>3
<1> DEFINE P(l) == <<l.tid, l.sub>> = c
           l1 == CHOOSE l \in Logs : P(l)
<1>5. \E l \in Logs : P(l)
  BY <1>1
<1>6. l1 \in Logs /\ P(l1)
  <2> HIDE DEF P
  <2> QED
    BY <1>5
<1>7. F(c) = l1.parts
  OBVIOUS
<1>8. l1.tid = tid /\ l1.sub = sub
  <2> HIDE DEF l1
  <2> QED
    BY <1>6
<1>9. l1.parts = parts
  <2> HIDE DEF l1
  <2> QED
    BY <1>6, <1>8 DEF IsLog
<1> QED
  BY <1>4, <1>7, <1>9

\* What log prints of a node COMP_UNIT.
LEMMA LogCompUnit == PartsOf[<<"COMP_UNIT", Blank>>] = <<Kid(1)>>
<1>1. Log("COMP_UNIT", Blank, <<Kid(1)>>) \in ProgramLogs
  BY Zenon DEF ProgramLogs, Blank
<1>2. \A l \in ProgramLogs : l.tid = "COMP_UNIT" /\ l.sub = Blank => l.parts = <<Kid(1)>>
  BY ProgramList DEF Log
<1>3. \A l \in Logs : l.tid = "COMP_UNIT" => l \in ProgramLogs
  BY ItemClasses, OperandClasses, ArithmeticClasses, RelationClasses, LogicClasses, DeclClasses, ConstClasses DEF Logs
<1>4. IsLog("COMP_UNIT", Blank, <<Kid(1)>>)
  BY <1>1, <1>2, <1>3 DEF IsLog, Logs
<1> QED
  BY <1>4, PartsOfLog

\* What log prints of a node FUNC_DEF.
LEMMA LogFuncDef == PartsOf[<<"FUNC_DEF", Blank>>] = <<Kid(1), Own, Kid(2)>>
<1>1. Log("FUNC_DEF", Blank, <<Kid(1), Own, Kid(2)>>) \in ProgramLogs
  BY Zenon DEF ProgramLogs, Blank
<1>2. \A l \in ProgramLogs : l.tid = "FUNC_DEF" /\ l.sub = Blank => l.parts = <<Kid(1), Own, Kid(2)>>
  BY ProgramList DEF Log
<1>3. \A l \in Logs : l.tid = "FUNC_DEF" => l \in ProgramLogs
  BY ItemClasses, OperandClasses, ArithmeticClasses, RelationClasses, LogicClasses, DeclClasses, ConstClasses DEF Logs
<1>4. IsLog("FUNC_DEF", Blank, <<Kid(1), Own, Kid(2)>>)
  BY <1>1, <1>2, <1>3 DEF IsLog, Logs
<1> QED
  BY <1>4, PartsOfLog

\* What log prints of a node FUNC_TYPE.
LEMMA LogFuncType == PartsOf[<<"FUNC_TYPE", Blank>>] = <<Verbatim("int")>>
<1>1. Log("FUNC_TYPE", Blank, <<Verbatim("int")>>) \in ProgramLogs
  BY Zenon DEF ProgramLogs, Blank
<1>2. \A l \in ProgramLogs : l.tid = "FUNC_TYPE" /\ l.sub = Blank => l.parts = <<Verbatim("int")>>
  BY ProgramList DEF Log
<1>3. \A l \in Logs : l.tid = "FUNC_TYPE" => l \in ProgramLogs
  BY ItemClasses, OperandClasses, ArithmeticClasses, RelationClasses, LogicClasses, DeclClasses, ConstClasses DEF Logs
<1>4. IsLog("FUNC_TYPE", Blank, <<Verbatim("int")>>)
  BY <1>1, <1>2, <1>3 DEF IsLog, Logs
<1> QED
  BY <1>4, PartsOfLog

\* What log prints of a node BLOCK.
LEMMA LogBlock == PartsOf[<<"BLOCK", Blank>>] = <<Kid(1)>>
<1>1. Log("BLOCK", Blank, <<Kid(1)>>) \in ProgramLogs
  BY Zenon DEF ProgramLogs, Blank
<1>2. \A l \in ProgramLogs : l.tid = "BLOCK" /\ l.sub = Blank => l.parts = <<Kid(1)>>
  BY ProgramList DEF Log
<1>3. \A l \in Logs : l.tid = "BLOCK" => l \in ProgramLogs
  BY ItemClasses, OperandClasses, ArithmeticClasses, RelationClasses, LogicClasses, DeclClasses, ConstClasses DEF Logs
<1>4. IsLog("BLOCK", Blank, <<Kid(1)>>)
  BY <1>1, <1>2, <1>3 DEF IsLog, Logs
<1> QED
  BY <1>4, PartsOfLog

\* What log prints of a node BLOCK_ITEMS of class Null.
LEMMA LogBlockItemsNull == PartsOf[<<"BLOCK_ITEMS", "Null">>] = <<>>
<1>1. Log("BLOCK_ITEMS", "Null", <<>>) \in ItemLogs
  BY Zenon DEF ItemLogs, Blank
<1>2. \A l \in ItemLogs : l.tid = "BLOCK_ITEMS" /\ l.sub = "Null" => l.parts = <<>>
  BY ItemList DEF Log
<1>3. \A l \in Logs : l.tid = "BLOCK_ITEMS" => l \in ItemLogs
  BY ProgramClasses, OperandClasses, ArithmeticClasses, RelationClasses, LogicClasses, DeclClasses, ConstClasses DEF Logs
<1>4. IsLog("BLOCK_ITEMS", "Null", <<>>)
  BY <1>1, <1>2, <1>3 DEF IsLog, Logs
<1> QED
  BY <1>4, PartsOfLog

\* What log prints of a node BLOCK_ITEMS of class Recv.
LEMMA LogBlockItemsRecv == PartsOf[<<"BLOCK_ITEMS", "Recv">>] = <<>>
<1>1. Log("BLOCK_ITEMS", "Recv", <<>>) \in ItemLogs
  BY Zenon DEF ItemLogs, Blank
<1>2. \A l \in ItemLogs : l.tid = "BLOCK_ITEMS" /\ l.sub = "Recv" => l.parts = <<>>
  BY ItemList DEF Log
<1>3. \A l \in Logs : l.tid = "BLOCK_ITEMS" => l \in ItemLogs
  BY ProgramClasses, OperandClasses, ArithmeticClasses, RelationClasses, LogicClasses, DeclClasses, ConstClasses DEF Logs
<1>4. IsLog("BLOCK_ITEMS", "Recv", <<>>)
  BY <1>1, <1>2, <1>3 DEF IsLog, Logs
<1> QED
  BY <1>4, PartsOfLog

\* What log prints of a node BLOCK_ITEM of class Stmt.
LEMMA LogBlockItemStmt == PartsOf[<<"BLOCK_ITEM", "Stmt">>] = <<Kid(1)>>
<1>1. Log("BLOCK_ITEM", "Stmt", <<Kid(1)>>) \in ItemLogs
  BY Zenon DEF ItemLogs, Blank
<1>2. \A l \in ItemLogs : l.tid = "BLOCK_ITEM" /\ l.sub = "Stmt" => l.parts = <<Kid(1)>>
  BY ItemList DEF Log
<1>3. \A l \in Logs : l.tid = "BLOCK_ITEM" => l \in ItemLogs
  BY ProgramClasses, OperandClasses, ArithmeticClasses, RelationClasses, LogicClasses, DeclClasses, ConstClasses DEF Logs
<1>4. IsLog("BLOCK_ITEM", "Stmt", <<Kid(1)>>)
  BY <1>1, <1>2, <1>3 DEF IsLog, Logs
<1> QED
  BY <1>4, PartsOfLog

\* What log prints of a node BTYPE.
LEMMA LogBtype == PartsOf[<<"BTYPE", Blank>>] = <<Verbatim("int")>>
<1>1. Log("BTYPE", Blank, <<Verbatim("int")>>) \in DeclLogs
  BY Zenon DEF DeclLogs, Blank
<1>2. \A l \in DeclLogs : l.tid = "BTYPE" /\ l.sub = Blank => l.parts = <<Verbatim("int")>>
  BY DeclList DEF Log
<1>3. \A l \in Logs : l.tid = "BTYPE" => l \in DeclLogs
  BY ProgramClasses, ItemClasses, OperandClasses, ArithmeticClasses, RelationClasses, LogicClasses, ConstClasses DEF Logs
<1>4. IsLog("BTYPE", Blank, <<Verbatim("int")>>)
  BY <1>1, <1>2, <1>3 DEF IsLog, Logs
<1> QED
  BY <1>4, PartsOfLog

\* What log prints of a node STMT of class Ret.
LEMMA LogStmtRet == PartsOf[<<"STMT", "Ret">>] = <<Kid(1)>>
<1>1. Log("STMT", "Ret", <<Kid(1)>>) \in ItemLogs
  BY Zenon DEF ItemLogs, Blank
<1>2. \A l \in ItemLogs : l.tid = "STMT" /\ l.sub = "Ret" => l.parts = <<Kid(1)>>
  BY ItemList DEF Log
<1>3. \A l \in Logs : l.tid = "STMT" => l \in ItemLogs
  BY ProgramClasses, OperandClasses, ArithmeticClasses, RelationClasses, LogicClasses, DeclClasses, ConstClasses DEF Logs
<1>4. IsLog("STMT", "Ret", <<Kid(1)>>)
  BY <1>1, <1>2, <1>3 DEF IsLog, Logs
<1> QED
  BY <1>4, PartsOfLog

\* What log prints of a node EXPR.
LEMMA LogExpr == PartsOf[<<"EXPR", Blank>>] = <<Kid(1)>>
<1>1. Log("EXPR", Blank, <<Kid(1)>>) \in OperandLogs
  BY Zenon DEF OperandLogs, Blank
<1>2. \A l \in OperandLogs : l.tid = "EXPR" /\ l.sub = Blank => l.parts = <<Kid(1)>>
  BY OperandList DEF Log
<1>3. \A l \in Logs : l.tid = "EXPR" => l \in OperandLogs
  BY ProgramClasses, ItemClasses, ArithmeticClasses, RelationClasses, LogicClasses, DeclClasses, ConstClasses DEF Logs
<1>4. IsLog("EXPR", Blank, <<Kid(1)>>)
  BY <1>1, <1>2, <1>3 DEF IsLog, Logs
<1> QED
  BY <1>4, PartsOfLog

\* What log prints of a node PRIMARY_EXPR of class Expr.
LEMMA LogPrimaryExprExpr == PartsOf[<<"PRIMARY_EXPR", "Expr">>] = <<Verbatim("("), Kid(1), Verbatim(")")>>
<1>1. Log("PRIMARY_EXPR", "Expr", <<Verbatim("("), Kid(1), Verbatim(")")>>) \in OperandLogs
  BY Zenon DEF OperandLogs, Blank
<1>2. \A l \in OperandLogs : l.tid = "PRIMARY_EXPR" /\ l.sub = "Expr" => l.parts = <<Verbatim("("), Kid(1), Verbatim(")")>>
  BY OperandList DEF Log
<1>3. \A l \in Logs : l.tid = "PRIMARY_EXPR" => l \in OperandLogs
  BY ProgramClasses, ItemClasses, ArithmeticClasses, RelationClasses, LogicClasses, DeclClasses, ConstClasses DEF Logs
<1>4. IsLog("PRIMARY_EXPR", "Expr", <<Verbatim("("), Kid(1), Verbatim(")")>>)
  BY <1>1, <1>2, <1>3 DEF IsLog, Logs
<1> QED
  BY <1>4, PartsOfLog

\* What log prints of a node PRIMARY_EXPR of class Num.
LEMMA LogPrimaryExprNum == PartsOf[<<"PRIMARY_EXPR", "Num">>] = <<Kid(1)>>
<1>1. Log("PRIMARY_EXPR", "Num", <<Kid(1)>>) \in OperandLogs
  BY Zenon DEF OperandLogs, Blank
<1>2. \A l \in OperandLogs : l.tid = "PRIMARY_EXPR" /\ l.sub = "Num" => l.parts = <<Kid(1)>>
  BY OperandList DEF Log
<1>3. \A l \in Logs : l.tid = "PRIMARY_EXPR" => l \in OperandLogs
  BY ProgramClasses, ItemClasses, ArithmeticClasses, RelationClasses, LogicClasses, DeclClasses, ConstClasses DEF Logs
<1>4. IsLog("PRIMARY_EXPR", "Num", <<Kid(1)>>)
  BY <1>1, <1>2, <1>3 DEF IsLog, Logs
<1> QED
  BY <1>4, PartsOfLog

\* What log prints of a node PRIMARY_EXPR of class LVal.
LEMMA LogPrimaryExprLVal == PartsOf[<<"PRIMARY_EXPR", "LVal">>] = <<Kid(1)>>
<1>1. Log("PRIMARY_EXPR", "LVal", <<Kid(1)>>) \in OperandLogs
  BY Zenon DEF OperandLogs, Blank
<1>2. \A l \in OperandLogs : l.tid = "PRIMARY_EXPR" /\ l.sub = "LVal" => l.parts = <<Kid(1)>>
  BY OperandList DEF Log
<1>3. \A l \in Logs : l.tid = "PRIMARY_EXPR" => l \in OperandLogs
  BY ProgramClasses, ItemClasses, ArithmeticClasses, RelationClasses, LogicClasses, DeclClasses, ConstClasses DEF Logs
<1>4. IsLog("PRIMARY_EXPR", "LVal", <<Kid(1)>>)
  BY <1>1, <1>2, <1>3 DEF IsLog, Logs
<1> QED
  BY <1>4, PartsOfLog

\* What log prints of a node LVAL.
LEMMA LogLval == PartsOf[<<"LVAL", Blank>>] = <<Own>>
<1>1. Log("LVAL", Blank, <<Own>>) \in OperandLogs
  BY Zenon DEF OperandLogs, Blank
<1>2. \A l \in OperandLogs : l.tid = "LVAL" /\ l.sub = Blank => l.parts = <<Own>>
  BY OperandList DEF Log
<1>3. \A l \in Logs : l.tid = "LVAL" => l \in OperandLogs
  BY ProgramClasses, ItemClasses, ArithmeticClasses, RelationClasses, LogicClasses, DeclClasses, ConstClasses DEF Logs
<1>4. IsLog("LVAL", Blank, <<Own>>)
  BY <1>1, <1>2, <1>3 DEF IsLog, Logs
<1> QED
  BY <1>4, PartsOfLog

\* What log prints of a node NUMBER.
LEMMA LogNumber == PartsOf[<<"NUMBER", Blank>>] = <<IntConst>>
<1>1. Log("NUMBER", Blank, <<IntConst>>) \in OperandLogs
  BY Zenon DEF OperandLogs, Blank
<1>2. \A l \in OperandLogs : l.tid = "NUMBER" /\ l.sub = Blank => l.parts = <<IntConst>>
  BY OperandList DEF Log
<1>3. \A l \in Logs : l.tid = "NUMBER" => l \in OperandLogs
  BY ProgramClasses, ItemClasses, ArithmeticClasses, RelationClasses, LogicClasses, DeclClasses, ConstClasses DEF Logs
<1>4. IsLog("NUMBER", Blank, <<IntConst>>)
  BY <1>1, <1>2, <1>3 DEF IsLog, Logs
<1> QED
  BY <1>4, PartsOfLog

\* What log prints of a node UNARY_EXPR of class Pri.
LEMMA LogUnaryExprPri == PartsOf[<<"UNARY_EXPR", "Pri">>] = <<Kid(1)>>
<1>1. Log("UNARY_EXPR", "Pri", <<Kid(1)>>) \in OperandLogs
  BY Zenon DEF OperandLogs, Blank
<1>2. \A l \in OperandLogs : l.tid = "UNARY_EXPR" /\ l.sub = "Pri" => l.parts = <<Kid(1)>>
  BY OperandList DEF Log
<1>3. \A l \in Logs : l.tid = "UNARY_EXPR" => l \in OperandLogs
  BY ProgramClasses, ItemClasses, ArithmeticClasses, RelationClasses, LogicClasses, DeclClasses, ConstClasses DEF Logs
<1>4. IsLog("UNARY_EXPR", "Pri", <<Kid(1)>>)
  BY <1>1, <1>2, <1>3 DEF IsLog, Logs
<1> QED
  BY <1>4, PartsOfLog

\* What log prints of a node UNARY_EXPR of class Una.
LEMMA LogUnaryExprUna == PartsOf[<<"UNARY_EXPR", "Una">>] = <<Kid(1), Kid(2)>>
<1>1. Log("UNARY_EXPR", "Una", <<Kid(1), Kid(2)>>) \in OperandLogs
  BY Zenon DEF OperandLogs, Blank
<1>2. \A l \in OperandLogs : l.tid = "UNARY_EXPR" /\ l.sub = "Una" => l.parts = <<Kid(1), Kid(2)>>
  BY OperandList DEF Log
<1>3. \A l \in Logs : l.tid = "UNARY_EXPR" => l \in OperandLogs
  BY ProgramClasses, ItemClasses, ArithmeticClasses, RelationClasses, LogicClasses, DeclClasses, ConstClasses DEF Logs
<1>4. IsLog("UNARY_EXPR", "Una", <<Kid(1), Kid(2)>>)
  BY <1>1, <1>2, <1>3 DEF IsLog, Logs
<1> QED
  BY <1>4, PartsOfLog

\* What log prints of a node UNARY_OP.
LEMMA LogUnaryOp == PartsOf[<<"UNARY_OP", Blank>>] = <<Own>>
<1>1. Log("UNARY_OP", Blank, <<Own>>) \in ArithmeticLogs
  BY Zenon DEF ArithmeticLogs, Blank
<1>2. \A l \in ArithmeticLogs : l.tid = "UNARY_OP" /\ l.sub = Blank => l.parts = <<Own>>
  BY ArithmeticList DEF Log
<1>3. \A l \in Logs : l.tid = "UNARY_OP" => l \in ArithmeticLogs
  BY ProgramClasses, ItemClasses, OperandClasses, RelationClasses, LogicClasses, DeclClasses, ConstClasses DEF Logs
<1>4. IsLog("UNARY_OP", Blank, <<Own>>)
  BY <1>1, <1>2, <1>3 DEF IsLog, Logs
<1> QED
  BY <1>4, PartsOfLog

\* What log prints of a node MUL_EXPR of class Una.
LEMMA LogMulExprUna == PartsOf[<<"MUL_EXPR", "Una">>] = <<Kid(1)>>
<1>1. Log("MUL_EXPR", "Una", <<Kid(1)>>) \in ArithmeticLogs
  BY Zenon DEF ArithmeticLogs, Blank
<1>2. \A l \in ArithmeticLogs : l.tid = "MUL_EXPR" /\ l.sub = "Una" => l.parts = <<Kid(1)>>
  BY ArithmeticList DEF Log
<1>3. \A l \in Logs : l.tid = "MUL_EXPR" => l \in ArithmeticLogs
  BY ProgramClasses, ItemClasses, OperandClasses, RelationClasses, LogicClasses, DeclClasses, ConstClasses DEF Logs
<1>4. IsLog("MUL_EXPR", "Una", <<Kid(1)>>)
  BY <1>1, <1>2, <1>3 DEF IsLog, Logs
<1> QED
  BY <1>4, PartsOfLog

\* What log prints of a node MUL_EXPR of class Mul.
LEMMA LogMulExprMul == PartsOf[<<"MUL_EXPR", "Mul">>] = <<Kid(1), Kid(2), Kid(3)>>
<1>1. Log("MUL_EXPR", "Mul", <<Kid(1), Kid(2), Kid(3)>>) \in ArithmeticLogs
  BY Zenon DEF ArithmeticLogs, Blank
<1>2. \A l \in ArithmeticLogs : l.tid = "MUL_EXPR" /\ l.sub = "Mul" => l.parts = <<Kid(1), Kid(2), Kid(3)>>
  BY ArithmeticList DEF Log
<1>3. \A l \in Logs : l.tid = "MUL_EXPR" => l \in ArithmeticLogs
  BY ProgramClasses, ItemClasses, OperandClasses, RelationClasses, LogicClasses, DeclClasses, ConstClasses DEF Logs
<1>4. IsLog("MUL_EXPR", "Mul", <<Kid(1), Kid(2), Kid(3)>>)
  BY <1>1, <1>2, <1>3 DEF IsLog, Logs
<1> QED
  BY <1>4, PartsOfLog

\* What log prints of a node ADD_EXPR of class Mul.
LEMMA LogAddExprMul == PartsOf[<<"ADD_EXPR", "Mul">>] = <<Kid(1)>>
<1>1. Log("ADD_EXPR", "Mul", <<Kid(1)>>) \in ArithmeticLogs
  BY Zenon DEF ArithmeticLogs, Blank
<1>2. \A l \in ArithmeticLogs : l.tid = "ADD_EXPR" /\ l.sub = "Mul" => l.parts = <<Kid(1)>>
  BY ArithmeticList DEF Log
<1>3. \A l \in Logs : l.tid = "ADD_EXPR" => l \in ArithmeticLogs
  BY ProgramClasses, ItemClasses, OperandClasses, RelationClasses, LogicClasses, DeclClasses, ConstClasses DEF Logs
<1>4. IsLog("ADD_EXPR", "Mul", <<Kid(1)>>)
  BY <1>1, <1>2, <1>3 DEF IsLog, Logs
<1> QED
  BY <1>4, PartsOfLog

\* What log prints of a node BINARY_OP.
LEMMA LogBinaryOp == PartsOf[<<"BINARY_OP", Blank>>] = <<Own>>
<1>1. Log("BINARY_OP", Blank, <<Own>>) \in RelationLogs
  BY Zenon DEF RelationLogs, Blank
<1>2. \A l \in RelationLogs : l.tid = "BINARY_OP" /\ l.sub = Blank => l.parts = <<Own>>
  BY RelationList DEF Log
<1>3. \A l \in Logs : l.tid = "BINARY_OP" => l \in RelationLogs
  BY ProgramClasses, ItemClasses, OperandClasses, ArithmeticClasses, LogicClasses, DeclClasses, ConstClasses DEF Logs
<1>4. IsLog("BINARY_OP", Blank, <<Own>>)
  BY <1>1, <1>2, <1>3 DEF IsLog, Logs
<1> QED
  BY <1>4, PartsOfLog

\* What log prints of a node REL_EXPR of class Add.
LEMMA LogRelExprAdd == PartsOf[<<"REL_EXPR", "Add">>] = <<Kid(1)>>
<1>1. Log("REL_EXPR", "Add", <<Kid(1)>>) \in RelationLogs
  BY Zenon DEF RelationLogs, Blank
<1>2. \A l \in RelationLogs : l.tid = "REL_EXPR" /\ l.sub = "Add" => l.parts = <<Kid(1)>>
  BY RelationList DEF Log
<1>3. \A l \in Logs : l.tid = "REL_EXPR" => l \in RelationLogs
  BY ProgramClasses, ItemClasses, OperandClasses, ArithmeticClasses, LogicClasses, DeclClasses, ConstClasses DEF Logs
<1>4. IsLog("REL_EXPR", "Add", <<Kid(1)>>)
  BY <1>1, <1>2, <1>3 DEF IsLog, Logs
<1> QED
  BY <1>4, PartsOfLog

\* What log prints of a node EQ_EXPR of class Rel.
LEMMA LogEqExprRel == PartsOf[<<"EQ_EXPR", "Rel">>] = <<Kid(1)>>
<1>1. Log("EQ_EXPR", "Rel", <<Kid(1)>>) \in RelationLogs
  BY Zenon DEF RelationLogs, Blank
<1>2. \A l \in RelationLogs : l.tid = "EQ_EXPR" /\ l.sub = "Rel" => l.parts = <<Kid(1)>>
  BY RelationList DEF Log
<1>3. \A l \in Logs : l.tid = "EQ_EXPR" => l \in RelationLogs
  BY ProgramClasses, ItemClasses, OperandClasses, ArithmeticClasses, LogicClasses, DeclClasses, ConstClasses DEF Logs
<1>4. IsLog("EQ_EXPR", "Rel", <<Kid(1)>>)
  BY <1>1, <1>2, <1>3 DEF IsLog, Logs
<1> QED
  BY <1>4, PartsOfLog

\* What log prints of a node LAND_EXPR of class Eq.
LEMMA LogLandExprEq == PartsOf[<<"LAND_EXPR", "Eq">>] = <<Kid(1)>>
<1>1. Log("LAND_EXPR", "Eq", <<Kid(1)>>) \in LogicLogs
  BY Zenon DEF LogicLogs, Blank
<1>2. \A l \in LogicLogs : l.tid = "LAND_EXPR" /\ l.sub = "Eq" => l.parts = <<Kid(1)>>
  BY LogicList DEF Log
<1>3. \A l \in Logs : l.tid = "LAND_EXPR" => l \in LogicLogs
  BY ProgramClasses, ItemClasses, OperandClasses, ArithmeticClasses, RelationClasses, DeclClasses, ConstClasses DEF Logs
<1>4. IsLog("LAND_EXPR", "Eq", <<Kid(1)>>)
  BY <1>1, <1>2, <1>3 DEF IsLog, Logs
<1> QED
  BY <1>4, PartsOfLog

\* What log prints of a node LOR_EXPR of class LAnd.
LEMMA LogLorExprLAnd == PartsOf[<<"LOR_EXPR", "LAnd">>] = <<Kid(1)>>
<1>1. Log("LOR_EXPR", "LAnd", <<Kid(1)>>) \in LogicLogs
  BY Zenon DEF LogicLogs, Blank
<1>2. \A l \in LogicLogs : l.tid = "LOR_EXPR" /\ l.sub = "LAnd" => l.parts = <<Kid(1)>>
  BY LogicList DEF Log
<1>3. \A l \in Logs : l.tid = "LOR_EXPR" => l \in LogicLogs
  BY ProgramClasses, ItemClasses, OperandClasses, ArithmeticClasses, RelationClasses, DeclClasses, ConstClasses DEF Logs
<1>4. IsLog("LOR_EXPR", "LAnd", <<Kid(1)>>)
  BY <1>1, <1>2, <1>3 DEF IsLog, Logs
<1> QED
  BY <1>4, PartsOfLog

\* The lexemes of a dump.
Lexemes ==
    ({"text", "word"} \X (Nat \cup Classes \cup {"int", "(", ")"})) \cup {Number(tok) : tok \in Nat}

\* What a node with n sub-trees can print.
PrintedPart(part, n) ==
    \/ \E k \in 1..n : part = Kid(k)
    \/ part = Own
    \/ part = IntConst
    \/ \E x \in {"int", "(", ")"} : part = Verbatim(x)

\* What the nodes above the statements of a program print.
Heading(tid, parts) ==
    /\ tid \in {"COMP_UNIT", "BLOCK"} => parts = <<Kid(1)>>
    /\ tid = "FUNC_DEF" => parts = <<Kid(1), Own, Kid(2)>>
    /\ tid = "FUNC_TYPE" => parts = <<Verbatim("int")>>
    /\ tid = "BLOCK_ITEMS" => parts = <<>>

\* What log prints of the node of rule i, which has n sub-trees.
Prints(i, parts, n) ==
    /\ PartsOf[<<Rules[i].tid, Rules[i].sub>>] = parts
    /\ Len(Rules[i].kids) = n
    /\ Rules[i].sub # "RETURN"
    /\ Heading(Rules[i].tid, parts)

\* The rules by what log prints of their nodes.
LEMMA RulePrints ==
    ASSUME NEW i, NEW c, Reduces(c, i)
    PROVE  \/ Prints(i, <<Kid(1)>>, 1)
           \/ Prints(i, <<Own>>, 0) /\ i \in {31, 35, 40}
           \/ Prints(i, <<IntConst>>, 0) /\ i = 32
           \/ Prints(i, <<Kid(1), Kid(2)>>, 2) /\ i = 34
           \/ Prints(i, <<Kid(1), Kid(2), Kid(3)>>, 3) /\ i = 37
           \/ Prints(i, <<Verbatim("("), Kid(1), Verbatim(")")>>, 1) /\ i = 28
           \/ Prints(i, <<Kid(1), Own, Kid(2)>>, 2) /\ i = 3
           \/ Prints(i, <<Verbatim("int")>>, 0) /\ i \in {4, 14}
           \/ Prints(i, <<>>, 0) /\ i = 6
           \/ Prints(i, <<>>, 2) /\ i = 7
<1>0. Blank # "RETURN"
  BY Zenon DEF Blank
<1>1. CASE i = 2
  <2>1. Rules[i].tid = "COMP_UNIT" /\ Rules[i].sub = Blank /\ Rules[i].kids = <<1>>
    BY <1>1, ProgramTrees, Zenon DEF Tree, Blank
  <2>2. Len(Rules[i].kids) = 1 /\ Rules[i].sub # "RETURN"
    BY <1>0, <2>1
  <2>3. PartsOf[<<Rules[i].tid, Rules[i].sub>>] = <<Kid(1)>>
    BY <2>1, LogCompUnit
  <2>4. Heading(Rules[i].tid, <<Kid(1)>>)
    BY <2>1 DEF Heading
  <2> QED
    BY <1>1, <2>2, <2>3, <2>4 DEF Prints
<1>2. CASE i = 3
  <2>1. Rules[i].tid = "FUNC_DEF" /\ Rules[i].sub = Blank /\ Rules[i].kids = <<1, 5>>
    BY <1>2, ProgramTrees, Zenon DEF Tree, Blank
  <2>2. Len(Rules[i].kids) = 2 /\ Rules[i].sub # "RETURN"
    BY <1>0, <2>1
  <2>3. PartsOf[<<Rules[i].tid, Rules[i].sub>>] = <<Kid(1), Own, Kid(2)>>
    BY <2>1, LogFuncDef
  <2>4. Heading(Rules[i].tid, <<Kid(1), Own, Kid(2)>>)
    BY <2>1 DEF Heading
  <2> QED
    BY <1>2, <2>2, <2>3, <2>4 DEF Prints
<1>3. CASE i = 4
  <2>1. Rules[i].tid = "FUNC_TYPE" /\ Rules[i].sub = Blank /\ Rules[i].kids = <<>>
    BY <1>3, ProgramTrees, Zenon DEF Tree, Blank
  <2>2. Len(Rules[i].kids) = 0 /\ Rules[i].sub # "RETURN"
    BY <1>0, <2>1
  <2>3. PartsOf[<<Rules[i].tid, Rules[i].sub>>] = <<Verbatim("int")>>
    BY <2>1, LogFuncType
  <2>4. Heading(Rules[i].tid, <<Verbatim("int")>>)
    BY <2>1 DEF Heading
  <2> QED
    BY <1>3, <2>2, <2>3, <2>4 DEF Prints
<1>4. CASE i = 5
  <2>1. Rules[i].tid = "BLOCK" /\ Rules[i].sub = Blank /\ Rules[i].kids = <<2>>
    BY <1>4, ProgramTrees, Zenon DEF Tree, Blank
  <2>2. Len(Rules[i].kids) = 1 /\ Rules[i].sub # "RETURN"
    BY <1>0, <2>1
  <2>3. PartsOf[<<Rules[i].tid, Rules[i].sub>>] = <<Kid(1)>>
    BY <2>1, LogBlock
  <2>4. Heading(Rules[i].tid, <<Kid(1)>>)
    BY <2>1 DEF Heading
  <2> QED
    BY <1>4, <2>2, <2>3, <2>4 DEF Prints
<1>5. CASE i = 6
  <2>1. Rules[i].tid = "BLOCK_ITEMS" /\ Rules[i].sub = "Null" /\ Rules[i].kids = <<>>
    BY <1>5, ItemTrees, Zenon DEF Tree, Blank
  <2>2. Len(Rules[i].kids) = 0 /\ Rules[i].sub # "RETURN"
    BY <1>0, <2>1
  <2>3. PartsOf[<<Rules[i].tid, Rules[i].sub>>] = <<>>
    BY <2>1, LogBlockItemsNull
  <2>4. Heading(Rules[i].tid, <<>>)
    BY <2>1 DEF Heading
  <2> QED
    BY <1>5, <2>2, <2>3, <2>4 DEF Prints
<1>6. CASE i = 7
  <2>1. Rules[i].tid = "BLOCK_ITEMS" /\ Rules[i].sub = "Recv" /\ Rules[i].kids = <<1, 2>>
    BY <1>6, ItemTrees, Zenon DEF Tree, Blank
  <2>2. Len(Rules[i].kids) = 2 /\ Rules[i].sub # "RETURN"
    BY <1>0, <2>1
  <2>3. PartsOf[<<Rules[i].tid, Rules[i].sub>>] = <<>>
    BY <2>1, LogBlockItemsRecv
  <2>4. Heading(Rules[i].tid, <<>>)
    BY <2>1 DEF Heading
  <2> QED
    BY <1>6, <2>2, <2>3, <2>4 DEF Prints
<1>7. CASE i = 9
  <2>1. Rules[i].tid = "BLOCK_ITEM" /\ Rules[i].sub = "Stmt" /\ Rules[i].kids = <<1>>
    BY <1>7, ItemTrees, Zenon DEF Tree, Blank
  <2>2. Len(Rules[i].kids) = 1 /\ Rules[i].sub # "RETURN"
    BY <1>0, <2>1
  <2>3. PartsOf[<<Rules[i].tid, Rules[i].sub>>] = <<Kid(1)>>
    BY <2>1, LogBlockItemStmt
  <2>4. Heading(Rules[i].tid, <<Kid(1)>>)
    BY <2>1 DEF Heading
  <2> QED
    BY <1>7, <2>2, <2>3, <2>4 DEF Prints
<1>8. CASE i = 14
  <2>1. Rules[i].tid = "BTYPE" /\ Rules[i].sub = Blank /\ Rules[i].kids = <<>>
    BY <1>8, ItemTrees, Zenon DEF Tree, Blank
  <2>2. Len(Rules[i].kids) = 0 /\ Rules[i].sub # "RETURN"
    BY <1>0, <2>1
  <2>3. PartsOf[<<Rules[i].tid, Rules[i].sub>>] = <<Verbatim("int")>>
    BY <2>1, LogBtype
  <2>4. Heading(Rules[i].tid, <<Verbatim("int")>>)
    BY <2>1 DEF Heading
  <2> QED
    BY <1>8, <2>2, <2>3, <2>4 DEF Prints
<1>9. CASE i = 26
  <2>1. Rules[i].tid = "STMT" /\ Rules[i].sub = "Ret" /\ Rules[i].kids = <<2>>
    BY <1>9, StmtTrees, Zenon DEF Tree, Blank
  <2>2. Len(Rules[i].kids) = 1 /\ Rules[i].sub # "RETURN"
    BY <1>0, <2>1
  <2>3. PartsOf[<<Rules[i].tid, Rules[i].sub>>] = <<Kid(1)>>
    BY <2>1, LogStmtRet
  <2>4. Heading(Rules[i].tid, <<Kid(1)>>)
    BY <2>1 DEF Heading
  <2> QED
    BY <1>9, <2>2, <2>3, <2>4 DEF Prints
<1>10. CASE i = 27
  <2>1. Rules[i].tid = "EXPR" /\ Rules[i].sub = Blank /\ Rules[i].kids = <<1>>
    BY <1>10, StmtTrees, Zenon DEF Tree, Blank
  <2>2. Len(Rules[i].kids) = 1 /\ Rules[i].sub # "RETURN"
    BY <1>0, <2>1
  <2>3. PartsOf[<<Rules[i].tid, Rules[i].sub>>] = <<Kid(1)>>
    BY <2>1, LogExpr
  <2>4. Heading(Rules[i].tid, <<Kid(1)>>)
    BY <2>1 DEF Heading
  <2> QED
    BY <1>10, <2>2, <2>3, <2>4 DEF Prints
<1>11. CASE i = 28
  <2>1. Rules[i].tid = "PRIMARY_EXPR" /\ Rules[i].sub = "Expr" /\ Rules[i].kids = <<2>>
    BY <1>11, OperandTrees, Zenon DEF Tree, Blank
  <2>2. Len(Rules[i].kids) = 1 /\ Rules[i].sub # "RETURN"
    BY <1>0, <2>1
  <2>3. PartsOf[<<Rules[i].tid, Rules[i].sub>>] = <<Verbatim("("), Kid(1), Verbatim(")")>>
    BY <2>1, LogPrimaryExprExpr
  <2>4. Heading(Rules[i].tid, <<Verbatim("("), Kid(1), Verbatim(")")>>)
    BY <2>1 DEF Heading
  <2> QED
    BY <1>11, <2>2, <2>3, <2>4 DEF Prints
<1>12. CASE i = 29
  <2>1. Rules[i].tid = "PRIMARY_EXPR" /\ Rules[i].sub = "Num" /\ Rules[i].kids = <<1>>
    BY <1>12, OperandTrees, Zenon DEF Tree, Blank
  <2>2. Len(Rules[i].kids) = 1 /\ Rules[i].sub # "RETURN"
    BY <1>0, <2>1
  <2>3. PartsOf[<<Rules[i].tid, Rules[i].sub>>] = <<Kid(1)>>
    BY <2>1, LogPrimaryExprNum
  <2>4. Heading(Rules[i].tid, <<Kid(1)>>)
    BY <2>1 DEF Heading
  <2> QED
    BY <1>12, <2>2, <2>3, <2>4 DEF Prints
<1>13. CASE i = 30
  <2>1. Rules[i].tid = "PRIMARY_EXPR" /\ Rules[i].sub = "LVal" /\ Rules[i].kids = <<1>>
    BY <1>13, OperandTrees, Zenon DEF Tree, Blank
  <2>2. Len(Rules[i].kids) = 1 /\ Rules[i].sub # "RETURN"
    BY <1>0, <2>1
  <2>3. PartsOf[<<Rules[i].tid, Rules[i].sub>>] = <<Kid(1)>>
    BY <2>1, LogPrimaryExprLVal
  <2>4. Heading(Rules[i].tid, <<Kid(1)>>)
    BY <2>1 DEF Heading
  <2> QED
    BY <1>13, <2>2, <2>3, <2>4 DEF Prints
<1>14. CASE i = 31
  <2>1. Rules[i].tid = "LVAL" /\ Rules[i].sub = Blank /\ Rules[i].kids = <<>>
    BY <1>14, OperandTrees, Zenon DEF Tree, Blank
  <2>2. Len(Rules[i].kids) = 0 /\ Rules[i].sub # "RETURN"
    BY <1>0, <2>1
  <2>3. PartsOf[<<Rules[i].tid, Rules[i].sub>>] = <<Own>>
    BY <2>1, LogLval
  <2>4. Heading(Rules[i].tid, <<Own>>)
    BY <2>1 DEF Heading
  <2> QED
    BY <1>14, <2>2, <2>3, <2>4 DEF Prints
<1>15. CASE i = 32
  <2>1. Rules[i].tid = "NUMBER" /\ Rules[i].sub = Blank /\ Rules[i].kids = <<>>
    BY <1>15, OperandTrees, Zenon DEF Tree, Blank
  <2>2. Len(Rules[i].kids) = 0 /\ Rules[i].sub # "RETURN"
    BY <1>0, <2>1
  <2>3. PartsOf[<<Rules[i].tid, Rules[i].sub>>] = <<IntConst>>
    BY <2>1, LogNumber
  <2>4. Heading(Rules[i].tid, <<IntConst>>)
    BY <2>1 DEF Heading
  <2> QED
    BY <1>15, <2>2, <2>3, <2>4 DEF Prints
<1>16. CASE i = 33
  <2>1. Rules[i].tid = "UNARY_EXPR" /\ Rules[i].sub = "Pri" /\ Rules[i].kids = <<1>>
    BY <1>16, OperandTrees, Zenon DEF Tree, Blank
  <2>2. Len(Rules[i].kids) = 1 /\ Rules[i].sub # "RETURN"
    BY <1>0, <2>1
  <2>3. PartsOf[<<Rules[i].tid, Rules[i].sub>>] = <<Kid(1)>>
    BY <2>1, LogUnaryExprPri
  <2>4. Heading(Rules[i].tid, <<Kid(1)>>)
    BY <2>1 DEF Heading
  <2> QED
    BY <1>16, <2>2, <2>3, <2>4 DEF Prints
<1>17. CASE i = 34
  <2>1. Rules[i].tid = "UNARY_EXPR" /\ Rules[i].sub = "Una" /\ Rules[i].kids = <<1, 2>>
    BY <1>17, OperandTrees, Zenon DEF Tree, Blank
  <2>2. Len(Rules[i].kids) = 2 /\ Rules[i].sub # "RETURN"
    BY <1>0, <2>1
  <2>3. PartsOf[<<Rules[i].tid, Rules[i].sub>>] = <<Kid(1), Kid(2)>>
    BY <2>1, LogUnaryExprUna
  <2>4. Heading(Rules[i].tid, <<Kid(1), Kid(2)>>)
    BY <2>1 DEF Heading
  <2> QED
    BY <1>17, <2>2, <2>3, <2>4 DEF Prints
<1>18. CASE i = 35
  <2>1. Rules[i].tid = "UNARY_OP" /\ Rules[i].sub = Blank /\ Rules[i].kids = <<>>
    BY <1>18, OperandTrees, Zenon DEF Tree, Blank
  <2>2. Len(Rules[i].kids) = 0 /\ Rules[i].sub # "RETURN"
    BY <1>0, <2>1
  <2>3. PartsOf[<<Rules[i].tid, Rules[i].sub>>] = <<Own>>
    BY <2>1, LogUnaryOp
  <2>4. Heading(Rules[i].tid, <<Own>>)
    BY <2>1 DEF Heading
  <2> QED
    BY <1>18, <2>2, <2>3, <2>4 DEF Prints
<1>19. CASE i = 36
  <2>1. Rules[i].tid = "MUL_EXPR" /\ Rules[i].sub = "Una" /\ Rules[i].kids = <<1>>
    BY <1>19, ArithmeticTrees, Zenon DEF Tree, Blank
  <2>2. Len(Rules[i].kids) = 1 /\ Rules[i].sub # "RETURN"
    BY <1>0, <2>1
  <2>3. PartsOf[<<Rules[i].tid, Rules[i].sub>>] = <<Kid(1)>>
    BY <2>1, LogMulExprUna
  <2>4. Heading(Rules[i].tid, <<Kid(1)>>)
    BY <2>1 DEF Heading
  <2> QED
    BY <1>19, <2>2, <2>3, <2>4 DEF Prints
<1>20. CASE i = 37
  <2>1. Rules[i].tid = "MUL_EXPR" /\ Rules[i].sub = "Mul" /\ Rules[i].kids = <<1, 2, 3>>
    BY <1>20, ArithmeticTrees, Zenon DEF Tree, Blank
  <2>2. Len(Rules[i].kids) = 3 /\ Rules[i].sub # "RETURN"
    BY <1>0, <2>1
  <2>3. PartsOf[<<Rules[i].tid, Rules[i].sub>>] = <<Kid(1), Kid(2), Kid(3)>>
    BY <2>1, LogMulExprMul
  <2>4. Heading(Rules[i].tid, <<Kid(1), Kid(2), Kid(3)>>)
    BY <2>1 DEF Heading
  <2> QED
    BY <1>20, <2>2, <2>3, <2>4 DEF Prints
<1>21. CASE i = 38
  <2>1. Rules[i].tid = "ADD_EXPR" /\ Rules[i].sub = "Mul" /\ Rules[i].kids = <<1>>
    BY <1>21, ArithmeticTrees, Zenon DEF Tree, Blank
  <2>2. Len(Rules[i].kids) = 1 /\ Rules[i].sub # "RETURN"
    BY <1>0, <2>1
  <2>3. PartsOf[<<Rules[i].tid, Rules[i].sub>>] = <<Kid(1)>>
    BY <2>1, LogAddExprMul
  <2>4. Heading(Rules[i].tid, <<Kid(1)>>)
    BY <2>1 DEF Heading
  <2> QED
    BY <1>21, <2>2, <2>3, <2>4 DEF Prints
<1>22. CASE i = 40
  <2>1. Rules[i].tid = "BINARY_OP" /\ Rules[i].sub = Blank /\ Rules[i].kids = <<>>
    BY <1>22, ArithmeticTrees, Zenon DEF Tree, Blank
  <2>2. Len(Rules[i].kids) = 0 /\ Rules[i].sub # "RETURN"
    BY <1>0, <2>1
  <2>3. PartsOf[<<Rules[i].tid, Rules[i].sub>>] = <<Own>>
    BY <2>1, LogBinaryOp
  <2>4. Heading(Rules[i].tid, <<Own>>)
    BY <2>1 DEF Heading
  <2> QED
    BY <1>22, <2>2, <2>3, <2>4 DEF Prints
<1>23. CASE i = 41
  <2>1. Rules[i].tid = "REL_EXPR" /\ Rules[i].sub = "Add" /\ Rules[i].kids = <<1>>
    BY <1>23, ChainTrees, Zenon DEF Tree, Blank
  <2>2. Len(Rules[i].kids) = 1 /\ Rules[i].sub # "RETURN"
    BY <1>0, <2>1
  <2>3. PartsOf[<<Rules[i].tid, Rules[i].sub>>] = <<Kid(1)>>
    BY <2>1, LogRelExprAdd
  <2>4. Heading(Rules[i].tid, <<Kid(1)>>)
    BY <2>1 DEF Heading
  <2> QED
    BY <1>23, <2>2, <2>3, <2>4 DEF Prints
<1>24. CASE i = 43
  <2>1. Rules[i].tid = "EQ_EXPR" /\ Rules[i].sub = "Rel" /\ Rules[i].kids = <<1>>
    BY <1>24, ChainTrees, Zenon DEF Tree, Blank
  <2>2. Len(Rules[i].kids) = 1 /\ Rules[i].sub # "RETURN"
    BY <1>0, <2>1
  <2>3. PartsOf[<<Rules[i].tid, Rules[i].sub>>] = <<Kid(1)>>
    BY <2>1, LogEqExprRel
  <2>4. Heading(Rules[i].tid, <<Kid(1)>>)
    BY <2>1 DEF Heading
  <2> QED
    BY <1>24, <2>2, <2>3, <2>4 DEF Prints
<1>25. CASE i = 46
  <2>1. Rules[i].tid = "LAND_EXPR" /\ Rules[i].sub = "Eq" /\ Rules[i].kids = <<1>>
    BY <1>25, ChainTrees, Zenon DEF Tree, Blank
  <2>2. Len(Rules[i].kids) = 1 /\ Rules[i].sub # "RETURN"
    BY <1>0, <2>1
  <2>3. PartsOf[<<Rules[i].tid, Rules[i].sub>>] = <<Kid(1)>>
    BY <2>1, LogLandExprEq
  <2>4. Heading(Rules[i].tid, <<Kid(1)>>)
    BY <2>1 DEF Heading
  <2> QED
    BY <1>25, <2>2, <2>3, <2>4 DEF Prints
<1>26. CASE i = 48
  <2>1. Rules[i].tid = "LOR_EXPR" /\ Rules[i].sub = "LAnd" /\ Rules[i].kids = <<1>>
    BY <1>26, ChainTrees, Zenon DEF Tree, Blank
  <2>2. Len(Rules[i].kids) = 1 /\ Rules[i].sub # "RETURN"
    BY <1>0, <2>1
  <2>3. PartsOf[<<Rules[i].tid, Rules[i].sub>>] = <<Kid(1)>>
    BY <2>1, LogLorExprLAnd
  <2>4. Heading(Rules[i].tid, <<Kid(1)>>)
    BY <2>1 DEF Heading
  <2> QED
    BY <1>26, <2>2, <2>3, <2>4 DEF Prints
<1>27. i = 2 \/ i = 3 \/ i = 4 \/ i = 5 \/ i = 6 \/ i = 7 \/ i = 9 \/ i = 14 \/ i = 26 \/ i = 27 \/ i = 28 \/ i = 29 \/ i = 30 \/ i = 31 \/ i = 32 \/ i = 33 \/ i = 34 \/ i = 35 \/ i = 36 \/ i = 37 \/ i = 38 \/ i = 40 \/ i = 41 \/ i = 43 \/ i = 46 \/ i = 48
  BY Zenon DEF Reduces, Ends
<1> QED
  BY <1>1, <1>2, <1>3, <1>4, <1>5, <1>6, <1>7, <1>8, <1>9, <1>10, <1>11, <1>12, <1>13, <1>14, <1>15, <1>16, <1>17, <1>18, <1>19, <1>20, <1>21, <1>22, <1>23, <1>24, <1>25, <1>26, <1>27

\* The nodes that the parser makes can be printed.
PrintedNode(node) ==
    IF node.tid = "TOKEN" THEN node.sub \in Classes
    ELSE LET parts == PartsOf[<<node.tid, node.sub>>]
         IN  /\ node.sub # "RETURN" /\ Heading(node.tid, parts)
             /\ \A k \in DOMAIN parts : PrintedPart(parts[k], Len(node.kids))

\* Every node is one that log can print.
Printable(h) == \A n \in 1..Len(h) : PrintedNode(h[n])

\* What log prints of the node of a rule is there to be printed.
LEMMA RuleParts ==
    ASSUME NEW i, NEW c, Reduces(c, i)
    PROVE  LET parts == PartsOf[<<Rules[i].tid, Rules[i].sub>>]
           IN  /\ Rules[i].sub # "RETURN" /\ Heading(Rules[i].tid, parts)
               /\ \A k \in DOMAIN parts : PrintedPart(parts[k], Len(Rules[i].kids))
<1> DEFINE n == Len(Rules[i].kids)
           Good(parts) == \A k \in DOMAIN parts : PrintedPart(parts[k], n)
           Has(parts) == Prints(i, parts, n)
<1>1. n = 1 => Good(<<Kid(1)>>)
  BY DEF PrintedPart
<1>2. n = 0 => Good(<<Own>>)
  BY DEF PrintedPart
<1>2a. n = 0 => Good(<<IntConst>>)
  BY DEF PrintedPart
<1>3. n = 2 => Good(<<Kid(1), Kid(2)>>)
  BY DEF PrintedPart
<1>4. n = 3 => Good(<<Kid(1), Kid(2), Kid(3)>>)
  BY DEF PrintedPart
<1>5. n = 1 => Good(<<Verbatim("("), Kid(1), Verbatim(")")>>)
  BY DEF PrintedPart
<1>6. n = 2 => Good(<<Kid(1), Own, Kid(2)>>)
  BY DEF PrintedPart
<1>7. n = 0 => Good(<<Verbatim("int")>>)
  BY DEF PrintedPart
<1>8. Good(<<>>)
  OBVIOUS
<1> HIDE DEF Good
<1>9. \E parts : Has(parts) /\ Good(parts)
  <2>1. \A parts, k : Prints(i, parts, k) => n = k /\ Has(parts)
    BY DEF Prints
  <2> HIDE DEF n, Has
  <2> QED
    BY <2>1, <1>1, <1>2, <1>2a, <1>3, <1>4, <1>5, <1>6, <1>7, <1>8, RulePrints, Zenon
<1> QED
  BY <1>9 DEF Prints, Good

-----------------------------------------------------------------------------
(***************************************************************************)
(* Every node has a log, so that the recursion of Dump unfolds.            *)
(***************************************************************************)
LEMMA PrintableGrows ==
    ASSUME Planted, Printable(nodes), NEW v, nodes' = Append(nodes, v), PrintedNode(v)
    PROVE  Printable(nodes')
<1>1. /\ Len(nodes) \in Nat /\ Len(nodes') = Len(nodes) + 1
      /\ \A n \in 1..Len(nodes) : nodes'[n] = nodes[n]
      /\ nodes'[Len(nodes) + 1] = v
  BY HeapGrows
<1>2. \A n \in 1..Len(nodes') : n \in 1..Len(nodes) \/ n = Len(nodes) + 1
  BY <1>1
<1> QED
  BY <1>1, <1>2 DEF Printable

\* What a reduction builds.
LEMMA ReducedNode ==
    ASSUME ParserInv, Traced, Planted, NEW i, NEW d, Reduced(i, d)
    PROVE  LET v == Build(Rules[i], RhsValues(i))
           IN  /\ v.tid = Rules[i].tid /\ v.sub = Rules[i].sub /\ v.tid # "TOKEN"
               /\ Len(v.kids) = Len(Rules[i].kids)
               /\ \A k \in 1..Len(Rules[i].kids) : v.kids[k] = RhsValues(i)[Rules[i].kids[k]]
               /\ v.tok = IF Rules[i].own = 0 THEN NoText ELSE nodes[RhsValues(i)[Rules[i].own]].tok
               /\ nodes' = Append(nodes, v)
<1> DEFINE rhs == RhsValues(i)
           rule == Rules[i]
           v == Build(rule, rhs)
           S == 1..Len(nodes)
           n == Len(Rules[i].rhs)
           p == Name(Len(states) - Len(Rules[i].rhs))
<1>1. rhs \in Seq(S) /\ Len(rhs) = n
  BY RhsFacts
<1>2. Reduces(Top, i) /\ Reduction(i, p, d)
  BY DEF Reduced
<1>3. rule.kids \in Seq(1..n)
  BY <1>2, LiveKids
<1>4. rule.tid # "TOKEN"
  <2> HIDE DEF p, rule
  <2>1. HoldsNode(d, Rules[i].tid) /\ Rules[i].tid # "TOKEN"
    BY <1>2, ReduceFits
  <2> QED
    BY <2>1 DEF rule
<1>5. nodes' = Append(nodes, v)
  BY DEF Reduced, RhsValues, Pushed
<1> HIDE DEF n, S, rhs, rule, v
<1>6. /\ v.tid = rule.tid /\ v.sub = rule.sub /\ Len(v.kids) = Len(rule.kids)
      /\ \A k \in 1..Len(rule.kids) : v.kids[k] = rhs[rule.kids[k]]
      /\ v.tok = IF rule.own = 0 THEN NoText ELSE nodes[rhs[rule.own]].tok
  <2>1. rule.kids \in Seq(1..Len(rhs))
    BY <1>1, <1>3
  <2> QED
    BY <1>1, <2>1, BuildFacts DEF v
<1> QED
  BY <1>4, <1>5, <1>6 DEF v, rule, rhs

\* Every step keeps the heap printable.
LEMMA PrintableNext ==
    ParserInv /\ Traced /\ Planted /\ Printable(nodes) /\ [Next \/ Returned]_vars => Printable(nodes')
<1> SUFFICES ASSUME ParserInv, Traced, Planted, Printable(nodes), [Next \/ Returned]_vars
             PROVE  Printable(nodes')
  OBVIOUS
<1>1. CASE Shift
  <2> DEFINE t == lookahead[1]
             v == Token(t)
  <2>1. PICK d : Pushed(Len(states), d, v)
    BY <1>1, ShiftStep
  <2>2. t \in Classes
    BY <1>1, ShiftStep
  <2>3. PrintedNode(v)
    BY <2>2 DEF PrintedNode, Token
  <2>4. nodes' = Append(nodes, v)
    BY <2>1 DEF Pushed
  <2> HIDE DEF v
  <2> QED
    BY <2>3, <2>4, PrintableGrows
<1>2. CASE Reduce
  <2>1. PICK i, d : Reduced(i, d)
    BY <1>2, ReduceStep
  <2> DEFINE v == Build(Rules[i], RhsValues(i))
  <2>2. /\ v.tid = Rules[i].tid /\ v.sub = Rules[i].sub /\ v.tid # "TOKEN"
        /\ Len(v.kids) = Len(Rules[i].kids) /\ nodes' = Append(nodes, v)
    BY <2>1, ReducedNode
  <2>3. Reduces(Top, i)
    BY <2>1 DEF Reduced
  <2> HIDE DEF v
  <2>4. PrintedNode(v)
    <3> DEFINE parts == PartsOf[<<Rules[i].tid, Rules[i].sub>>]
    <3>1. /\ Rules[i].sub # "RETURN" /\ Heading(Rules[i].tid, parts)
          /\ \A k \in DOMAIN parts : PrintedPart(parts[k], Len(Rules[i].kids))
      BY <2>3, RuleParts
    <3>2. parts = PartsOf[<<v.tid, v.sub>>]
      BY <2>2
    <3> HIDE DEF parts
    <3> QED
      BY <2>2, <3>1, <3>2 DEF PrintedNode
  <2> QED
    BY <2>2, <2>4, PrintableGrows
<1>3. CASE Lex \/ Error \/ Accept \/ UNCHANGED vars
  <2>1. nodes' = nodes
    BY <1>3 DEF Lex, Error, Accept, vars
  <2> QED
    BY <2>1
<1> QED
  BY <1>1, <1>2, <1>3 DEF Next, Returned

\* Every node that the parser builds is one that log can print.
LEMMA ParserPrintable == Spec => []Printable(nodes)
<1>1. Init => Printable(nodes)
  <2>1. Init => Len(nodes) = 0
    BY DEF Init
  <2> QED
    BY <2>1 DEF Printable
<1>2. ParserInv /\ Traced /\ Planted /\ Printable(nodes) /\ [Next \/ Returned]_vars => Printable(nodes)'
  BY PrintableNext
<1> QED
  BY <1>1, <1>2, ParserInvariant, ParserTraced, ParserPlants, PTL DEF Spec

-----------------------------------------------------------------------------
\* The dump of a node of the heap h, given those of the nodes below it by f.
DumpOf(h, f, n) ==
    LET node == h[n]
        parts == PartsOf[<<node.tid, node.sub>>]
        Part(k) ==
            IF k \notin DOMAIN parts THEN <<>>
            ELSE CASE parts[k][1] = "kid" -> f[node.kids[parts[k][2]]]
                   [] parts[k][1] = "own" -> << <<"text", node.tok>> >>
                   [] parts[k][1] = "int const" -> <<Number(node.tok)>>
                   [] parts[k][1] = "word" -> <<parts[k]>>
    IN  IF node.tid = "TOKEN" THEN <<TokenLexeme(node.sub, node.tok)>>
        ELSE Part(1) \o Part(2) \o Part(3)

\* What a part of a log prints.
PartDump(h, f, n, part) ==
    CASE part[1] = "kid" -> f[h[n].kids[part[2]]]
      [] part[1] = "own" -> << <<"text", h[n].tok>> >>
      [] part[1] = "int const" -> <<Number(h[n].tok)>>
      [] part[1] = "word" -> <<part>>

\* The dump of each kind of part: of a sub-tree, of the text of the node, and of
\* a word.
LEMMA KidDump ==
    ASSUME NEW h, NEW f, NEW n, NEW k
    PROVE  PartDump(h, f, n, Kid(k)) = f[h[n].kids[k]]
BY DEF PartDump, Kid

\* The same of the text.
LEMMA OwnDump ==
    ASSUME NEW h, NEW f, NEW n
    PROVE  PartDump(h, f, n, Own) = << <<"text", h[n].tok>> >>
BY DEF PartDump, Own

\* A literal prints as the int that was read of it.
LEMMA NumberDump ==
    ASSUME NEW h, NEW f, NEW n
    PROVE  PartDump(h, f, n, IntConst) = <<Number(h[n].tok)>>
BY DEF PartDump, IntConst

\* The same of a word.
LEMMA WordDump ==
    ASSUME NEW h, NEW f, NEW n, NEW x
    PROVE  PartDump(h, f, n, Verbatim(x)) = <<Verbatim(x)>>
BY DEF PartDump, Verbatim

\* What is printed consists of lexemes.
LEMMA LexemesOf ==
    /\ \A tok \in Nat : <<"text", tok>> \in Lexemes
    /\ \A tok \in Nat : Number(tok) \in Lexemes
    /\ \A c \in Classes, tok \in Nat : TokenLexeme(c, tok) \in Lexemes
    /\ \A x \in {"int", "(", ")"} : Verbatim(x) \in Lexemes
BY DEF Lexemes, TokenLexeme, Verbatim

\* f gives what log prints of every node of h.
IsDump(h, f) ==
    /\ f \in [1..Len(h) -> Seq(Lexemes)]
    /\ \A n \in 1..Len(h) : f[n] = DumpOf(h, f, n)

\* What is printed of a part is a sequence of lexemes.
LEMMA PartTyped ==
    ASSUME NEW h, BuiltUp(h), NEW f \in [1..Len(h) -> Seq(Lexemes)], NEW n \in 1..Len(h),
           NEW part, PrintedPart(part, Len(h[n].kids))
    PROVE  PartDump(h, f, n, part) \in Seq(Lexemes)
<1>1. CASE \E k \in 1..Len(h[n].kids) : part = Kid(k)
  <2>1. PICK k \in 1..Len(h[n].kids) : part = Kid(k)
    BY <1>1
  <2>2. k \in DOMAIN h[n].kids
    BY DEF BuiltUp
  <2>3. h[n].kids[k] \in 1..Len(h)
    BY <2>2, KidsBefore
  <2>4. f[h[n].kids[k]] \in Seq(Lexemes)
    BY <2>3
  <2>5. PartDump(h, f, n, Kid(k)) = f[h[n].kids[k]]
    BY KidDump
  <2> QED
    BY <2>1, <2>4, <2>5
<1>2. CASE part = Own
  <2>1. <<"text", h[n].tok>> \in Lexemes
    BY LexemesOf DEF BuiltUp
  <2>2. << <<"text", h[n].tok>> >> \in Seq(Lexemes)
    BY <2>1
  <2>3. PartDump(h, f, n, Own) = << <<"text", h[n].tok>> >>
    BY OwnDump
  <2> QED
    BY <1>2, <2>2, <2>3
<1>3. CASE \E x \in {"int", "(", ")"} : part = Verbatim(x)
  <2>1. PICK x \in {"int", "(", ")"} : part = Verbatim(x)
    BY <1>3
  <2>2. Verbatim(x) \in Lexemes
    BY LexemesOf
  <2>3. <<Verbatim(x)>> \in Seq(Lexemes)
    BY <2>2
  <2>4. PartDump(h, f, n, Verbatim(x)) = <<Verbatim(x)>>
    BY WordDump
  <2> QED
    BY <2>1, <2>3, <2>4
<1>4. CASE part = IntConst
  <2>1. Number(h[n].tok) \in Lexemes
    BY LexemesOf DEF BuiltUp
  <2>2. <<Number(h[n].tok)>> \in Seq(Lexemes)
    BY <2>1
  <2>3. PartDump(h, f, n, IntConst) = <<Number(h[n].tok)>>
    BY NumberDump
  <2> QED
    BY <1>4, <2>2, <2>3
<1> QED
  BY <1>1, <1>2, <1>3, <1>4 DEF PrintedPart

\* The parts of a dump one by one.
Piece(h, f, n, k) ==
    LET parts == PartsOf[<<h[n].tid, h[n].sub>>]
    IN  IF k \in DOMAIN parts THEN PartDump(h, f, n, parts[k]) ELSE <<>>

\* The dump of a node is that of its first three parts; there are no more.
LEMMA DumpByPieces ==
    ASSUME NEW h, NEW f, NEW n
    PROVE  DumpOf(h, f, n) =
               IF h[n].tid = "TOKEN" THEN <<TokenLexeme(h[n].sub, h[n].tok)>>
               ELSE Piece(h, f, n, 1) \o Piece(h, f, n, 2) \o Piece(h, f, n, 3)
<1> DEFINE parts == PartsOf[<<h[n].tid, h[n].sub>>]
           C(k) == CASE parts[k][1] = "kid" -> f[h[n].kids[parts[k][2]]]
                     [] parts[k][1] = "own" -> << <<"text", h[n].tok>> >>
                     [] parts[k][1] = "int const" -> <<Number(h[n].tok)>>
                     [] parts[k][1] = "word" -> <<parts[k]>>
           P(k) == IF k \notin DOMAIN parts THEN <<>> ELSE C(k)
<1>1. DumpOf(h, f, n) = IF h[n].tid = "TOKEN" THEN <<TokenLexeme(h[n].sub, h[n].tok)>>
                        ELSE P(1) \o P(2) \o P(3)
  BY DEF DumpOf
<1>2. ASSUME NEW k PROVE P(k) = Piece(h, f, n, k)
  <2>1. PartDump(h, f, n, parts[k]) = C(k)
    BY DEF PartDump
  <2>2. Piece(h, f, n, k) = IF k \in DOMAIN parts THEN PartDump(h, f, n, parts[k]) ELSE <<>>
    BY DEF Piece
  <2>3. P(k) = IF k \notin DOMAIN parts THEN <<>> ELSE C(k)
    OBVIOUS
  <2> HIDE DEF P, C, parts
  <2> QED
    BY <2>1, <2>2, <2>3
<1> HIDE DEF P
<1>3. P(1) = Piece(h, f, n, 1) /\ P(2) = Piece(h, f, n, 2) /\ P(3) = Piece(h, f, n, 3)
  BY <1>2
<1> QED
  BY <1>1, <1>3

\* What is printed of the k-th part is a sequence of lexemes.
LEMMA PieceTyped ==
    ASSUME NEW h, BuiltUp(h), Printable(h), NEW f \in [1..Len(h) -> Seq(Lexemes)],
           NEW n \in 1..Len(h), h[n].tid # "TOKEN", NEW k
    PROVE  Piece(h, f, n, k) \in Seq(Lexemes)
<1> DEFINE parts == PartsOf[<<h[n].tid, h[n].sub>>]
<1>1. \A j \in DOMAIN parts : PrintedPart(parts[j], Len(h[n].kids))
  BY DEF Printable, PrintedNode
<1>2. Piece(h, f, n, k) = IF k \in DOMAIN parts THEN PartDump(h, f, n, parts[k]) ELSE <<>>
  BY DEF Piece
<1> HIDE DEF parts
<1>3. k \in DOMAIN parts => PartDump(h, f, n, parts[k]) \in Seq(Lexemes)
  BY <1>1, PartTyped
<1> QED
  BY <1>2, <1>3

\* So is what is printed of a node.
LEMMA DumpOfTyped ==
    ASSUME NEW h, BuiltUp(h), Printable(h), NEW f \in [1..Len(h) -> Seq(Lexemes)], NEW n \in 1..Len(h)
    PROVE  DumpOf(h, f, n) \in Seq(Lexemes)
<1>1. CASE h[n].tid = "TOKEN"
  <2>1. h[n].sub \in Classes /\ h[n].tok \in Nat
    BY <1>1 DEF Printable, PrintedNode, BuiltUp
  <2>2. TokenLexeme(h[n].sub, h[n].tok) \in Lexemes
    BY <2>1, LexemesOf
  <2>3. <<TokenLexeme(h[n].sub, h[n].tok)>> \in Seq(Lexemes)
    BY <2>2
  <2> QED
    BY <1>1, <2>3, DumpByPieces
<1>2. CASE h[n].tid # "TOKEN"
  <2> DEFINE P(k) == Piece(h, f, n, k)
  <2>1. P(1) \in Seq(Lexemes) /\ P(2) \in Seq(Lexemes) /\ P(3) \in Seq(Lexemes)
    BY <1>2, PieceTyped
  <2>2. DumpOf(h, f, n) = P(1) \o P(2) \o P(3)
    BY <1>2, DumpByPieces
  <2> HIDE DEF P
  <2>3. P(1) \o P(2) \o P(3) \in Seq(Lexemes)
    BY <2>1, ConcatProperties
  <2> QED
    BY <2>2, <2>3
<1> QED
  BY <1>1, <1>2

\* The dump of a node needs those of its sub-trees only.
LEMMA DumpOfSame ==
    ASSUME NEW h, NEW f, NEW h2, NEW f2, NEW n, h[n] = h2[n], PrintedNode(h[n]),
           \A k \in 1..Len(h[n].kids) : f[h[n].kids[k]] = f2[h[n].kids[k]]
    PROVE  DumpOf(h, f, n) = DumpOf(h2, f2, n)
<1>1. CASE h[n].tid = "TOKEN"
  BY <1>1, DumpByPieces
<1>2. CASE h[n].tid # "TOKEN"
  <2> DEFINE parts == PartsOf[<<h[n].tid, h[n].sub>>]
  <2>1. \A j \in DOMAIN parts : PrintedPart(parts[j], Len(h[n].kids))
    BY <1>2 DEF PrintedNode
  <2>2. \A part : PrintedPart(part, Len(h[n].kids)) => PartDump(h, f, n, part) = PartDump(h2, f2, n, part)
    <3> TAKE part
    <3> HAVE PrintedPart(part, Len(h[n].kids))
    <3>1. CASE \E k \in 1..Len(h[n].kids) : part = Kid(k)
      <4>1. PICK k \in 1..Len(h[n].kids) : part = Kid(k)
        BY <3>1
      <4>2. PartDump(h, f, n, Kid(k)) = f[h[n].kids[k]] /\ PartDump(h2, f2, n, Kid(k)) = f2[h2[n].kids[k]]
        BY KidDump
      <4>3. f[h[n].kids[k]] = f2[h2[n].kids[k]]
        BY <4>1
      <4> QED
        BY <4>1, <4>2, <4>3
    <3>2. CASE part = Own
      <4>1. /\ PartDump(h, f, n, Own) = << <<"text", h[n].tok>> >>
            /\ PartDump(h2, f2, n, Own) = << <<"text", h2[n].tok>> >>
        BY OwnDump
      <4> QED
        BY <3>2, <4>1
    <3>3. CASE \E x \in {"int", "(", ")"} : part = Verbatim(x)
      <4>1. PICK x : part = Verbatim(x)
        BY <3>3
      <4>2. PartDump(h, f, n, Verbatim(x)) = <<Verbatim(x)>> /\ PartDump(h2, f2, n, Verbatim(x)) = <<Verbatim(x)>>
        BY WordDump
      <4> QED
        BY <4>1, <4>2
    <3>4. CASE part = IntConst
      <4>1. /\ PartDump(h, f, n, IntConst) = <<Number(h[n].tok)>>
            /\ PartDump(h2, f2, n, IntConst) = <<Number(h2[n].tok)>>
        BY NumberDump
      <4> QED
        BY <3>4, <4>1
    <3> QED
      BY <3>1, <3>2, <3>3, <3>4 DEF PrintedPart
  <2>3. \A k : Piece(h, f, n, k) = Piece(h2, f2, n, k)
    <3> TAKE k
    <3>1. /\ Piece(h, f, n, k) = IF k \in DOMAIN parts THEN PartDump(h, f, n, parts[k]) ELSE <<>>
          /\ Piece(h2, f2, n, k) = IF k \in DOMAIN parts THEN PartDump(h2, f2, n, parts[k]) ELSE <<>>
      BY DEF Piece
    <3> HIDE DEF parts
    <3> QED
      BY <2>1, <2>2, <3>1
  <2>4. DumpOf(h, f, n) = Piece(h, f, n, 1) \o Piece(h, f, n, 2) \o Piece(h, f, n, 3)
    BY <1>2, DumpByPieces
  <2>5. DumpOf(h2, f2, n) = Piece(h2, f2, n, 1) \o Piece(h2, f2, n, 2) \o Piece(h2, f2, n, 3)
    BY <1>2, DumpByPieces
  <2>6. /\ Piece(h, f, n, 1) = Piece(h2, f2, n, 1) /\ Piece(h, f, n, 2) = Piece(h2, f2, n, 2)
        /\ Piece(h, f, n, 3) = Piece(h2, f2, n, 3)
    BY <2>3
  <2> QED
    BY <2>4, <2>5, <2>6
<1> QED
  BY <1>1, <1>2

\* The dump of a node depends on its kids only.
LEMMA DumpOfAlike ==
    ASSUME NEW h, NEW f, NEW g, NEW n, PrintedNode(h[n]),
           \A k \in 1..Len(h[n].kids) : f[h[n].kids[k]] = g[h[n].kids[k]]
    PROVE  DumpOf(h, f, n) = DumpOf(h, g, n)
<1>1. h[n] = h[n]
  OBVIOUS
<1> QED
  BY <1>1, DumpOfSame

\* There is a function that gives the dump of every node: by recursion over the
\* heap, where the kids of a node come before it.
LEMMA DumpExists ==
    ASSUME NEW h, BuiltUp(h), Printable(h)
    PROVE  \E f : IsDump(h, f)
<1> DEFINE D == Seq(Lexemes)
           N == 1..Len(h)
           lev == [n \in N |-> n]
           Rebuilt(p) == DumpOf(h, p[1], p[2])
           step == [p \in [N -> D] \X N |-> Rebuilt(p)]
<1>1. lev \in [N -> Nat] /\ D # {}
  <2>1. <<>> \in D
    OBVIOUS
  <2>2. \A n \in N : n \in Nat
    BY DEF BuiltUp
  <2> HIDE DEF D, N
  <2> QED
    BY <2>1, <2>2
<1>2. \A p \in [N -> D] \X N : Rebuilt(p) \in D
  <2> TAKE p \in [N -> D] \X N
  <2>1. p[1] \in [1..Len(h) -> Seq(Lexemes)] /\ p[2] \in 1..Len(h)
    OBVIOUS
  <2> QED
    BY <2>1, DumpOfTyped
<1>3. step \in [[N -> D] \X N -> D]
  <2> HIDE DEF N, D, Rebuilt
  <2> QED
    BY <1>2
<1>4. \A f, g \in [N -> D], n \in N :
          (\A k \in N : lev[k] < lev[n] => f[k] = g[k]) => step[<<f, n>>] = step[<<g, n>>]
  <2> TAKE f, g \in [N -> D], n \in N
  <2> HAVE \A k \in N : lev[k] < lev[n] => f[k] = g[k]
  <2>0. h[n].kids \in Seq(1..n-1) /\ PrintedNode(h[n])
    BY DEF BuiltUp, Printable
  <2>1. \A k \in 1..Len(h[n].kids) : f[h[n].kids[k]] = g[h[n].kids[k]]
    <3> TAKE k \in 1..Len(h[n].kids)
    <3>0. k \in DOMAIN h[n].kids
      BY <2>0
    <3> DEFINE j == h[n].kids[k]
    <3>1. j \in 1..n-1 /\ j \in N
      BY <3>0, KidsBefore
    <3> HIDE DEF j
    <3>2. lev[j] < lev[n]
      BY <3>1 DEF BuiltUp
    <3> QED
      BY <3>1, <3>2 DEF j
  <2>2. DumpOf(h, f, n) = DumpOf(h, g, n)
    BY <2>0, <2>1, DumpOfAlike
  <2> HIDE DEF N, D
  <2>3. step[<<f, n>>] = Rebuilt(<<f, n>>) /\ step[<<g, n>>] = Rebuilt(<<g, n>>)
    OBVIOUS
  <2> QED
    BY <2>2, <2>3
<1>5. \E f : IsSolution(f, N, D, step)
  <2> HIDE DEF N, D, lev, step
  <2>1. IsRecursion(N, lev, D, step)
    BY <1>1, <1>3, <1>4 DEF IsRecursion
  <2> QED
    BY <2>1, RecursionExists
<1>6. PICK f : f \in [N -> D] /\ \A n \in N : f[n] = step[<<f, n>>]
  BY <1>5 DEF IsSolution
<1>7. \A n \in N : f[n] = DumpOf(h, f, n)
  <2> TAKE n \in N
  <2> HIDE DEF N, D
  <2>1. step[<<f, n>>] = Rebuilt(<<f, n>>)
    BY <1>6
  <2> QED
    BY <1>6, <2>1
<1> QED
  BY <1>6, <1>7 DEF IsDump

\* The dump of a node does not change when the heap grows.
LEMMA DumpsAgree ==
    ASSUME NEW h, BuiltUp(h), Printable(h), NEW h2, \A n \in 1..Len(h) : h2[n] = h[n],
           Len(h2) \in Nat, Len(h2) >= Len(h),
           NEW f, NEW f2, IsDump(h, f), IsDump(h2, f2)
    PROVE  \A n \in 1..Len(h) : f2[n] = f[n]
<1> DEFINE N == 1..Len(h)
           P == {n \in N : f2[n] = f[n]}
           lev == [n \in N |-> n]
<1>1. \A n \in N : lev[n] \in Nat
  BY DEF BuiltUp
<1>2. \A n \in N : (\A k \in N : lev[k] < lev[n] => k \in P) => n \in P
  <2> TAKE n \in N
  <2> HAVE \A k \in N : lev[k] < lev[n] => k \in P
  <2>0. h[n].kids \in Seq(1..n-1) /\ PrintedNode(h[n])
    BY DEF BuiltUp, Printable
  <2>1. \A k \in 1..Len(h[n].kids) : f[h[n].kids[k]] = f2[h[n].kids[k]]
    <3> TAKE k \in 1..Len(h[n].kids)
    <3>0. k \in DOMAIN h[n].kids
      BY <2>0
    <3> DEFINE j == h[n].kids[k]
    <3>1. j \in 1..n-1 /\ j \in N
      BY <3>0, KidsBefore
    <3> HIDE DEF j
    <3>2. lev[j] < lev[n]
      BY <3>1 DEF BuiltUp
    <3> QED
      BY <3>1, <3>2 DEF j
  <2>2. DumpOf(h, f, n) = DumpOf(h2, f2, n)
    <3>1. h[n] = h2[n]
      OBVIOUS
    <3>2. PrintedNode(h[n])
      BY <2>0
    <3> HIDE DEF N, P, lev
    <3> QED
      BY <2>1, <3>1, <3>2, DumpOfSame
  <2>3. n \in 1..Len(h2)
    BY DEF BuiltUp
  <2>4. f[n] = DumpOf(h, f, n) /\ f2[n] = DumpOf(h2, f2, n)
    BY <2>3 DEF IsDump
  <2> QED
    BY <2>2, <2>4
<1>3. N \subseteq P
  <2> HIDE DEF N, P, lev
  <2> QED
    BY <1>1, <1>2, LevelInduction
<1> QED
  BY <1>3

\* Dump is defined.
LEMMA DumpIs == Planted /\ Printable(nodes) => IsDump(nodes, Dump)
<1> SUFFICES ASSUME Planted, Printable(nodes) PROVE IsDump(nodes, Dump)
  OBVIOUS
<1> DEFINE Body(f) == [n \in DOMAIN nodes |-> DumpOf(nodes, f, n)]
<1>1. BuiltUp(nodes)
  BY PlantedUp
<1>2. PICK f : IsDump(nodes, f)
  BY <1>1, DumpExists
<1>3. DOMAIN nodes = 1..Len(nodes)
  BY <1>1 DEF BuiltUp
<1>4. f = Body(f)
  <2>1. f = [n \in DOMAIN nodes |-> f[n]]
    BY <1>2, <1>3 DEF IsDump
  <2>2. \A n \in DOMAIN nodes : f[n] = DumpOf(nodes, f, n)
    BY <1>2, <1>3 DEF IsDump
  <2> QED
    BY <2>1, <2>2, Zenon
<1>5. Dump = CHOOSE g : g = Body(g)
  BY DEF Dump, DumpOf
<1>6. Dump = Body(Dump)
  <2> HIDE DEF Body
  <2> QED
    BY <1>4, <1>5
<1> DEFINE P == Dump
<1>7. P = [n \in DOMAIN nodes |-> DumpOf(nodes, P, n)]
  BY <1>6
<1>8. f \in [1..Len(nodes) -> Seq(Lexemes)] /\ \A n \in 1..Len(nodes) : f[n] = DumpOf(nodes, f, n)
  BY <1>2 DEF IsDump
<1> HIDE DEF P
<1>9. \A n \in 1..Len(nodes) : P[n] = DumpOf(nodes, P, n)
  BY <1>3, <1>7
<1> DEFINE N == 1..Len(nodes)
           Q == {n \in N : P[n] = f[n]}
           lev == [n \in N |-> n]
<1>10. \A n \in N : lev[n] \in Nat
  BY <1>1 DEF BuiltUp
<1>11. \A n \in N : (\A k \in N : lev[k] < lev[n] => k \in Q) => n \in Q
  <2> TAKE n \in N
  <2> HAVE \A k \in N : lev[k] < lev[n] => k \in Q
  <2>0. nodes[n].kids \in Seq(1..n-1) /\ PrintedNode(nodes[n])
    BY <1>1 DEF BuiltUp, Printable
  <2>1. \A k \in 1..Len(nodes[n].kids) : P[nodes[n].kids[k]] = f[nodes[n].kids[k]]
    <3> TAKE k \in 1..Len(nodes[n].kids)
    <3>0. k \in DOMAIN nodes[n].kids
      BY <2>0
    <3> DEFINE j == nodes[n].kids[k]
    <3>1. j \in 1..n-1 /\ j \in N
      BY <1>1, <3>0, KidsBefore
    <3> HIDE DEF j
    <3>2. lev[j] < lev[n]
      BY <1>1, <3>1 DEF BuiltUp
    <3> QED
      BY <3>1, <3>2 DEF j
  <2>2. DumpOf(nodes, P, n) = DumpOf(nodes, f, n)
    BY <2>0, <2>1, DumpOfAlike
  <2> QED
    BY <1>8, <1>9, <2>2
<1>12. N \subseteq Q
  <2> HIDE DEF N, Q, lev
  <2> QED
    BY <1>10, <1>11, LevelInduction
<1>13. P \in [1..Len(nodes) -> Seq(Lexemes)]
  BY <1>3, <1>7, <1>8, <1>12
<1> QED
  BY <1>9, <1>13 DEF P, IsDump

\* What is known of Dump from its recursion.
DumpDefined == BuiltUp(nodes) /\ Printable(nodes) /\ IsDump(nodes, Dump)

\* It holds in every state of the parser.
LEMMA DumpHolds == Planted /\ Printable(nodes) => DumpDefined
BY PlantedUp, DumpIs DEF DumpDefined

\* After a step as before it.
LEMMA DumpHoldsNext == Planted' /\ Printable(nodes)' => DumpDefined'
BY DumpHolds, PTL

-----------------------------------------------------------------------------
(***************************************************************************)
(* The dump of a node, by what its class prints.                           *)
(***************************************************************************)
\* Dumps do not change when the heap grows.
LEMMA DumpStays ==
    ASSUME Planted, Planted', Printable(nodes), Printable(nodes)', NEW v, nodes' = Append(nodes, v)
    PROVE  \A n \in 1..Len(nodes) : Dump'[n] = Dump[n]
<1> DEFINE h == nodes
           h2 == nodes'
           f1 == Dump
           f2 == Dump'
<1>1. /\ Len(nodes) \in Nat /\ Len(nodes') = Len(nodes) + 1
      /\ \A k \in 1..Len(nodes) : nodes'[k] = nodes[k]
  BY HeapGrows
<1>2. BuiltUp(h) /\ Printable(h) /\ IsDump(h, f1) /\ IsDump(h2, f2)
  BY DumpHolds, DumpHoldsNext DEF DumpDefined
<1>3. /\ \A k \in 1..Len(h) : h2[k] = h[k]
      /\ Len(h2) \in Nat /\ Len(h2) >= Len(h)
  BY <1>1
<1> HIDE DEF h, h2, f1, f2
<1>4. \A k \in 1..Len(h) : f2[k] = f1[k]
  BY <1>2, <1>3, DumpsAgree
<1> QED
  BY <1>4 DEF h, f1, f2

\* A heap and its dumps.
Dumped(h, f) == BuiltUp(h) /\ Printable(h) /\ IsDump(h, f)

\* The parts that log prints of the node n.
PartsAt(h, n) == PartsOf[<<h[n].tid, h[n].sub>>]

\* The dump of a token is its lexeme.
LEMMA DumpOfToken ==
    ASSUME NEW h, NEW f, Dumped(h, f), NEW n \in 1..Len(h), h[n].tid = "TOKEN"
    PROVE  f[n] = <<TokenLexeme(h[n].sub, h[n].tok)>>
<1>1. f[n] = DumpOf(h, f, n)
  BY DEF Dumped, IsDump
<1> QED
  BY <1>1, DumpByPieces

\* The dump of another node joins its pieces.
LEMMA DumpPieces ==
    ASSUME NEW h, NEW f, Dumped(h, f), NEW n \in 1..Len(h), h[n].tid # "TOKEN"
    PROVE  /\ f[n] = Piece(h, f, n, 1) \o Piece(h, f, n, 2) \o Piece(h, f, n, 3)
           /\ Piece(h, f, n, 1) \in Seq(Lexemes)
           /\ Piece(h, f, n, 2) \in Seq(Lexemes)
           /\ Piece(h, f, n, 3) \in Seq(Lexemes)
<1>1. f[n] = DumpOf(h, f, n)
  BY DEF Dumped, IsDump
<1>2. f[n] = Piece(h, f, n, 1) \o Piece(h, f, n, 2) \o Piece(h, f, n, 3)
  BY <1>1, DumpByPieces
<1>3. BuiltUp(h) /\ Printable(h) /\ f \in [1..Len(h) -> Seq(Lexemes)]
  BY DEF Dumped, IsDump
<1>4. \A k : Piece(h, f, n, k) \in Seq(Lexemes)
  BY <1>3, PieceTyped
<1> QED
  BY <1>2, <1>4

\* The dump of a node of no part is empty.
LEMMA DumpNoPart ==
    ASSUME NEW h, NEW f, Dumped(h, f), NEW n \in 1..Len(h), h[n].tid # "TOKEN", PartsAt(h, n) = <<>>
    PROVE  f[n] = <<>>
<1>1. \A k : Piece(h, f, n, k) = <<>>
  BY DEF Piece, PartsAt
<1>2. f[n] = <<>> \o <<>> \o <<>>
  BY <1>1, DumpPieces
<1>3. <<>> \in Seq(Lexemes)
  OBVIOUS
<1>4. <<>> \o <<>> = <<>>
  BY <1>3, ConcatEmptySeq
<1> QED
  BY <1>2, <1>4

\* The dump of a node of one part is that of the part.
LEMMA DumpOnePart ==
    ASSUME NEW h, NEW f, Dumped(h, f), NEW n \in 1..Len(h), h[n].tid # "TOKEN",
           NEW a, PartsAt(h, n) = <<a>>
    PROVE  f[n] = PartDump(h, f, n, a)
<1> DEFINE x == PartDump(h, f, n, a)
<1>1. Piece(h, f, n, 1) = x /\ Piece(h, f, n, 2) = <<>> /\ Piece(h, f, n, 3) = <<>>
  BY DEF Piece, PartsAt
<1> HIDE DEF x
<1>2. f[n] = x \o <<>> \o <<>> /\ x \in Seq(Lexemes)
  BY <1>1, DumpPieces
<1>3. x \o <<>> = x
  BY <1>2, ConcatEmptySeq
<1> QED
  BY <1>2, <1>3 DEF x

\* The dump of a node of two parts joins them.
LEMMA DumpTwoParts ==
    ASSUME NEW h, NEW f, Dumped(h, f), NEW n \in 1..Len(h), h[n].tid # "TOKEN",
           NEW a, NEW b, PartsAt(h, n) = <<a, b>>
    PROVE  f[n] = PartDump(h, f, n, a) \o PartDump(h, f, n, b)
<1> DEFINE x == PartDump(h, f, n, a)
           y == PartDump(h, f, n, b)
<1>1. Piece(h, f, n, 1) = x /\ Piece(h, f, n, 2) = y /\ Piece(h, f, n, 3) = <<>>
  BY DEF Piece, PartsAt
<1> HIDE DEF x, y
<1>2. f[n] = x \o y \o <<>> /\ x \in Seq(Lexemes) /\ y \in Seq(Lexemes)
  BY <1>1, DumpPieces
<1>3. x \o y \in Seq(Lexemes)
  BY <1>2, ConcatProperties
<1>4. (x \o y) \o <<>> = x \o y
  BY <1>3, ConcatEmptySeq
<1> QED
  BY <1>2, <1>4, Zenon DEF x, y

-----------------------------------------------------------------------------
\* The dumps of the nodes of an expression, by what their class prints.
LEMMA DumpOfPass ==
    ASSUME NEW h, NEW f, Dumped(h, f), NEW n \in 1..Len(h), h[n].tid # "TOKEN", PartsAt(h, n) = <<Kid(1)>>
    PROVE  f[n] = f[h[n].kids[1]]
BY DumpOnePart, KidDump

\* The dump of a node that prints its own text.
LEMMA DumpOfOwn ==
    ASSUME NEW h, NEW f, Dumped(h, f), NEW n \in 1..Len(h), h[n].tid # "TOKEN", PartsAt(h, n) = <<Own>>
    PROVE  f[n] = << <<"text", h[n].tok>> >>
BY DumpOnePart, OwnDump

\* A node of a literal prints that int.
LEMMA DumpOfNumber ==
    ASSUME NEW h, NEW f, Dumped(h, f), NEW n \in 1..Len(h), h[n].tid # "TOKEN", PartsAt(h, n) = <<IntConst>>
    PROVE  f[n] = <<Number(h[n].tok)>>
BY DumpOnePart, NumberDump

\* The dump of the node of a type.
LEMMA DumpOfInt ==
    ASSUME NEW h, NEW f, Dumped(h, f), NEW n \in 1..Len(h), h[n].tid # "TOKEN", PartsAt(h, n) = <<Verbatim("int")>>
    PROVE  f[n] = << Verbatim("int") >>
BY DumpOnePart, WordDump

\* The dump of a node that prints two sub-trees.
LEMMA DumpOfPair ==
    ASSUME NEW h, NEW f, Dumped(h, f), NEW n \in 1..Len(h), h[n].tid # "TOKEN", PartsAt(h, n) = <<Kid(1), Kid(2)>>
    PROVE  f[n] = f[h[n].kids[1]] \o f[h[n].kids[2]]
<1>1. f[n] = PartDump(h, f, n, Kid(1)) \o PartDump(h, f, n, Kid(2))
  BY DumpTwoParts
<1>2. PartDump(h, f, n, Kid(1)) = f[h[n].kids[1]] /\ PartDump(h, f, n, Kid(2)) = f[h[n].kids[2]]
  BY KidDump
<1> QED
  BY <1>1, <1>2

\* The dump of a node that prints three sub-trees.
LEMMA DumpOfTriple ==
    ASSUME NEW h, NEW f, Dumped(h, f), NEW n \in 1..Len(h), h[n].tid # "TOKEN",
           PartsAt(h, n) = <<Kid(1), Kid(2), Kid(3)>>
    PROVE  f[n] = f[h[n].kids[1]] \o f[h[n].kids[2]] \o f[h[n].kids[3]]
<1> DEFINE a == Kid(1)
           b == Kid(2)
           c == Kid(3)
<1>1. f[n] = PartDump(h, f, n, a) \o PartDump(h, f, n, b) \o PartDump(h, f, n, c)
  <2>1. PartsAt(h, n) = <<a, b, c>>
    OBVIOUS
  <2> HIDE DEF a, b, c
  <2>2. /\ Piece(h, f, n, 1) = PartDump(h, f, n, a) /\ Piece(h, f, n, 2) = PartDump(h, f, n, b)
        /\ Piece(h, f, n, 3) = PartDump(h, f, n, c)
    BY <2>1 DEF Piece, PartsAt
  <2> QED
    BY <2>2, DumpPieces
<1>2. /\ PartDump(h, f, n, Kid(1)) = f[h[n].kids[1]] /\ PartDump(h, f, n, Kid(2)) = f[h[n].kids[2]]
      /\ PartDump(h, f, n, Kid(3)) = f[h[n].kids[3]]
  BY KidDump
<1> QED
  BY <1>1, <1>2

\* The dump of an expression in parentheses.
LEMMA DumpOfParens ==
    ASSUME NEW h, NEW f, Dumped(h, f), NEW n \in 1..Len(h), h[n].tid # "TOKEN",
           PartsAt(h, n) = <<Verbatim("("), Kid(1), Verbatim(")")>>
    PROVE  f[n] = <<Verbatim("(")>> \o f[h[n].kids[1]] \o <<Verbatim(")")>>
<1> DEFINE a == Verbatim("(")
           b == Kid(1)
           c == Verbatim(")")
<1>1. f[n] = PartDump(h, f, n, a) \o PartDump(h, f, n, b) \o PartDump(h, f, n, c)
  <2>1. PartsAt(h, n) = <<a, b, c>>
    OBVIOUS
  <2> HIDE DEF a, b, c
  <2>2. /\ Piece(h, f, n, 1) = PartDump(h, f, n, a) /\ Piece(h, f, n, 2) = PartDump(h, f, n, b)
        /\ Piece(h, f, n, 3) = PartDump(h, f, n, c)
    BY <2>1 DEF Piece, PartsAt
  <2> QED
    BY <2>2, DumpPieces
<1>2. PartDump(h, f, n, Kid(1)) = f[h[n].kids[1]]
  BY KidDump
<1>3. PartDump(h, f, n, Verbatim("(")) = <<Verbatim("(")>> /\ PartDump(h, f, n, Verbatim(")")) = <<Verbatim(")")>>
  BY WordDump
<1> QED
  BY <1>1, <1>2, <1>3

\* The dump of a function.
LEMMA DumpOfFunction ==
    ASSUME NEW h, NEW f, Dumped(h, f), NEW n \in 1..Len(h), h[n].tid # "TOKEN",
           PartsAt(h, n) = <<Kid(1), Own, Kid(2)>>
    PROVE  f[n] = f[h[n].kids[1]] \o << <<"text", h[n].tok>> >> \o f[h[n].kids[2]]
<1> DEFINE a == Kid(1)
           b == Own
           c == Kid(2)
<1>1. f[n] = PartDump(h, f, n, a) \o PartDump(h, f, n, b) \o PartDump(h, f, n, c)
  <2>1. PartsAt(h, n) = <<a, b, c>>
    OBVIOUS
  <2> HIDE DEF a, b, c
  <2>2. /\ Piece(h, f, n, 1) = PartDump(h, f, n, a) /\ Piece(h, f, n, 2) = PartDump(h, f, n, b)
        /\ Piece(h, f, n, 3) = PartDump(h, f, n, c)
    BY <2>1 DEF Piece, PartsAt
  <2> QED
    BY <2>2, DumpPieces
<1>2. PartDump(h, f, n, Kid(1)) = f[h[n].kids[1]] /\ PartDump(h, f, n, Kid(2)) = f[h[n].kids[2]]
  BY KidDump
<1>3. PartDump(h, f, n, Own) = << <<"text", h[n].tok>> >>
  BY OwnDump
<1> QED
  BY <1>1, <1>2, <1>3

\* The rules of expressions.
InExpr(i) == i \notin {2, 3, 4, 5, 6, 7, 9, 14, 26}

\* The rules of expressions, by what their nodes print.
LEMMA ExprShapes ==
    ASSUME NEW i, NEW c, Reduces(c, i), InExpr(i)
    PROVE  \/ Prints(i, <<Kid(1)>>, 1) /\ Shape(i, <<1>>, 0, 1)
           \/ Prints(i, <<Own>>, 0) /\ Shape(i, <<>>, 1, 1) /\ i \in {31, 35, 40}
           \/ Prints(i, <<IntConst>>, 0) /\ Shape(i, <<>>, 1, 1) /\ i = 32
           \/ Prints(i, <<Kid(1), Kid(2)>>, 2) /\ Shape(i, <<1, 2>>, 0, 2)
           \/ Prints(i, <<Kid(1), Kid(2), Kid(3)>>, 3) /\ Shape(i, <<1, 2, 3>>, 0, 3)
           \/ Prints(i, <<Verbatim("("), Kid(1), Verbatim(")")>>, 1) /\ Shape(i, <<2>>, 0, 3) /\ i = 28
<1> DEFINE m == Len(Rules[i].kids)
<1>1. /\ \A parts, k : Prints(i, parts, k) => m = k
      /\ \A ks, own, n : Shape(i, ks, own, n) => m = Len(ks)
  BY DEF Prints, Shape
<1>2. Len(<<>>) = 0 /\ Len(<<1>>) = 1 /\ Len(<<2>>) = 1 /\ Len(<<1, 2>>) = 2 /\ Len(<<1, 2, 3>>) = 3
      /\ Len(<<1, 5>>) = 2
  OBVIOUS
<1>3. /\ Shape(i, <<1>>, 0, 1) => m = 1
      /\ Shape(i, <<>>, 1, 1) => m = 0
      /\ Shape(i, <<>>, 0, 0) => m = 0
      /\ Shape(i, <<1, 2>>, 0, 2) => m = 2
      /\ Shape(i, <<2>>, 0, 3) => m = 1
      /\ Shape(i, <<1, 2, 3>>, 0, 3) => m = 3
  BY <1>1, <1>2
<1>4. Shape(31, <<>>, 1, 1)
  BY OperandTrees, LiveRules DEF Tree, Sized, Shape
<1>5. Shape(32, <<>>, 1, 1)
  BY OperandTrees, LiveRules DEF Tree, Sized, Shape
<1>6. Shape(35, <<>>, 1, 1)
  BY OperandTrees, LiveRules DEF Tree, Sized, Shape
<1>7. Shape(40, <<>>, 1, 1)
  BY ArithmeticTrees, LiveRules DEF Tree, Sized, Shape
<1>8. Shape(28, <<2>>, 0, 3)
  BY OperandTrees, LiveRules DEF Tree, Sized, Shape
<1>9. Shape(i, <<1>>, 0, 1) => ~Shape(i, <<2>>, 0, 3)
  BY DEF Shape
<1>10. CASE i = 28
  <2>1. Rules[i].tid = "PRIMARY_EXPR" /\ Rules[i].sub = "Expr" /\ Rules[i].kids = <<2>>
    BY <1>10, OperandTrees, Zenon DEF Tree, Blank
  <2>2. Len(Rules[i].kids) = 1 /\ Rules[i].sub # "RETURN"
    BY <2>1
  <2>3. PartsOf[<<Rules[i].tid, Rules[i].sub>>] = <<Verbatim("("), Kid(1), Verbatim(")")>>
    BY <2>1, LogPrimaryExprExpr
  <2>4. Heading(Rules[i].tid, <<Verbatim("("), Kid(1), Verbatim(")")>>)
    BY <2>1 DEF Heading
  <2> QED
    BY <1>8, <1>10, <2>2, <2>3, <2>4 DEF Prints
<1>11. CASE i # 28
  <2>1. \/ Prints(i, <<Kid(1)>>, 1)
        \/ Prints(i, <<Own>>, 0) /\ i \in {31, 35, 40}
        \/ Prints(i, <<IntConst>>, 0) /\ i = 32
        \/ Prints(i, <<Kid(1), Kid(2)>>, 2)
        \/ Prints(i, <<Kid(1), Kid(2), Kid(3)>>, 3)
    BY <1>11, RulePrints DEF InExpr
  <2>2. \/ Shape(i, <<1>>, 0, 1)
        \/ Shape(i, <<>>, 1, 1)
        \/ Shape(i, <<>>, 0, 0)
        \/ Shape(i, <<1, 2>>, 0, 2)
        \/ Shape(i, <<1, 2, 3>>, 0, 3)
    BY <1>11, RuleShapes DEF InExpr
  <2>3. CASE Prints(i, <<Kid(1)>>, 1)
    <3>1. m = 1
      BY <1>1, <2>3
    <3> QED
      BY <1>3, <2>2, <2>3, <3>1
  <2>4. CASE Prints(i, <<Own>>, 0) /\ i \in {31, 35, 40}
    BY <1>4, <1>6, <1>7, <2>4
  <2>4a. CASE Prints(i, <<IntConst>>, 0) /\ i = 32
    BY <1>5, <2>4a
  <2>5. CASE Prints(i, <<Kid(1), Kid(2)>>, 2)
    <3>1. m = 2
      BY <1>1, <2>5
    <3> QED
      BY <1>3, <2>2, <2>5, <3>1
  <2>6. CASE Prints(i, <<Kid(1), Kid(2), Kid(3)>>, 3)
    <3>1. m = 3
      BY <1>1, <2>6
    <3> QED
      BY <1>3, <2>2, <2>6, <3>1
  <2> QED
    BY <2>1, <2>3, <2>4, <2>4a, <2>5, <2>6
<1> QED
  BY <1>10, <1>11

\* The dump of a token on the stack.
LEMMA DumpOfNamed ==
    ASSUME TokensPlain, Dumped(nodes, Dump), NEW n \in 1..Len(nodes), NEW c \in NamedStates, Fits(c, nodes[n])
    PROVE  /\ c # 321 => Dump[n] = << <<"text", nodes[n].tok>> >>
           /\ c = 321 => Dump[n] = <<Number(nodes[n].tok)>>
<1>1. nodes[n].tid = "TOKEN" /\ nodes[n].sub \in TextClasses
  BY TokensByState
<1>1a. nodes[n].sub = "INT_CONST" <=> c = 321
  <2>1. HoldsToken(c, nodes[n].sub)
    BY <1>1 DEF Fits
  <2> QED
    BY <1>1, <2>1 DEF HoldsToken, NamedStates, TextClasses
<1>2. nodes[n].tok # NoText
  BY <1>1 DEF TokensPlain, PlainToken
<1>3. Dump[n] = <<TokenLexeme(nodes[n].sub, nodes[n].tok)>>
  <2> DEFINE h == nodes
             f == Dump
  <2>1. Dumped(h, f) /\ n \in 1..Len(h) /\ h[n].tid = "TOKEN"
    BY <1>1
  <2> HIDE DEF h, f
  <2>2. f[n] = <<TokenLexeme(h[n].sub, h[n].tok)>>
    BY <2>1, DumpOfToken
  <2> QED
    BY <2>2 DEF h, f
<1> QED
  BY <1>1a, <1>2, <1>3 DEF TokenLexeme

\* The dump of a parenthesis on the stack.
LEMMA DumpOfParen ==
    ASSUME TokensPlain, Dumped(nodes, Dump), NEW n \in 1..Len(nodes)
    PROVE  /\ Fits(281, nodes[n]) => Dump[n] = <<Verbatim("(")>>
           /\ Fits(283, nodes[n]) => Dump[n] = <<Verbatim(")")>>
<1>1. ASSUME NEW c \in {281, 283}, Fits(c, nodes[n])
      PROVE  Dump[n] = <<Verbatim(nodes[n].sub)>>
  <2>1. nodes[n].tid = "TOKEN" /\ nodes[n].sub \notin TextClasses
    BY <1>1, TokensByState DEF SilentStates
  <2>2. nodes[n].tok = NoText
    BY <2>1 DEF TokensPlain, PlainToken
  <2>3. Dump[n] = <<TokenLexeme(nodes[n].sub, nodes[n].tok)>>
    <3> DEFINE h == nodes
               f == Dump
    <3>1. Dumped(h, f) /\ n \in 1..Len(h) /\ h[n].tid = "TOKEN"
      BY <2>1
    <3> HIDE DEF h, f
    <3>2. f[n] = <<TokenLexeme(h[n].sub, h[n].tok)>>
      BY <3>1, DumpOfToken
    <3> QED
      BY <3>2 DEF h, f
  <2>4. nodes[n].sub # "INT_CONST"
    BY <2>1 DEF TextClasses
  <2> QED
    BY <2>2, <2>3, <2>4 DEF TokenLexeme, Verbatim
<1>2. Fits(281, nodes[n]) => nodes[n].sub = "("
  BY DEF Fits, HoldsToken, HoldsNode
<1>3. Fits(283, nodes[n]) => nodes[n].sub = ")"
  BY DEF Fits, HoldsToken, HoldsNode
<1> QED
  BY <1>1, <1>2, <1>3

\* The first sub-trees of what a reduction builds.
LEMMA KidsOne ==
    ASSUME NEW ks, NEW rk, NEW rhs, NEW a, Len(ks) = Len(rk), \A k \in 1..Len(rk) : ks[k] = rhs[rk[k]], rk = <<a>>
    PROVE  ks[1] = rhs[a]
OBVIOUS

\* The same of two.
LEMMA KidsTwo ==
    ASSUME NEW ks, NEW rk, NEW rhs, Len(ks) = Len(rk), \A k \in 1..Len(rk) : ks[k] = rhs[rk[k]], rk = <<1, 2>>
    PROVE  ks[1] = rhs[1] /\ ks[2] = rhs[2]
OBVIOUS

\* The same of three.
LEMMA KidsThree ==
    ASSUME NEW ks, NEW rk, NEW rhs, Len(ks) = Len(rk), \A k \in 1..Len(rk) : ks[k] = rhs[rk[k]], rk = <<1, 2, 3>>
    PROVE  ks[1] = rhs[1] /\ ks[2] = rhs[2] /\ ks[3] = rhs[3]
OBVIOUS

\* The dump of the new node of a reduction in an expression is that of the
\* values that it is built from.
LEMMA ReducedDumps ==
    ASSUME ParserInv, Traced, Planted, Planted', TokensPlain, Printable(nodes), Printable(nodes)',
           NEW i, NEW d, Reduced(i, d), InExpr(i),
           NEW t, \A k \in 1..Len(Rules[i].rhs) : t[k] = Dump[RhsValues(i)[k]]
    PROVE  Spelled(t, Len(Rules[i].rhs), Dump'[Len(nodes) + 1])
<1> DEFINE rhs == RhsValues(i)
           v == Build(Rules[i], rhs)
           N == Len(nodes)
           n == Len(Rules[i].rhs)
           rk == Rules[i].kids
           z == N + 1
           f == Dump'
           h == nodes'
<1> SUFFICES Spelled(t, n, f[z])
  OBVIOUS
<1>1. /\ rhs \in Seq(1..N) /\ Len(rhs) = n
      /\ n = 1 => Fits(Top, nodes[rhs[1]])
      /\ n > 1 => \A k \in 1..n : Fits(10 * i + k, nodes[rhs[k]])
  BY RhsFacts
<1>2. Reduces(Top, i)
  BY DEF Reduced
<1>3. /\ v.tid = Rules[i].tid /\ v.sub = Rules[i].sub /\ v.tid # "TOKEN"
      /\ Len(v.kids) = Len(rk) /\ \A k \in 1..Len(rk) : v.kids[k] = rhs[rk[k]]
      /\ v.tok = IF Rules[i].own = 0 THEN NoText ELSE nodes[rhs[Rules[i].own]].tok
      /\ nodes' = Append(nodes, v)
  BY ReducedNode
<1>4. N \in Nat /\ Len(h) = N + 1 /\ h[z] = v
  <2> HIDE DEF v
  <2> QED
    BY <1>3, HeapGrows
<1>5. \A k \in 1..N : f[k] = Dump[k]
  <2> HIDE DEF v
  <2> QED
    BY <1>3, DumpStays
<1>6. Dumped(h, f) /\ Dumped(nodes, Dump)
  BY DumpHolds, DumpHoldsNext DEF DumpDefined, Dumped
<1>7. z \in 1..Len(h)
  BY <1>4
<1>8. \A k \in 1..n : rhs[k] \in 1..N
  <2> DEFINE S == 1..N
  <2> HIDE DEF rhs, n, N, S
  <2>1. rhs \in Seq(S) /\ Len(rhs) = n
    BY <1>1 DEF S
  <2>2. \A k \in 1..n : rhs[k] \in S
    BY <2>1
  <2> QED
    BY <2>2 DEF S
<1>9. \A k \in 1..n : f[rhs[k]] = t[k] /\ t[k] = Dump[rhs[k]]
  BY <1>5, <1>8
<1>10. PartsAt(h, z) = PartsOf[<<Rules[i].tid, Rules[i].sub>>] /\ h[z].tid # "TOKEN"
       /\ h[z].kids = v.kids /\ h[z].tok = v.tok
  <2> HIDE DEF v, h
  <2> QED
    BY <1>3, <1>4 DEF PartsAt
<1> HIDE DEF v, h, f, z, N, rhs
<1>11. CASE Prints(i, <<Kid(1)>>, 1) /\ Shape(i, <<1>>, 0, 1)
  <2>1. PartsAt(h, z) = <<Kid(1)>> /\ rk = <<1>> /\ n = 1
    BY <1>10, <1>11 DEF Prints, Shape
  <2> HIDE DEF rk, n
  <2>2. v.kids[1] = rhs[1]
    BY <1>3, <2>1, KidsOne
  <2>3. f[z] = f[h[z].kids[1]]
    BY <1>6, <1>7, <1>10, <2>1, DumpOfPass
  <2>4. f[z] = t[1]
    BY <1>9, <1>10, <2>1, <2>2, <2>3
  <2> QED
    BY <2>1, <2>4 DEF Spelled
<1>12. CASE Prints(i, <<Own>>, 0) /\ Shape(i, <<>>, 1, 1) /\ i \in {31, 35, 40}
  <2>1. PartsAt(h, z) = <<Own>> /\ Rules[i].own = 1 /\ n = 1
    BY <1>10, <1>12 DEF Prints, Shape
  <2>2. Top \in NamedStates /\ Top # 321
    <3>1. Top \in NamedStates
      BY <1>2, <1>12, NamedReduces
    <3>2. Top # 321
      BY <1>2, <1>12 DEF Reduces, Ends
    <3> QED
      BY <3>1, <3>2
  <2> HIDE DEF rk, n
  <2>3. Fits(Top, nodes[rhs[1]]) /\ rhs[1] \in 1..Len(nodes)
    BY <1>1, <1>8, <2>1 DEF N
  <2>4. Dump[rhs[1]] = << <<"text", nodes[rhs[1]].tok>> >>
    BY <1>6, <2>2, <2>3, DumpOfNamed
  <2>5. v.tok = nodes[rhs[1]].tok
    BY <1>3, <2>1
  <2>6. f[z] = << <<"text", h[z].tok>> >>
    BY <1>6, <1>7, <1>10, <2>1, DumpOfOwn
  <2>7. f[z] = t[1]
    BY <1>9, <1>10, <2>1, <2>4, <2>5, <2>6
  <2> QED
    BY <2>1, <2>7 DEF Spelled
<1>12a. CASE Prints(i, <<IntConst>>, 0) /\ Shape(i, <<>>, 1, 1) /\ i = 32
  <2>1. PartsAt(h, z) = <<IntConst>> /\ Rules[i].own = 1 /\ n = 1
    BY <1>10, <1>12a DEF Prints, Shape
  <2>2. Top \in NamedStates /\ Top = 321
    BY <1>2, <1>12a, NamedReduces DEF Reduces, Ends
  <2> HIDE DEF rk, n
  <2>3. Fits(Top, nodes[rhs[1]]) /\ rhs[1] \in 1..Len(nodes)
    BY <1>1, <1>8, <2>1 DEF N
  <2>4. Dump[rhs[1]] = <<Number(nodes[rhs[1]].tok)>>
    BY <1>6, <2>2, <2>3, DumpOfNamed
  <2>5. v.tok = nodes[rhs[1]].tok
    BY <1>3, <2>1
  <2>6. f[z] = <<Number(h[z].tok)>>
    BY <1>6, <1>7, <1>10, <2>1, DumpOfNumber
  <2>7. f[z] = t[1]
    BY <1>9, <1>10, <2>1, <2>4, <2>5, <2>6
  <2> QED
    BY <2>1, <2>7 DEF Spelled
<1>13. CASE Prints(i, <<Kid(1), Kid(2)>>, 2) /\ Shape(i, <<1, 2>>, 0, 2)
  <2>1. PartsAt(h, z) = <<Kid(1), Kid(2)>> /\ rk = <<1, 2>> /\ n = 2
    BY <1>10, <1>13 DEF Prints, Shape
  <2> HIDE DEF rk, n
  <2>2. v.kids[1] = rhs[1] /\ v.kids[2] = rhs[2]
    BY <1>3, <2>1, KidsTwo
  <2>3. f[z] = f[h[z].kids[1]] \o f[h[z].kids[2]]
    BY <1>6, <1>7, <1>10, <2>1, DumpOfPair
  <2>4. f[rhs[1]] = t[1] /\ f[rhs[2]] = t[2]
    BY <1>9, <2>1
  <2>5. f[z] = t[1] \o t[2]
    BY <1>10, <2>2, <2>3, <2>4
  <2> QED
    BY <2>1, <2>5 DEF Spelled
<1>14. CASE Prints(i, <<Kid(1), Kid(2), Kid(3)>>, 3) /\ Shape(i, <<1, 2, 3>>, 0, 3)
  <2>1. PartsAt(h, z) = <<Kid(1), Kid(2), Kid(3)>> /\ rk = <<1, 2, 3>> /\ n = 3
    BY <1>10, <1>14 DEF Prints, Shape
  <2> HIDE DEF rk, n
  <2>2. v.kids[1] = rhs[1] /\ v.kids[2] = rhs[2] /\ v.kids[3] = rhs[3]
    BY <1>3, <2>1, KidsThree
  <2>3. f[z] = f[h[z].kids[1]] \o f[h[z].kids[2]] \o f[h[z].kids[3]]
    BY <1>6, <1>7, <1>10, <2>1, DumpOfTriple
  <2>4. f[rhs[1]] = t[1] /\ f[rhs[2]] = t[2] /\ f[rhs[3]] = t[3]
    BY <1>9, <2>1
  <2>5. f[z] = t[1] \o t[2] \o t[3]
    BY <1>10, <2>2, <2>3, <2>4
  <2> QED
    BY <2>1, <2>5 DEF Spelled
<1>15. CASE Prints(i, <<Verbatim("("), Kid(1), Verbatim(")")>>, 1) /\ Shape(i, <<2>>, 0, 3) /\ i = 28
  <2>1. PartsAt(h, z) = <<Verbatim("("), Kid(1), Verbatim(")")>> /\ rk = <<2>> /\ n = 3
    BY <1>10, <1>15 DEF Prints, Shape
  <2> HIDE DEF rk, n
  <2>2. v.kids[1] = rhs[2]
    BY <1>3, <2>1, KidsOne
  <2>3. f[z] = <<Verbatim("(")>> \o f[h[z].kids[1]] \o <<Verbatim(")")>>
    BY <1>6, <1>7, <1>10, <2>1, DumpOfParens
  <2>4. 10 * i + 1 = 281 /\ 10 * i + 3 = 283
    BY <1>15
  <2>5. /\ Fits(281, nodes[rhs[1]]) /\ Fits(283, nodes[rhs[3]])
        /\ rhs[1] \in 1..Len(nodes) /\ rhs[3] \in 1..Len(nodes)
    BY <1>1, <1>8, <2>1, <2>4 DEF N
  <2>6. Dump[rhs[1]] = <<Verbatim("(")>> /\ Dump[rhs[3]] = <<Verbatim(")")>>
    BY <1>6, <2>5, DumpOfParen
  <2>7. f[rhs[2]] = t[2] /\ t[1] = <<Verbatim("(")>> /\ t[3] = <<Verbatim(")")>>
    BY <1>9, <2>1, <2>6
  <2>8. f[z] = t[1] \o t[2] \o t[3]
    BY <1>10, <2>2, <2>3, <2>7
  <2> QED
    BY <2>1, <2>8 DEF Spelled
<1> QED
  BY <1>2, <1>11, <1>12, <1>12a, <1>13, <1>14, <1>15, ExprShapes

-----------------------------------------------------------------------------
(***************************************************************************)
(* The dumps on the stack are the expression that was read.                *)
(***************************************************************************)
\* The dumps of the values on the stack, and the returns among them.
ValueDumps == [k \in 1..Len(values) |-> Dump[values[k]]]

\* The positions of the returns on the stack.
ValueReturns == {k \in 1..Len(values) : nodes[values[k]].sub = "RETURN"}

\* What is known of DumpedExpr from its recursion.
DumpedDefined ==
    /\ IsJoin(DumpedExpr, ValueDumps, ValueReturns, Len(values))
    /\ \A k \in 1..Len(values) : ValueDumps[k] \in Seq(Lexemes) /\ ValueDumps[k] = Dump[values[k]]
    /\ Len(values) \in Nat

\* The lexemes of the program, and the returns among its tokens.
ReadLexemes == [k \in 1..Len(read) |-> <<Lexeme(k)>>]

\* The positions of the returns among the tokens.
ReadReturns == {k \in 1..Len(read) : read[k] = "RETURN"}

\* What is known of ReadExpr from its recursion.
WrittenDefined ==
    /\ IsJoin(ReadExpr, ReadLexemes, ReadReturns, Len(read))
    /\ \A k \in 1..Len(read) : ReadLexemes[k] \in Seq(Lexemes) /\ ReadLexemes[k] = <<Lexeme(k)>>
    /\ Len(read) \in Nat

\* DumpedExpr is defined.
LEMMA DumpedHolds == ParserInv /\ Planted /\ Printable(nodes) => DumpedDefined
<1> SUFFICES ASSUME ParserInv, Planted, Printable(nodes) PROVE DumpedDefined
  OBVIOUS
<1> DEFINE L == Len(values)
           g == ValueDumps
           r == ValueReturns
           Body(f) == [k \in 0..L |-> IF k = 0 THEN <<>>
                                      ELSE IF nodes[values[k]].sub = "RETURN" THEN <<>>
                                      ELSE f[k-1] \o Dump[values[k]]]
<1>1. L \in Nat
  BY DEF ParserInv, ParserTypeOK, StackShape, Linked
<1>2. \A k \in 1..L : g[k] = Dump[values[k]] /\ g[k] \in Seq(Lexemes)
  <2> TAKE k \in 1..L
  <2>1. values[k] \in 1..Len(nodes)
    BY DEF Planted
  <2>2. Dump \in [1..Len(nodes) -> Seq(Lexemes)]
    BY DumpIs DEF IsDump
  <2>3. g[k] = Dump[values[k]]
    BY DEF ValueDumps
  <2> QED
    BY <2>1, <2>2, <2>3
<1>3. \A k \in 1..L : k \in r <=> nodes[values[k]].sub = "RETURN"
  BY DEF ValueReturns
<1> HIDE DEF g, L, r
<1>4. PICK f : f \in [0..L -> Seq(Lexemes)] /\ IsJoin(f, g, r, L)
  BY <1>1, <1>2, JoinExists
<1>5. f = Body(f)
  <2>1. f = [k \in 0..L |-> f[k]]
    BY <1>4
  <2>2. \A k \in 0..L : f[k] = IF k = 0 THEN <<>>
                               ELSE IF nodes[values[k]].sub = "RETURN" THEN <<>>
                               ELSE f[k-1] \o Dump[values[k]]
    <3>1. f[0] = <<>> /\ \A k \in 1..L : f[k] = IF k \in r THEN <<>> ELSE f[k-1] \o g[k]
      BY <1>4 DEF IsJoin
    <3>2. \A k \in 0..L : k = 0 \/ k \in 1..L
      BY <1>1
    <3>3. \A k \in 1..L : k # 0
      BY <1>1
    <3> QED
      BY <1>2, <1>3, <3>1, <3>2, <3>3, Zenon
  <2> QED
    BY <2>1, <2>2, Zenon
<1>6. DumpedExpr = CHOOSE f2 : f2 = Body(f2)
  BY DEF DumpedExpr, L
<1>7. DumpedExpr = Body(DumpedExpr)
  <2> HIDE DEF Body
  <2> QED
    BY <1>5, <1>6
<1> DEFINE P == DumpedExpr
<1>8. P = [k \in 0..L |-> IF k = 0 THEN <<>>
                          ELSE IF nodes[values[k]].sub = "RETURN" THEN <<>>
                          ELSE P[k-1] \o Dump[values[k]]]
  BY <1>7
<1> HIDE DEF P
<1>9. P[0] = <<>> /\ \A k \in 1..L : P[k] = IF k \in r THEN <<>> ELSE P[k-1] \o g[k]
  <2>1. \A k \in 0..L : P[k] = IF k = 0 THEN <<>>
                               ELSE IF nodes[values[k]].sub = "RETURN" THEN <<>>
                               ELSE P[k-1] \o Dump[values[k]]
    BY <1>8, Zenon
  <2>2. 0 \in 0..L /\ \A k \in 1..L : k \in 0..L /\ k # 0
    BY <1>1
  <2> QED
    BY <1>2, <1>3, <2>1, <2>2, Zenon
<1>10. IsJoin(P, g, r, L)
  BY <1>9 DEF IsJoin
<1> QED
  BY <1>1, <1>2, <1>10 DEF P, L, g, r, DumpedDefined

\* The same after a step.
LEMMA DumpedHoldsNext == ParserInv' /\ Planted' /\ Printable(nodes)' => DumpedDefined'
BY DumpedHolds, PTL

\* ReadExpr is defined.
LEMMA WrittenHolds == ParserInv => WrittenDefined
<1> SUFFICES ASSUME ParserInv PROVE WrittenDefined
  OBVIOUS
<1> DEFINE L == Len(read)
           g == ReadLexemes
           r == ReadReturns
           Body(f) == [k \in 0..L |-> IF k = 0 THEN <<>>
                                      ELSE IF read[k] = "RETURN" THEN <<>>
                                      ELSE Append(f[k-1], Lexeme(k))]
<1>1. L \in Nat /\ \A k \in 1..L : read[k] \in Classes
  BY DEF ParserInv, ParserTypeOK
<1>2. \A k \in 1..L : Lexeme(k) \in Lexemes
  <2> TAKE k \in 1..L
  <2>1. k \in Nat /\ NoText \in Nat /\ read[k] \in Classes
    BY <1>1 DEF NoText
  <2> QED
    BY <2>1, LexemesOf DEF Lexeme
<1>3. \A k \in 1..L : g[k] = <<Lexeme(k)>> /\ g[k] \in Seq(Lexemes)
  BY <1>2 DEF ReadLexemes
<1>4. \A k \in 1..L : k \in r <=> read[k] = "RETURN"
  BY DEF ReadReturns
<1> HIDE DEF g, L, r
<1>5. PICK f : f \in [0..L -> Seq(Lexemes)] /\ IsJoin(f, g, r, L)
  BY <1>1, <1>3, JoinExists
<1>6. \A s \in Seq(Lexemes), k \in 1..L : Append(s, Lexeme(k)) = s \o g[k]
  <2> TAKE s \in Seq(Lexemes), k \in 1..L
  <2> DEFINE e == Lexeme(k)
  <2>1. e \in Lexemes /\ g[k] = <<e>>
    BY <1>2, <1>3
  <2> HIDE DEF e
  <2>2. Append(s, e) = s \o <<e>>
    BY <2>1, AppendIsConcat
  <2> QED
    BY <2>1, <2>2 DEF e
<1>7. f = Body(f)
  <2>1. f = [k \in 0..L |-> f[k]]
    BY <1>5
  <2>2. \A k \in 0..L : f[k] = IF k = 0 THEN <<>>
                               ELSE IF read[k] = "RETURN" THEN <<>>
                               ELSE Append(f[k-1], Lexeme(k))
    <3>1. f[0] = <<>> /\ \A k \in 1..L : f[k] = IF k \in r THEN <<>> ELSE f[k-1] \o g[k]
      BY <1>5 DEF IsJoin
    <3>2. \A k \in 0..L : k = 0 \/ k \in 1..L
      BY <1>1
    <3>3. \A k \in 1..L : k # 0 /\ k - 1 \in 0..L
      BY <1>1
    <3>4. \A k \in 1..L : f[k-1] \in Seq(Lexemes)
      BY <1>5, <3>3
    <3> QED
      BY <1>4, <1>6, <3>1, <3>2, <3>3, <3>4, Zenon
  <2> QED
    BY <2>1, <2>2, Zenon
<1>8. ReadExpr = CHOOSE f2 : f2 = Body(f2)
  BY DEF ReadExpr, L
<1>9. ReadExpr = Body(ReadExpr)
  <2> HIDE DEF Body
  <2> QED
    BY <1>7, <1>8
<1> DEFINE P == ReadExpr
<1>10. P = [k \in 0..L |-> IF k = 0 THEN <<>>
                           ELSE IF read[k] = "RETURN" THEN <<>>
                           ELSE Append(P[k-1], Lexeme(k))]
  BY <1>9
<1> HIDE DEF P
<1>11. \A k \in 0..L : P[k] = IF k = 0 THEN <<>>
                              ELSE IF read[k] = "RETURN" THEN <<>>
                              ELSE Append(P[k-1], Lexeme(k))
  BY <1>10, Zenon
<1>12. P[0] = <<>> /\ \A k \in 1..L : /\ k \in r => P[k] = <<>>
                                      /\ k \notin r => P[k] = Append(P[k-1], Lexeme(k))
  <2>1. 0 \in 0..L /\ \A k \in 1..L : k \in 0..L /\ k # 0
    BY <1>1
  <2> QED
    BY <1>4, <1>11, <2>1, Zenon
<1>13. f[0] = <<>> /\ \A k \in 1..L : /\ k \in r => f[k] = <<>>
                                      /\ k \notin r => f[k] = Append(f[k-1], Lexeme(k))
  <2>1. \A k \in 1..L : f[k-1] \in Seq(Lexemes)
    <3>1. \A k \in 1..L : k - 1 \in 0..L
      BY <1>1
    <3> QED
      BY <1>5, <3>1
  <2>2. f[0] = <<>> /\ \A k \in 1..L : f[k] = IF k \in r THEN <<>> ELSE f[k-1] \o g[k]
    BY <1>5 DEF IsJoin
  <2> QED
    BY <1>6, <2>1, <2>2, Zenon
<1>14. \A k \in 0..L : P[k] = f[k]
  <2>1. P[0] = f[0] /\ \A k \in 1..L : P[k-1] = f[k-1] => P[k] = f[k]
    BY <1>12, <1>13
  <2> QED
    BY <1>1, <2>1, ScansAgree
<1>15. IsJoin(P, g, r, L)
  <2>1. P[0] = f[0] /\ \A k \in 1..L : P[k] = f[k] /\ P[k-1] = f[k-1]
    <3>1. 0 \in 0..L /\ \A k \in 1..L : k \in 0..L /\ k - 1 \in 0..L
      BY <1>1
    <3> QED
      BY <1>14, <3>1
  <2> QED
    BY <1>5, <2>1 DEF IsJoin
<1> QED
  BY <1>1, <1>3, <1>15 DEF P, L, g, r, WrittenDefined

\* The same after a step.
LEMMA WrittenHoldsNext == ParserInv' => WrittenDefined'
BY WrittenHolds, PTL

\* The states of a program outside of its expressions and of its returns.
Statements == {10, 11, 21, 31, 32, 33, 34, 35, 41, 51, 52, 53, 71, 72, 91, 131, 132, 141, 171, 251}

\* No return is below them.
PlainStack == \A k \in 1..Len(states) : Name(k) \in Statements => \A j \in 1..k : Name(j) # 261

\* Below a state of a program there are only such states.
LEMMA PlainBelow ==
    ASSUME NEW p, NEW d, Over(p, d), d \in Statements
    PROVE  p \in Statements
BY SMTT(60) DEF Statements, Over, Operands

\* The stack is a path, so that no return is below them.
LEMMA TracedPlain == ParserInv /\ Traced => PlainStack
<1> SUFFICES ASSUME ParserInv, Traced PROVE PlainStack
  OBVIOUS
<1>1. Len(states) \in Nat
  BY TopFacts
<1> DEFINE N == 1..Len(states)
           lev == [n \in N |-> n]
           Low(k) == Name(k) \in Statements => \A j \in 1..k : Name(j) # 261
           P == {k \in N : Low(k)}
<1>2. \A k \in N : lev[k] \in Nat
  BY <1>1
<1>3. \A k \in N : (\A j \in N : lev[j] < lev[k] => j \in P) => k \in P
  <2> TAKE k \in N
  <2> HAVE \A j \in N : lev[j] < lev[k] => j \in P
  <2>1. k \in Nat /\ k >= 1 /\ k <= Len(states)
    BY <1>1
  <2> SUFFICES ASSUME Name(k) \in Statements, NEW j \in 1..k PROVE Name(j) # 261
    OBVIOUS
  <2>2. Name(k) # 261
    BY DEF Statements
  <2>3. CASE k = 1
    <3>1. j = k
      BY <2>3
    <3> QED
      BY <2>2, <3>1
  <2>4. CASE k > 1
    <3>1. k - 1 \in 1..Len(states) - 1 /\ (k - 1) + 1 = k /\ k - 1 \in N
      BY <1>1, <2>1, <2>4
    <3>2. Over(Name(k - 1), Name(k))
      BY <3>1 DEF Traced
    <3>3. Name(k - 1) \in Statements
      BY <3>2, PlainBelow
    <3>4. lev[k - 1] < lev[k]
      BY <2>1, <3>1
    <3>5. Low(k - 1)
      BY <3>1, <3>4
    <3>6. j = k \/ j \in 1..k - 1
      BY <2>1
    <3> QED
      BY <2>2, <3>3, <3>5, <3>6
  <2> QED
    BY <2>1, <2>3, <2>4
<1>4. N \subseteq P
  <2> HIDE DEF N, P, lev
  <2> QED
    BY <1>2, <1>3, LevelInduction
<1> QED
  BY <1>4 DEF PlainStack

\* The same after a step.
LEMMA TracedPlainNext == ParserInv' /\ Traced' => PlainStack'
BY TracedPlain, PTL

\* A return on the stack of values is below its state.
LEMMA ReturnState ==
    ASSUME Planted, Printable(nodes), NEW k \in 1..Len(values), nodes[values[k]].sub = "RETURN"
    PROVE  Name(k + 1) = 261
<1> DEFINE node == nodes[values[k]]
           c == Name(k + 1)
<1>1. values[k] \in 1..Len(nodes) /\ Fits(c, node)
  BY DEF Planted
<1>2. PrintedNode(node) /\ node.sub = "RETURN"
  BY <1>1 DEF Printable
<1> HIDE DEF node, c
<1>3. node.tid = "TOKEN"
  BY <1>2 DEF PrintedNode
<1>4. HoldsToken(c, "RETURN")
  BY <1>1, <1>2, <1>3 DEF Fits
<1>5. OpenBlock # "RETURN" /\ CloseBlock # "RETURN" /\ Semicolon # "RETURN"
  BY Zenon DEF OpenBlock, CloseBlock, Semicolon
<1>6. c = 261
  BY <1>4, <1>5 DEF HoldsToken
<1> QED
  BY <1>6 DEF c

\* What a push makes of the dumps on the stack.
LEMMA DumpedAfterPush ==
    ASSUME ParserInv, ParserInv', Planted, Planted', Printable(nodes), Printable(nodes)',
           NEW m \in 1..Len(states), NEW d, NEW v, Pushed(m, d, v)
    PROVE  /\ DumpedExpr'[Len(values')] = IF v.sub = "RETURN" THEN <<>>
                                          ELSE DumpedExpr[m - 1] \o Dump'[Len(nodes) + 1]
           /\ (\E k \in DOMAIN values' : nodes'[values'[k]].sub = "RETURN") =>
                  v.sub = "RETURN" \/ \E k \in DOMAIN values : k \in 1..m-1 /\ nodes[values[k]].sub = "RETURN"
<1>1. /\ Len(values') = m /\ nodes' = Append(nodes, v) /\ values'[m] = Len(nodes) + 1
      /\ \A k \in 1..m - 1 : values'[k] = values[k]
  BY DEF Pushed
<1>2. /\ m \in Nat /\ m >= 1 /\ Len(states) = Len(values) + 1 /\ Len(values) \in Nat
      /\ DOMAIN values = 1..Len(values) /\ DOMAIN values' = 1..Len(values')
  BY DEF ParserInv, ParserTypeOK, StackShape, Linked
<1>3. /\ \A n \in 1..Len(nodes) : nodes'[n] = nodes[n]
      /\ nodes'[Len(nodes) + 1] = v
  BY <1>1, HeapGrows
<1> DEFINE F == DumpedExpr
           G == DumpedExpr'
           g == ValueDumps
           g2 == ValueDumps'
           r == ValueReturns
           r2 == ValueReturns'
           T2 == Dump'
<1>4. /\ IsJoin(F, g, r, Len(values)) /\ \A k \in 1..Len(values) : g[k] = Dump[values[k]]
      /\ \A k \in 1..Len(values) : k \in r <=> nodes[values[k]].sub = "RETURN"
  BY DumpedHolds DEF DumpedDefined, ValueReturns
<1>5. /\ IsJoin(G, g2, r2, Len(values')) /\ \A k \in 1..Len(values') : g2[k] = T2[values'[k]]
      /\ \A k \in 1..Len(values') : k \in r2 <=> nodes'[values'[k]].sub = "RETURN"
  BY DumpedHoldsNext DEF DumpedDefined, ValueReturns
<1>6. \A n \in 1..Len(nodes) : T2[n] = Dump[n]
  BY <1>1, DumpStays
<1> HIDE DEF F, G, g, g2, r, r2, T2
<1>7. \A k \in 1..m - 1 : /\ g[k] = g2[k] /\ (k \in r <=> k \in r2)
                          /\ nodes'[values'[k]].sub = nodes[values[k]].sub
  <2> TAKE k \in 1..m - 1
  <2>1. k \in 1..Len(values) /\ k \in 1..Len(values')
    BY <1>1, <1>2
  <2>2. values[k] \in 1..Len(nodes)
    BY <2>1 DEF Planted
  <2> QED
    BY <1>1, <1>3, <1>4, <1>5, <1>6, <2>1, <2>2
<1>8. IsJoin(F, g, r, m - 1) /\ IsJoin(G, g2, r2, m - 1)
  <2>1. \A k \in 1..m - 1 : k \in 1..Len(values) /\ k \in 1..Len(values')
    BY <1>1, <1>2
  <2> QED
    BY <1>4, <1>5, <2>1 DEF IsJoin
<1>9. F[m - 1] = G[m - 1]
  <2>1. m - 1 \in Nat /\ m - 1 \in 0..m - 1
    BY <1>2
  <2>2. \A k \in 0..m - 1 : F[k] = G[k]
    BY <1>7, <1>8, <2>1, JoinsAgree
  <2> QED
    BY <2>1, <2>2
<1>10. /\ G[m] = IF m \in r2 THEN <<>> ELSE G[m - 1] \o g2[m]
       /\ g2[m] = T2[Len(nodes) + 1] /\ (m \in r2 <=> v.sub = "RETURN")
  <2>1. m \in 1..Len(values')
    BY <1>1, <1>2
  <2> QED
    BY <1>1, <1>3, <1>5, <2>1 DEF IsJoin
<1>11. G[Len(values')] = IF v.sub = "RETURN" THEN <<>> ELSE F[m - 1] \o T2[Len(nodes) + 1]
  BY <1>1, <1>9, <1>10
<1>12. ASSUME NEW k \in DOMAIN values', nodes'[values'[k]].sub = "RETURN"
       PROVE  v.sub = "RETURN" \/ \E j \in DOMAIN values : j \in 1..m-1 /\ nodes[values[j]].sub = "RETURN"
  <2>1. k = m \/ k \in 1..m - 1
    BY <1>1, <1>2
  <2>2. k = m => v.sub = "RETURN"
    BY <1>1, <1>3, <1>12
  <2>3. k \in 1..m - 1 => nodes[values[k]].sub = "RETURN" /\ k \in DOMAIN values
    BY <1>2, <1>7, <1>12
  <2> QED
    BY <2>1, <2>2, <2>3
<1> QED
  BY <1>11, <1>12 DEF F, G, T2

\* What was read stays, whatever is read.
LEMMA WrittenStays ==
    ASSUME ParserInv, ParserInv', Len(read') >= Len(read),
           \A n \in 1..Len(read) : read'[n] = read[n]
    PROVE  \A n \in 0..Len(read) : ReadExpr'[n] = ReadExpr[n]
<1> DEFINE F == ReadExpr
           G == ReadExpr'
           g == ReadLexemes
           g2 == ReadLexemes'
           r == ReadReturns
           r2 == ReadReturns'
           L == Len(read)
           X(c, k) == <<TokenLexeme(c, IF c \in TextClasses THEN k ELSE NoText)>>
<1>1. /\ IsJoin(F, g, r, L) /\ L \in Nat
      /\ \A k \in 1..L : g[k] = X(read[k], k)
      /\ \A k \in 1..L : k \in r <=> read[k] = "RETURN"
  BY WrittenHolds DEF WrittenDefined, Lexeme, ReadReturns
<1>2. /\ IsJoin(G, g2, r2, Len(read')) /\ Len(read') \in Nat
      /\ \A k \in 1..Len(read') : g2[k] = X(read'[k], k)
      /\ \A k \in 1..Len(read') : k \in r2 <=> read'[k] = "RETURN"
  BY WrittenHoldsNext DEF WrittenDefined, Lexeme, ReadReturns
<1> HIDE DEF F, G, g, g2, r, r2, X
<1>3. \A k \in 1..L : k \in 1..Len(read')
  BY <1>1, <1>2
<1>4. \A k \in 1..L : g2[k] = g[k] /\ (k \in r2 <=> k \in r)
  BY <1>1, <1>2, <1>3
<1>5. IsJoin(G, g2, r2, L)
  BY <1>2, <1>3 DEF IsJoin
<1> HIDE DEF L
<1>6. \A n \in 0..L : G[n] = F[n]
  BY <1>1, <1>4, <1>5, JoinsAgree
<1> QED
  BY <1>6 DEF F, G, L

\* The invariants that the proof about the dumps needs.
DumpsInv == ParserInv /\ Traced /\ Planted /\ TokensPlain /\ Located /\ Printable(nodes)

\* Reading a token leaves the expression that was shifted as it was.
LEMMA DumpsLex ==
    DumpsInv /\ DumpsInv' /\ DumpReadsBack /\ Lex => DumpReadsBack'
<1> SUFFICES ASSUME ParserInv, ParserInv', DumpReadsBack, Lex PROVE DumpReadsBack'
  BY DEF DumpsInv
<1>1. ShiftedCount /\ ShiftedCount'
  BY ShiftedCounts, ShiftedCountsNext
<1>2. values' = values /\ nodes' = nodes /\ lookahead = <<>>
  BY DEF Lex
<1>3. Shifted' = Shifted /\ Shifted = Len(read) /\ Len(read) \in Nat /\ Len(read') >= Len(read)
      /\ \A j \in 1..Len(read) : read'[j] = read[j]
  <2>1. CASE read' = read /\ lookahead' = <<"$end">>
    BY <1>1, <1>2, <2>1 DEF ShiftedCount
  <2>2. ASSUME NEW c \in Classes, read' = Append(read, c), lookahead' = <<c>>
        PROVE  Shifted' = Shifted /\ Shifted = Len(read) /\ Len(read) \in Nat /\ Len(read') >= Len(read)
               /\ \A j \in 1..Len(read) : read'[j] = read[j]
    <3>1. c # "$end"
      BY NoStrClass
    <3>2. read \in Seq(Classes)
      BY DEF ParserInv, ParserTypeOK
    <3>3. Len(read') = Len(read) + 1 /\ \A j \in 1..Len(read) : read'[j] = read[j]
      BY <2>2, <3>2
    <3>4. lookahead' # <<>> /\ (lookahead[1])' # "$end"
      BY <2>2, <3>1
    <3> QED
      BY <1>1, <1>2, <3>3, <3>4 DEF ShiftedCount
  <2> QED
    BY <2>1, <2>2 DEF Lex
<1>4. ReadExpr'[Shifted'] = ReadExpr[Shifted]
  <2>1. \A n \in 0..Len(read) : ReadExpr'[n] = ReadExpr[n]
    BY <1>3, WrittenStays
  <2>2. Len(read) \in 0..Len(read)
    BY <1>3
  <2> QED
    BY <1>3, <2>1, <2>2
<1>5. Dump' = Dump
  BY <1>2 DEF Dump
<1>6. DumpedExpr' = DumpedExpr
  BY <1>2, <1>5 DEF DumpedExpr
<1> QED
  BY <1>2, <1>4, <1>6 DEF DumpReadsBack

\* A token that is shifted adds its lexeme on both sides, and a return empties
\* both.
LEMMA DumpsShift ==
    DumpsInv /\ DumpsInv' /\ DumpReadsBack /\ Shift => DumpReadsBack'
<1> SUFFICES ASSUME DumpsInv, DumpsInv', DumpReadsBack, Shift PROVE DumpReadsBack'
  OBVIOUS
<1>0. /\ ParserInv /\ Traced /\ Planted /\ Located /\ Printable(nodes)
      /\ ParserInv' /\ Planted' /\ Printable(nodes)'
  BY DEF DumpsInv
<1> DEFINE t == lookahead[1]
           K == Len(states)
           L == Len(read)
           v == Token(t)
           N == Len(nodes)
<1>1. PICK d : Pushed(K, d, v)
  BY <1>0, ShiftStep
<1>2. /\ lookahead # <<>> /\ t \in Classes /\ lookahead' = <<>> /\ read' = read
  BY <1>0, ShiftStep
<1>3. t # "$end"
  BY <1>2, NoStrClass
<1>4. ShiftedCount /\ ShiftedCount'
  BY <1>0, ShiftedCounts, ShiftedCountsNext
<1>5. /\ Shifted = L - 1 /\ Shifted' = L /\ L > 0 /\ read[L] = t /\ L \in Nat
  BY <1>0, <1>2, <1>3, <1>4 DEF ShiftedCount, Located
<1>6. K \in 1..K /\ K \in Nat /\ Len(values) = K - 1
  BY <1>0, TopFacts DEF ParserInv, ParserTypeOK
<1>7. /\ v.tid = "TOKEN" /\ v.sub = t /\ v.tok = IF t \in TextClasses THEN L ELSE NoText
  BY DEF Token
<1>8. /\ nodes'[N + 1] = v /\ Len(nodes') = N + 1 /\ N \in Nat
  <2>1. nodes' = Append(nodes, v)
    BY <1>1 DEF Pushed
  <2> HIDE DEF v
  <2> QED
    BY <1>0, <2>1, HeapGrows
<1> HIDE DEF v, t
<1>9. Dump'[N + 1] = <<Lexeme(L)>>
  <2> DEFINE h == nodes'
             f == Dump'
             n == N + 1
  <2>1. Dumped(h, f)
    BY <1>0, DumpHoldsNext DEF DumpDefined, Dumped
  <2>2. n \in 1..Len(h) /\ h[n] = v
    BY <1>8
  <2> HIDE DEF h, f, n
  <2>3. f[n] = <<TokenLexeme(h[n].sub, h[n].tok)>>
    BY <1>7, <2>1, <2>2, DumpOfToken
  <2>4. f[n] = <<TokenLexeme(t, IF t \in TextClasses THEN L ELSE NoText)>>
    BY <1>7, <2>2, <2>3
  <2> QED
    BY <1>5, <2>4 DEF f, n, Lexeme
<1>10. /\ DumpedExpr'[Len(values')] = IF v.sub = "RETURN" THEN <<>> ELSE DumpedExpr[K - 1] \o Dump'[N + 1]
       /\ (\E k \in DOMAIN values' : nodes'[values'[k]].sub = "RETURN") =>
              v.sub = "RETURN" \/ \E k \in DOMAIN values : k \in 1..K-1 /\ nodes[values[k]].sub = "RETURN"
  BY <1>0, <1>1, <1>6, DumpedAfterPush
<1>11. ReadExpr'[Shifted'] = IF t = "RETURN" THEN <<>> ELSE ReadExpr[L - 1] \o <<Lexeme(L)>>
  <2>1. ReadExpr' = ReadExpr
    BY <1>2 DEF ReadExpr, Lexeme
  <2>2. IsJoin(ReadExpr, ReadLexemes, ReadReturns, L) /\ \A k \in 1..L : ReadLexemes[k] = <<Lexeme(k)>>
    BY <1>0, WrittenHolds DEF WrittenDefined
  <2>3. L \in 1..L
    BY <1>5
  <2>4. L \in ReadReturns <=> t = "RETURN"
    BY <1>5, <2>3 DEF ReadReturns
  <2>5. ReadExpr[L] = IF L \in ReadReturns THEN <<>> ELSE ReadExpr[L - 1] \o ReadLexemes[L]
    BY <2>2, <2>3 DEF IsJoin
  <2> QED
    BY <1>5, <2>1, <2>2, <2>3, <2>4, <2>5
<1> SUFFICES ASSUME \E k \in DOMAIN values' : nodes'[values'[k]].sub = "RETURN"
             PROVE  DumpedExpr'[Len(values')] = ReadExpr'[Shifted']
  BY DEF DumpReadsBack
<1>12. CASE t = "RETURN"
  BY <1>7, <1>10, <1>11, <1>12
<1>13. CASE t # "RETURN"
  <2>1. \E k \in DOMAIN values : nodes[values[k]].sub = "RETURN"
    BY <1>7, <1>10, <1>13
  <2>2. DumpedExpr[K - 1] = ReadExpr[L - 1]
    BY <1>5, <1>6, <2>1 DEF DumpReadsBack
  <2> QED
    BY <1>7, <1>9, <1>10, <1>11, <1>13, <2>2
<1> QED
  BY <1>12, <1>13

\* Where a return is on the stack of values, its state is.
ReturnsByState ==
    \A k \in 1..Len(values) : nodes[values[k]].sub = "RETURN" => Name(k + 1) = 261

\* So it is in every state of the parser.
LEMMA ReturnStates == Planted /\ Printable(nodes) => ReturnsByState
BY ReturnState DEF ReturnsByState

\* The same after a step.
LEMMA ReturnStatesNext == Planted' /\ Printable(nodes)' => ReturnsByState'
BY ReturnStates, PTL

\* A rule of a statement leaves no return on the stack.
LEMMA StatementStep ==
    ASSUME DumpsInv, DumpsInv', NEW i, NEW d, Reduced(i, d), ~InExpr(i)
    PROVE  \A k \in DOMAIN values' : nodes'[values'[k]].sub # "RETURN"
<1> DEFINE m == Len(states) - Len(Rules[i].rhs)
           p == Name(m)
<1>1. Reduction(i, p, d) /\ Top' = d
  BY DEF Reduced, Pushed
<1> HIDE DEF p
<1>2. d \in Statements
  <2>1. \/ i = 2 \/ i = 3 \/ i = 4 \/ i = 5 \/ i = 6 \/ i = 7 \/ i = 9 \/ i = 14 \/ i = 26
    BY DEF InExpr
  <2> QED
    BY <1>1, <2>1 DEF Reduction, Statements
<1>3. /\ Len(states') \in Nat /\ Len(states') = Len(values') + 1 /\ Len(states') >= 1
      /\ DOMAIN values' = 1..Len(values')
  BY DEF DumpsInv, ParserInv, ParserTypeOK, StackShape, Linked
<1>4. PlainStack'
  BY TracedPlainNext DEF DumpsInv
<1>5. \A j \in 1..Len(states') : Name(j)' # 261
  <2>1. Top' = Name(Len(states))'
    BY DEF Top
  <2>2. Name(Len(states))' \in Statements /\ Len(states') \in 1..Len(states')
    BY <1>1, <1>2, <1>3, <2>1
  <2> QED
    BY <1>4, <2>2 DEF PlainStack
<1>6. \A k \in 1..Len(values') : nodes'[values'[k]].sub = "RETURN" => Name(k + 1)' = 261
  BY ReturnStatesNext DEF DumpsInv, ReturnsByState
<1>7. \A k \in 1..Len(values') : k + 1 \in 1..Len(states')
  BY <1>3
<1> QED
  BY <1>3, <1>5, <1>6, <1>7

\* No right-hand side of a rule of expressions has a return.
LEMMA ExprGoesOn ==
    ASSUME DumpsInv, NEW i, NEW d, Reduced(i, d), InExpr(i)
    PROVE  LET n == Len(Rules[i].rhs)
           IN  GoesOn(ValueReturns, Len(values) - n, n)
<1> DEFINE n == Len(Rules[i].rhs)
           K == Len(states)
           m == K - n
<1>1. /\ n \in 0..K - 1 /\ Reduces(Top, i)
      /\ n > 1 => \A k \in 1..n : Name(m + k) = 10 * i + k
  BY DEF Reduced
<1>2. K \in Nat /\ Top = Name(K) /\ Len(values) = K - 1
  BY TopFacts DEF DumpsInv, ParserInv, ParserTypeOK
<1>3. i \in Nat /\ i > 26
  <2>1. i # 10 /\ Ends(Top, i)
    BY <1>1 DEF Reduces
  <2>2. i \in Nat /\ (i <= 26 => i \in {2, 3, 4, 5, 6, 7, 9, 10, 14, 26})
    BY <2>1 DEF Ends
  <2> QED
    BY <2>1, <2>2 DEF InExpr
<1>4. n \in 0..5
  <2>1. Reduces(Top, i)
    BY <1>1
  <2> QED
    BY <2>1, ShortRules
<1>5. Top # 261
  BY <1>1, <1>3 DEF Reduces, Ends
<1>6. ReturnsByState
  BY ReturnStates DEF DumpsInv
<1> HIDE DEF n, K
<1>7. ASSUME NEW k \in 1..n, (Len(values) - n) + k \in ValueReturns PROVE FALSE
  <2> DEFINE j == (Len(values) - n) + k
  <2>1. j \in 1..Len(values) /\ nodes[values[j]].sub = "RETURN"
    BY <1>7 DEF ValueReturns
  <2>2. Name(j + 1) = 261
    BY <1>6, <2>1 DEF ReturnsByState
  <2>3. k \in Nat /\ k >= 1 /\ k <= n /\ j + 1 = m + k
    BY <1>1, <1>2, <1>4
  <2>4. CASE n = 1
    <3>1. m + k = K
      BY <1>2, <2>3, <2>4
    <3> QED
      BY <1>2, <1>5, <2>2, <2>3, <3>1
  <2>5. CASE n > 1
    <3>1. Name(m + k) = 10 * i + k
      BY <1>1, <2>5
    <3> QED
      BY <1>3, <2>2, <2>3, <3>1
  <2> QED
    BY <1>4, <2>3, <2>4, <2>5
<1>8. GoesOn(ValueReturns, Len(values) - n, n)
  BY <1>7 DEF GoesOn
<1> QED
  BY <1>8 DEF n

\* A reduction in an expression leaves the dumps of the stack as they were; any
\* other leaves no return there.
LEMMA DumpsReduce ==
    DumpsInv /\ DumpsInv' /\ DumpReadsBack /\ Reduce => DumpReadsBack'
<1> SUFFICES ASSUME DumpsInv, DumpsInv', DumpReadsBack, Reduce PROVE DumpReadsBack'
  OBVIOUS
<1>0. /\ ParserInv /\ Traced /\ Planted /\ TokensPlain /\ Printable(nodes)
      /\ ParserInv' /\ Planted' /\ Printable(nodes)'
  BY DEF DumpsInv
<1>1. PICK i, d : Reduced(i, d)
  BY <1>0, ReduceStep
<1> SUFFICES ASSUME \E k \in DOMAIN values' : nodes'[values'[k]].sub = "RETURN"
             PROVE  DumpedExpr'[Len(values')] = ReadExpr'[Shifted']
  BY DEF DumpReadsBack
<1>2. InExpr(i)
  BY <1>1, StatementStep
<1> DEFINE n == Len(Rules[i].rhs)
           K == Len(states)
           m == K - n
           v == Build(Rules[i], RhsValues(i))
           new == Dump'[Len(nodes) + 1]
<1>3. K \in Nat /\ K >= 1 /\ Len(values) = K - 1
  BY <1>0, TopFacts DEF ParserInv, ParserTypeOK
<1>4. n \in 0..K - 1 /\ Reduces(Top, i)
  BY <1>1 DEF Reduced
<1>5. Pushed(m, d, v) /\ m \in 1..K
  BY <1>1, <1>3, <1>4 DEF Reduced, RhsValues
<1>6. lookahead' = lookahead /\ read' = read
  BY <1>0, ReduceStep
<1>7. Shifted' = Shifted /\ ReadExpr' = ReadExpr
  BY <1>6 DEF Shifted, ReadExpr, Lexeme
<1>8. \A k \in 1..n : RhsValues(i)[k] = values[m - 1 + k] /\ m - 1 + k \in 1..K - 1
  <2>1. RhsValues(i) = SubSeq(values, m, K - 1)
    BY <1>3 DEF RhsValues
  <2> HIDE DEF n
  <2>2. \A k \in 1..(K - 1) - m + 1 : SubSeq(values, m, K - 1)[k] = values[m + k - 1]
    BY <1>3, <1>4
  <2> QED
    BY <1>3, <1>4, <2>1, <2>2
<1>9. /\ IsJoin(DumpedExpr, ValueDumps, ValueReturns, K - 1)
      /\ \A k \in 1..K - 1 : ValueDumps[k] \in Seq(Lexemes) /\ ValueDumps[k] = Dump[values[k]]
  BY <1>0, <1>3, DumpedHolds DEF DumpedDefined
<1> DEFINE t == [k \in 1..n |-> Dump[RhsValues(i)[k]]]
<1>10. Spelled(t, n, new)
  <2> DEFINE u == t
  <2>1. \A k \in 1..n : u[k] = Dump[RhsValues(i)[k]]
    OBVIOUS
  <2> HIDE DEF u
  <2>2. Spelled(u, n, new)
    BY <1>0, <1>1, <1>2, <2>1, ReducedDumps
  <2> QED
    BY <2>2 DEF u
<1>11. \A k \in 1..n : t[k] = ValueDumps[m - 1 + k]
  BY <1>8, <1>9
<1>12. v.sub # "RETURN"
  <2>1. v.sub = Rules[i].sub
    BY <1>0, <1>1, ReducedNode
  <2>2. Rules[i].sub # "RETURN"
    BY <1>4, RuleParts
  <2> QED
    BY <2>1, <2>2
<1>13. /\ DumpedExpr'[Len(values')] = DumpedExpr[m - 1] \o new
       /\ \E k \in DOMAIN values : nodes[values[k]].sub = "RETURN"
  <2> HIDE DEF m, v
  <2>1. /\ DumpedExpr'[Len(values')] = IF v.sub = "RETURN" THEN <<>> ELSE DumpedExpr[m - 1] \o new
        /\ v.sub = "RETURN" \/ \E k \in DOMAIN values : k \in 1..m-1 /\ nodes[values[k]].sub = "RETURN"
    BY <1>0, <1>5, DumpedAfterPush DEF new
  <2> QED
    BY <1>12, <2>1
<1>14. m - 1 \in Nat /\ n \in Nat /\ (m - 1) + n = K - 1
  BY <1>3, <1>4
<1>15. GoesOn(ValueReturns, m - 1, n)
  <2>1. GoesOn(ValueReturns, Len(values) - n, n)
    BY <1>1, <1>2, ExprGoesOn
  <2>2. Len(values) - n = m - 1
    BY <1>3, <1>4
  <2> QED
    BY <2>1, <2>2
<1> HIDE DEF n, v, t, new
<1>16. DumpedExpr[K - 1] = DumpedExpr[m - 1] \o new
  <2> DEFINE p == m - 1
             L == K - 1
             F == DumpedExpr
             g == ValueDumps
             r == ValueReturns
  <2>1. /\ IsJoin(F, g, r, L) /\ L \in Nat /\ p \in Nat /\ p + n <= L /\ p + n = L
        /\ PartsIn(g, L, Lexemes) /\ Follows(t, g, p, n)
    BY <1>9, <1>11, <1>14 DEF PartsIn, Follows
  <2>2. GoesOn(r, p, n) /\ n \in Nat /\ Spelled(t, n, new)
    BY <1>10, <1>14, <1>15
  <2> HIDE DEF p, L, F, g, r
  <2>3. F[p + n] = F[p] \o new
    <3>1. Joinable(Lexemes, L, F, g, r, p, n, t, new)
      BY <2>1, <2>2 DEF Joinable
    <3> QED
      BY <3>1, JoinOfSpelled
  <2>4. F[L] = F[p] \o new
    BY <2>1, <2>3
  <2> QED
    BY <2>4 DEF F, L, p
<1>17. DumpedExpr[K - 1] = ReadExpr[Shifted]
  BY <1>3, <1>13 DEF DumpReadsBack
<1> QED
  BY <1>7, <1>13, <1>16, <1>17, Zenon

\* What log would print of an expression that is being parsed is the program since
\* the last return, however far it was reduced, with each literal as the decimal
\* number of the int that strtol and the conversion to int made of it.
THEOREM ParserDumps == Spec => []DumpReadsBack
<1>1. Init => DumpReadsBack
  BY DEF Init, DumpReadsBack
<1>2. ASSUME DumpReadsBack, UNCHANGED <<read, lookahead, values, nodes>> PROVE DumpReadsBack'
  <2>1. Dump' = Dump /\ ReadExpr' = ReadExpr /\ Shifted' = Shifted
    BY <1>2 DEF Dump, ReadExpr, Lexeme, Shifted
  <2>2. DumpedExpr' = DumpedExpr
    BY <1>2, <2>1 DEF DumpedExpr
  <2> QED
    BY <1>2, <2>1, <2>2 DEF DumpReadsBack
<1>3. ASSUME DumpsInv, DumpsInv', DumpReadsBack, [Next \/ Returned]_vars
      PROVE  DumpReadsBack'
  <2>1. \/ Lex \/ Shift \/ Reduce \/ UNCHANGED <<read, lookahead, values, nodes>>
    BY <1>3 DEF Next, Returned, Error, Accept, vars
  <2> QED
    BY <1>2, <1>3, <2>1, DumpsLex, DumpsShift, DumpsReduce
<1>4. Spec => []DumpsInv
  BY ParserInvariant, ParserTraced, ParserPlants, ParserTokens, ParserLocates, ParserPrintable, PTL DEF DumpsInv
<1> QED
  BY <1>1, <1>3, <1>4, PTL DEF Spec

-----------------------------------------------------------------------------
(***************************************************************************)
(* The name of the function, and the dump of an accepted program.          *)
(***************************************************************************)
\* The second token of a program is the name of its function, from the shift of
\* the token to the node of the function.
NameOfFunction ==
    /\ \A k \in 1..Len(values) : Name(k + 1) = 32 => nodes[values[k]].tok = 2
    /\ \A n \in 1..Len(nodes) : nodes[n].tid = "FUNC_DEF" => nodes[n].tok = 2

\* When that token is the next one, one token has been shifted.
NamedBySecond ==
    /\ Top = 10 => Shifted = 0
    /\ Top \in {31, 41} => Shifted = 1
    /\ NameOfFunction

\* A push keeps it.
LEMMA NamePush ==
    ASSUME ParserInv, Planted, NameOfFunction, NEW m \in 1..Len(states), NEW d, NEW v, Pushed(m, d, v),
           d = 32 => v.tok = 2, v.tid = "FUNC_DEF" => v.tok = 2
    PROVE  NameOfFunction'
<1>1. /\ Len(values') = m /\ nodes' = Append(nodes, v) /\ values'[m] = Len(nodes) + 1
      /\ \A k \in 1..m - 1 : values'[k] = values[k]
      /\ \A k \in 1..m : Name(k)' = Name(k)
      /\ Name(m + 1)' = d
  BY DEF Pushed, Name
<1>2. m \in Nat /\ m >= 1 /\ Len(states) = Len(values) + 1 /\ Len(values) \in Nat
  BY DEF ParserInv, ParserTypeOK, StackShape, Linked
<1>3. /\ Len(nodes) \in Nat /\ Len(nodes') = Len(nodes) + 1
      /\ \A n \in 1..Len(nodes) : nodes'[n] = nodes[n]
      /\ nodes'[Len(nodes) + 1] = v
  BY <1>1, HeapGrows
<1>4. ASSUME NEW k \in 1..Len(values'), Name(k + 1)' = 32 PROVE nodes'[values'[k]].tok = 2
  <2>1. CASE k = m
    BY <1>1, <1>3, <1>4, <2>1
  <2>2. CASE k # m
    <3>1. k \in 1..m - 1 /\ k + 1 \in 1..m /\ k \in 1..Len(values)
      BY <1>1, <1>2, <2>2
    <3>2. Name(k + 1) = 32 /\ values'[k] = values[k]
      BY <1>1, <1>4, <3>1
    <3>3. values[k] \in 1..Len(nodes) /\ nodes[values[k]].tok = 2
      BY <3>1, <3>2 DEF Planted, NameOfFunction
    <3> QED
      BY <1>3, <3>2, <3>3
  <2> QED
    BY <2>1, <2>2
<1>5. ASSUME NEW n \in 1..Len(nodes'), nodes'[n].tid = "FUNC_DEF" PROVE nodes'[n].tok = 2
  <2>1. n = Len(nodes) + 1 \/ n \in 1..Len(nodes)
    BY <1>3
  <2> QED
    BY <1>3, <1>5, <2>1 DEF NameOfFunction
<1> QED
  BY <1>4, <1>5 DEF NameOfFunction

\* Reading a token changes none of this.
LEMMA NamedLex == ParserInv /\ ParserInv' /\ NamedBySecond /\ Lex => NamedBySecond'
<1> SUFFICES ASSUME ParserInv, ParserInv', NamedBySecond, Lex PROVE NamedBySecond'
  OBVIOUS
<1>1. ShiftedCount /\ ShiftedCount'
  BY ShiftedCounts, ShiftedCountsNext
<1>2. values' = values /\ nodes' = nodes /\ states' = states /\ lookahead = <<>>
  BY DEF Lex
<1>3. Shifted' = Shifted
  <2>1. CASE read' = read /\ lookahead' = <<"$end">>
    BY <1>1, <1>2, <2>1 DEF ShiftedCount
  <2>2. ASSUME NEW c \in Classes, read' = Append(read, c), lookahead' = <<c>>
        PROVE  Shifted' = Shifted
    <3>1. c # "$end"
      BY NoStrClass
    <3>2. read \in Seq(Classes)
      BY DEF ParserInv, ParserTypeOK
    <3>3. Len(read') = Len(read) + 1
      BY <2>2, <3>2
    <3>4. lookahead' # <<>> /\ (lookahead[1])' # "$end"
      BY <2>2, <3>1
    <3> QED
      BY <1>1, <1>2, <3>3, <3>4 DEF ShiftedCount
  <2> QED
    BY <2>1, <2>2 DEF Lex
<1>4. Top' = Top /\ \A k \in Nat : Name(k)' = Name(k)
  BY <1>2 DEF Top, Name
<1>5. Len(values) \in Nat
  BY DEF ParserInv, ParserTypeOK, StackShape, Linked
<1> QED
  BY <1>2, <1>3, <1>4, <1>5 DEF NamedBySecond, NameOfFunction

\* The name is shifted second.
LEMMA NamedShift ==
    ParserInv /\ ParserInv' /\ Traced /\ Planted /\ Located /\ NamedBySecond /\ Shift => NamedBySecond'
<1> SUFFICES ASSUME ParserInv, ParserInv', Traced, Planted, Located, NamedBySecond, Shift PROVE NamedBySecond'
  OBVIOUS
<1> DEFINE t == lookahead[1]
           K == Len(states)
           L == Len(read)
           v == Token(t)
<1>1. PICK d : Pushed(K, d, v) /\ Move(Top, t, d)
  BY ShiftStep
<1>2. /\ lookahead # <<>> /\ t \in Classes /\ lookahead' = <<>> /\ read' = read
  BY ShiftStep
<1>3. t # "$end"
  BY <1>2, NoStrClass
<1>4. ShiftedCount /\ ShiftedCount'
  BY ShiftedCounts, ShiftedCountsNext
<1>5. /\ Shifted = L - 1 /\ Shifted' = L /\ L \in Nat
  BY <1>2, <1>3, <1>4 DEF ShiftedCount
<1>6. K \in 1..K
  BY TopFacts
<1>7. /\ v.tid = "TOKEN" /\ v.tok = IF t \in TextClasses THEN L ELSE NoText
  BY DEF Token
<1>8. /\ d # 10 /\ (d \in {31, 41} => Top = 10 \/ d = 31) /\ (d = 32 => Top = 31 /\ t = "IDENT")
      /\ d # 31
  <2>1. Wants(Top, t)
    BY ShiftStep
  <2>2. Top = 10 => t # "FuncType"
    BY <2>1 DEF Wants, Operands, Chains
  <2>3. d = 31 => Top = 10 /\ t = "FuncType"
    BY <1>1 DEF Move, Operands
  <2>4. d \in {31, 41} => Top = 10 \/ d = 31
    BY <1>1 DEF Move, Operands
  <2>5. d = 32 => Top = 31 /\ t = "IDENT"
    BY <1>1 DEF Move, Operands
  <2>6. d # 10
    <3>1. Over(Top, d)
      BY <1>1, <1>2, TopFacts, MoveOver
    <3> QED
      BY <3>1 DEF Over, Operands
  <2> QED
    BY <2>2, <2>3, <2>4, <2>5, <2>6
<1>9. Top' = d
  BY <1>1 DEF Pushed
<1>10. d \in {31, 41} => Shifted' = 1
  BY <1>5, <1>8 DEF NamedBySecond
<1>11. d = 32 => v.tok = 2
  <2>1. "IDENT" \in TextClasses
    BY DEF TextClasses
  <2> QED
    BY <1>5, <1>7, <1>8, <2>1 DEF NamedBySecond
<1> HIDE DEF v, t, K
<1>12. NameOfFunction'
  <2>1. NameOfFunction /\ K \in 1..Len(states)
    BY <1>6 DEF NamedBySecond, K
  <2> QED
    BY <1>1, <1>7, <1>11, <2>1, NamePush
<1> QED
  BY <1>8, <1>9, <1>10, <1>12 DEF NamedBySecond

\* What is pushed fits the state that is pushed.
LEMMA PushFits ==
    ASSUME ParserInv, Planted, Planted', NEW m \in 1..Len(states), NEW d, NEW v, Pushed(m, d, v)
    PROVE  Fits(d, v)
<1>1. /\ Len(values') = m /\ nodes' = Append(nodes, v) /\ values'[m] = Len(nodes) + 1 /\ Name(m + 1)' = d
  BY DEF Pushed, Name
<1>2. m \in 1..Len(values')
  BY <1>1 DEF ParserInv, StackShape, Linked
<1>3. Fits(Name(m + 1)', nodes'[values'[m]])
  BY <1>2 DEF Planted
<1>4. nodes'[Len(nodes) + 1] = v
  BY <1>1, HeapGrows
<1> QED
  BY <1>1, <1>3, <1>4

\* Where a reduction leads to.
LEMMA ReductionLeads ==
    ASSUME NEW i, NEW p, NEW d, Reduction(i, p, d)
    PROVE  /\ d # 10 /\ d # 32 /\ d # 41
           /\ d = 31 => i = 4
           /\ d = 21 => i = 3
<1>1. d # 10
  BY DEF Reduction, Operands
<1>2. d # 32
  BY DEF Reduction, Operands
<1>3. d # 41
  BY DEF Reduction, Operands
<1>4. d = 31 => i = 4
  BY DEF Reduction, Operands
<1>5. d = 21 => i = 3
  BY DEF Reduction, Operands
<1> QED
  BY <1>1, <1>2, <1>3, <1>4, <1>5

\* The node of the function takes the name from the stack.
LEMMA NamedReduce ==
    ParserInv /\ ParserInv' /\ Traced /\ Planted /\ Planted' /\ NamedBySecond /\ Reduce => NamedBySecond'
<1> SUFFICES ASSUME ParserInv, ParserInv', Traced, Planted, Planted', NamedBySecond, Reduce PROVE NamedBySecond'
  OBVIOUS
<1>1. PICK i, d : Reduced(i, d)
  BY ReduceStep
<1> DEFINE n == Len(Rules[i].rhs)
           K == Len(states)
           m == K - n
           rhs == RhsValues(i)
           v == Build(Rules[i], rhs)
<1>2. K \in Nat /\ K >= 1 /\ Len(values) = K - 1
  BY TopFacts DEF ParserInv, ParserTypeOK
<1>3. n \in 0..K - 1 /\ Reduces(Top, i) /\ Reduction(i, Name(m), d)
      /\ (n > 1 => \A k \in 1..n : Name(m + k) = 10 * i + k)
  BY <1>1 DEF Reduced
<1>4. Pushed(m, d, v) /\ m \in 1..K
  BY <1>1, <1>2, <1>3 DEF Reduced, RhsValues
<1>5. lookahead' = lookahead /\ read' = read
  BY ReduceStep
<1>6. Shifted' = Shifted
  BY <1>5 DEF Shifted
<1>7. d # 10 /\ d # 32 /\ d # 41 /\ (d = 31 => i = 4) /\ (d = 21 => i = 3)
  BY <1>3, ReductionLeads
<1>8. d = 31 => Shifted = 1
  <2>1. i = 4 => Top = 41
    BY <1>3 DEF Reduces, Ends
  <2> QED
    BY <1>7, <2>1 DEF NamedBySecond
<1>9. v.tid = "FUNC_DEF" => d = 21
  <2>1. Fits(d, v)
    <3> HIDE DEF m, v, K
    <3>1. m \in 1..Len(states)
      BY <1>4 DEF K
    <3> QED
      BY <1>4, <3>1, PushFits
  <2> HIDE DEF v
  <2> QED
    BY <2>1 DEF Fits, HoldsNode
<1>10. i = 3 => v.tok = 2
  <2> SUFFICES ASSUME i = 3 PROVE v.tok = 2
    OBVIOUS
  <2>1. n = 5 /\ Rules[i].own = 2
    BY ProgramTrees, LiveRules DEF Sized, Tree
  <2>2. v.tok = nodes[rhs[2]].tok
    <3>1. v.tok = IF Rules[i].own = 0 THEN NoText ELSE nodes[RhsValues(i)[Rules[i].own]].tok
      BY <1>1, ReducedNode
    <3> QED
      BY <2>1, <3>1
  <2>3. rhs[2] = values[m + 1]
    <3>1. RhsValues(i) = SubSeq(values, m, K - 1)
      BY <1>2 DEF RhsValues
    <3> HIDE DEF n
    <3>2. SubSeq(values, m, K - 1)[2] = values[m + 1]
      BY <1>2, <1>3, <2>1
    <3> QED
      BY <3>1, <3>2
  <2>4. Name((m + 1) + 1) = 32 /\ m + 1 \in 1..Len(values)
    <3> HIDE DEF n
    <3>1. 2 \in 1..n /\ n > 1 /\ 10 * i + 2 = 32 /\ m + 2 = (m + 1) + 1
      BY <1>2, <1>3, <2>1
    <3>2. Name(m + 2) = 32
      BY <1>3, <3>1
    <3> QED
      BY <1>2, <1>3, <2>1, <3>1, <3>2
  <2>5. nodes[values[m + 1]].tok = 2
    BY <2>4 DEF NamedBySecond, NameOfFunction
  <2> QED
    BY <2>2, <2>3, <2>5
<1> HIDE DEF v, m, K
<1>11. NameOfFunction'
  <2>1. NameOfFunction /\ m \in 1..Len(states)
    BY <1>4 DEF NamedBySecond, K
  <2> QED
    BY <1>4, <1>7, <1>9, <1>10, <2>1, NamePush
<1>12. Top' = d
  BY <1>4 DEF Pushed
<1> QED
  BY <1>6, <1>7, <1>8, <1>11, <1>12 DEF NamedBySecond

\* In every state the name of the function is the second token.
LEMMA ParserNames == Spec => []NamedBySecond
<1>1. Init => NamedBySecond
  <2> SUFFICES ASSUME Init PROVE NamedBySecond
    OBVIOUS
  <2>1. Len(values) = 0 /\ Len(nodes) = 0 /\ Shifted = 0
    BY DEF Init, Shifted
  <2>2. Top \notin {31, 41}
    <3>1. Len(states) = 1 /\ Traced
      BY TracedInitially DEF Init
    <3>2. Top = 10
      BY <3>1 DEF Traced, Top
    <3> QED
      BY <3>2
  <2> QED
    BY <2>1, <2>2 DEF NamedBySecond, NameOfFunction
<1>2. ASSUME ParserInv, NamedBySecond, UNCHANGED <<read, lookahead, states, values, nodes>> PROVE NamedBySecond'
  <2>1. Top' = Top /\ \A k \in Nat : Name(k)' = Name(k)
    BY <1>2 DEF Top, Name
  <2>2. Shifted' = Shifted
    BY <1>2 DEF Shifted
  <2>3. Len(values) \in Nat
    BY <1>2 DEF ParserInv, ParserTypeOK, StackShape, Linked
  <2> QED
    BY <1>2, <2>1, <2>2, <2>3 DEF NamedBySecond, NameOfFunction
<1>3. ASSUME ParserInv, ParserInv', Traced, Planted, Planted', Located, NamedBySecond, [Next \/ Returned]_vars
      PROVE  NamedBySecond'
  <2>1. \/ Lex \/ Shift \/ Reduce \/ UNCHANGED <<read, lookahead, states, values, nodes>>
    BY <1>3 DEF Next, Returned, Error, Accept, vars
  <2> QED
    BY <1>2, <1>3, <2>1, NamedLex, NamedShift, NamedReduce
<1> QED
  BY <1>1, <1>3, ParserInvariant, ParserTraced, ParserPlants, ParserLocates, PTL DEF Spec

\* What log prints of the nodes above the statements.
LEMMA HeadingOf ==
    ASSUME NEW h, Printable(h), NEW n \in 1..Len(h)
    PROVE  /\ h[n].tid \in {"COMP_UNIT", "BLOCK"} => PartsAt(h, n) = <<Kid(1)>>
           /\ h[n].tid = "FUNC_DEF" => PartsAt(h, n) = <<Kid(1), Own, Kid(2)>>
           /\ h[n].tid = "FUNC_TYPE" => PartsAt(h, n) = <<Verbatim("int")>>
           /\ h[n].tid = "BLOCK_ITEMS" => PartsAt(h, n) = <<>>
<1> DEFINE node == h[n]
           parts == PartsOf[<<node.tid, node.sub>>]
<1>1. node.tid # "TOKEN" => Heading(node.tid, parts)
  BY DEF Printable, PrintedNode
<1>2. parts = PartsAt(h, n)
  BY DEF PartsAt
<1> HIDE DEF parts
<1> QED
  BY <1>1, <1>2 DEF Heading

\* What log prints of these nodes.
LEMMA DumpOfHeading ==
    ASSUME NEW h, NEW f, Dumped(h, f), NEW n \in 1..Len(h)
    PROVE  /\ h[n].tid \in {"COMP_UNIT", "BLOCK"} => f[n] = f[h[n].kids[1]]
           /\ h[n].tid = "FUNC_TYPE" => f[n] = <<Verbatim("int")>>
           /\ h[n].tid = "BLOCK_ITEMS" => f[n] = <<>>
<1>1. Printable(h)
  BY DEF Dumped
<1>2. h[n].tid \in {"COMP_UNIT", "BLOCK"} => PartsAt(h, n) = <<Kid(1)>> /\ h[n].tid # "TOKEN"
  BY <1>1, HeadingOf
<1>3. h[n].tid = "FUNC_TYPE" => PartsAt(h, n) = <<Verbatim("int")>> /\ h[n].tid # "TOKEN"
  BY <1>1, HeadingOf
<1>4. h[n].tid = "BLOCK_ITEMS" => PartsAt(h, n) = <<>> /\ h[n].tid # "TOKEN"
  BY <1>1, HeadingOf
<1>5. h[n].tid \in {"COMP_UNIT", "BLOCK"} => f[n] = f[h[n].kids[1]]
  BY <1>2, DumpOfPass
<1>6. h[n].tid = "FUNC_TYPE" => f[n] = <<Verbatim("int")>>
  BY <1>3, DumpOfInt
<1>7. h[n].tid = "BLOCK_ITEMS" => f[n] = <<>>
  BY <1>4, DumpNoPart
<1> QED
  BY <1>5, <1>6, <1>7

\* An element behind another.
LEMMA PairOfTwo ==
    ASSUME NEW w, NEW x
    PROVE  Append(<<w>>, x) = <<w, x>>
<1> DEFINE S == {w, x}
           s == Append(<<w>>, x)
<1>1. <<w>> \in Seq(S) /\ x \in S /\ Len(<<w>>) = 1 /\ <<w>>[1] = w
  OBVIOUS
<1>2. Len(s) = 2 /\ s[1] = w /\ s[2] = x /\ s \in Seq(S)
  BY <1>1, AppendProperties
<1>3. <<w, x>> \in Seq(S) /\ Len(<<w, x>>) = 2 /\ <<w, x>>[1] = w /\ <<w, x>>[2] = x
  OBVIOUS
<1> HIDE DEF s
<1> DEFINE p == <<w, x>>
<1>4. \A k \in 1..2 : s[k] = p[k]
  BY <1>2, <1>3
<1>5. Len(s) = Len(p) /\ \A k \in 1..Len(s) : s[k] = p[k]
  BY <1>2, <1>3, <1>4
<1>6. s = p
  <2> HIDE DEF p
  <2> QED
    BY <1>2, <1>3, <1>5, SeqEqual DEF p
<1> QED
  BY <1>6 DEF s

\* A function prints its type and its name, and its block nothing.
LEMMA DumpOfHeader ==
    ASSUME NEW h, NEW f, Dumped(h, f), NEW r \in 1..Len(h), h[r].tid = "FUNC_DEF",
           NEW a \in 1..Len(h), h[r].kids[1] = a, h[a].tid = "FUNC_TYPE",
           NEW b \in 1..Len(h), h[r].kids[2] = b, h[b].tid = "BLOCK",
           NEW c \in 1..Len(h), h[b].kids[1] = c, h[c].tid = "BLOCK_ITEMS"
    PROVE  f[r] = << Verbatim("int"), <<"text", h[r].tok>> >>
<1>1. f[a] = <<Verbatim("int")>>
  BY DumpOfHeading
<1>2. f[c] = <<>>
  BY DumpOfHeading
<1>3. f[b] = <<>>
  <2>1. f[b] = f[h[b].kids[1]]
    BY DumpOfHeading
  <2> QED
    BY <1>2, <2>1
<1> DEFINE x == <<"text", h[r].tok>>
           w == Verbatim("int")
<1>4. f[r] = f[h[r].kids[1]] \o <<x>> \o f[h[r].kids[2]]
  <2>1. PartsAt(h, r) = <<Kid(1), Own, Kid(2)>> /\ h[r].tid # "TOKEN"
    BY HeadingOf DEF Dumped
  <2> QED
    BY <2>1, DumpOfFunction
<1> HIDE DEF x, w
<1>5. f[r] = <<w>> \o <<x>> \o <<>>
  BY <1>1, <1>3, <1>4 DEF w
<1>6. <<w>> \o <<x>> \o <<>> = <<w, x>>
  <2> DEFINE S == {w, x}
             s == <<w, x>>
  <2>1. s \in Seq(S) /\ <<w>> \in Seq(S)
    OBVIOUS
  <2>2. <<w>> \o <<x>> = Append(<<w>>, x)
    BY <2>1, AppendIsConcat
  <2>3. Append(<<w>>, x) = s
    BY PairOfTwo
  <2> HIDE DEF S, s
  <2>4. s \o <<>> = s
    BY <2>1, ConcatEmptySeq
  <2> QED
    BY <2>2, <2>3, <2>4 DEF s
<1> QED
  BY <1>5, <1>6 DEF w, x

\* The dump of every accepted program is the type and the name of the function.
THEOREM ParserDumpsHeader == Spec => []DumpIsHeader
<1>1. ASSUME ParserInv, Traced, Planted, Printable(nodes), NamedBySecond, Accepted PROVE DumpIsHeader
  <2> SUFFICES ASSUME pc = "accept" PROVE Dump[Root] = << <<"word", "int">>, <<"text", 2>> >>
    BY DEF DumpIsHeader
  <2>1. Top = 11
    BY <1>1 DEF Accepted
  <2> DEFINE h == nodes
             u == Root
             r == h[u].kids[1]
             b == h[r].kids[2]
             c == h[b].kids[1]
             a == h[r].kids[1]
             f == Dump
  <2>2. /\ u \in 1..Len(h) /\ h[u].tid = "COMP_UNIT" /\ r \in 1..Len(h) /\ h[r].tid = "FUNC_DEF"
        /\ b \in 1..Len(h) /\ h[b].tid = "BLOCK" /\ c \in 1..Len(h) /\ h[c].tid = "BLOCK_ITEMS"
    <3>1. RootBlock = b /\ Contents(RootBlock) = c
      BY DEF RootBlock, Contents
    <3> QED
      BY <1>1, <2>1, <3>1, AcceptedTree
  <2>3. ShapedNode(h, h[r])
    BY <1>1, <2>2 DEF Planted
  <2>4. Len(h[r].kids) = 2 /\ h[a].tid = "FUNC_TYPE"
    BY <2>2, <2>3 DEF ShapedNode
  <2>5. a \in 1..Len(h)
    <3>1. 1 \in 1..Len(h[r].kids)
      BY <2>4
    <3> QED
      BY <1>1, <2>2, <3>1, KidsInHeap
  <2>6. h[r].tok = 2
    BY <1>1, <2>2 DEF NamedBySecond, NameOfFunction
  <2>7. Dumped(h, f)
    BY <1>1, DumpHolds DEF DumpDefined, Dumped
  <2>8. f[u] = f[r]
    <3> HIDE DEF h, f, u, b, c, a
    <3> QED
      BY <2>2, <2>7, DumpOfHeading
  <2>9. a = h[r].kids[1] /\ b = h[r].kids[2] /\ c = h[b].kids[1]
    OBVIOUS
  <2> HIDE DEF h, f, u, r, b, c, a
  <2>10. f[r] = << Verbatim("int"), <<"text", h[r].tok>> >>
    BY <2>2, <2>4, <2>5, <2>7, <2>9, DumpOfHeader
  <2>11. f[u] = << Verbatim("int"), <<"text", 2>> >>
    BY <2>6, <2>8, <2>10
  <2> QED
    BY <2>11 DEF f, u, Verbatim
<1> QED
  BY <1>1, ParserInvariant, ParserTraced, ParserPlants, ParserPrintable, ParserNames, ParserAccepted, PTL

-----------------------------------------------------------------------------
(***************************************************************************)
(* collect, called on the list of an accepted program.                     *)
(***************************************************************************)
\* A field of the list before anything is moved from it.
Unmoved(k) == IF k \in DOMAIN nodes[List].kids THEN nodes[List].kids[k] ELSE NullPtr

\* The inductive invariant of collect: which pointer has the first item and which
\* the rest of the list, wherever the loop is.  It never comes round again.
CollectInv ==
    /\ loop \in {"uncalled", "while", "push", "next", "returned", "null read"}
    /\ loop = "uncalled" => vector = <<>> /\ cur_raw = NullPtr /\ moved = {}
    /\ loop # "uncalled" =>
          /\ pc = "accept"
          /\ moved = {<<List, BlockItem>>, <<List, NextItems>>}
    /\ loop = "while" => vector = <<Unmoved(BlockItem)>> /\ cur_raw = Unmoved(NextItems)
    /\ loop # "while" => cur_raw = NullPtr
    /\ loop = "push" => vector = <<Unmoved(BlockItem)>> /\ cur = Unmoved(NextItems)
    /\ loop # "push" => cur = NullPtr
    /\ loop \in {"push", "next", "null read"} => Unmoved(NextItems) # NullPtr
    /\ loop \in {"next", "null read"} => vector = <<Unmoved(BlockItem), Unmoved(NextItems)>>
    /\ loop = "returned" => Unmoved(NextItems) = NullPtr /\ vector = <<Unmoved(BlockItem)>>

\* collect does not disturb the parser.
LEMMA CollectParses == CollectSpec => Spec
<1>1. CollectInit => Init
  BY DEF CollectInit
<1>2. [ParserStep \/ CollectStep]_<<vars, collectVars>> => [Next \/ Returned]_vars
  BY DEF ParserStep, CollectStep, Begin, Cast, PushCur, Follow, Leave
<1> QED
  BY <1>1, <1>2, PTL DEF CollectSpec, Spec

\* And the parser has ended before collect begins.
LEMMA CollectAfterParse ==
    CollectInv /\ ParserStep => CollectInv'
<1> SUFFICES ASSUME CollectInv, ParserStep PROVE CollectInv'
  OBVIOUS
<1>1. UNCHANGED collectVars
  BY DEF ParserStep
<1>2. CASE loop = "uncalled"
  BY <1>1, <1>2 DEF CollectInv, collectVars
<1>3. CASE loop # "uncalled"
  <2>1. pc = "accept"
    BY <1>3 DEF CollectInv
  <2>2. UNCHANGED vars
    BY <2>1 DEF ParserStep, Next, Returned, Lex, Shift, Reduce, Error, Accept, Deciding
  <2>3. List' = List /\ Unmoved(BlockItem)' = Unmoved(BlockItem) /\ Unmoved(NextItems)' = Unmoved(NextItems)
    BY <2>2 DEF vars, List, Contents, RootBlock, Root, Unmoved
  <2> QED
    BY <1>1, <1>3, <2>2, <2>3 DEF CollectInv, collectVars, vars
<1> QED
  BY <1>2, <1>3

\* Every step keeps it.
LEMMA CollectNext ==
    CollectInv /\ [ParserStep \/ CollectStep]_<<vars, collectVars>> => CollectInv'
<1> SUFFICES ASSUME CollectInv, [ParserStep \/ CollectStep]_<<vars, collectVars>> PROVE CollectInv'
  OBVIOUS
<1>1. ASSUME UNCHANGED vars
      PROVE  List' = List /\ pc' = pc /\ Unmoved(BlockItem)' = Unmoved(BlockItem)
             /\ Unmoved(NextItems)' = Unmoved(NextItems)
  BY <1>1 DEF vars, List, Contents, RootBlock, Root, Unmoved
<1>2. CASE Begin
  <2>1. Field(List, BlockItem) = Unmoved(BlockItem) /\ Field(List, NextItems) = Unmoved(NextItems)
    BY <1>2 DEF Begin, CollectInv, Field, Unmoved
  <2>2. vector' = <<Unmoved(BlockItem)>> /\ cur_raw' = Unmoved(NextItems) /\ cur' = NullPtr
    BY <1>2, <2>1 DEF Begin, CollectInv
  <2>3. loop' = "while" /\ moved' = {<<List, BlockItem>>, <<List, NextItems>>} /\ pc = "accept"
    BY <1>2 DEF Begin, CollectInv
  <2> QED
    BY <1>1, <1>2, <2>2, <2>3 DEF Begin, CollectInv
<1>3. CASE Cast
  BY <1>1, <1>3 DEF Cast, Entered, CollectInv
<1>4. CASE PushCur
  <2> DEFINE x == Unmoved(BlockItem)
             y == Unmoved(NextItems)
  <2>0. vector = <<x>> /\ cur = y /\ vector' = Append(vector, cur)
    BY <1>4 DEF PushCur, CollectInv
  <2> HIDE DEF x, y
  <2>1a. vector' = <<x, y>>
    BY <2>0, PairOfTwo, Zenon
  <2>1. vector' = <<Unmoved(BlockItem), Unmoved(NextItems)>>
    BY <2>1a DEF x, y
  <2> QED
    BY <1>1, <1>4, <2>1 DEF PushCur, CollectInv
<1>5. CASE Follow
  BY <1>1, <1>5 DEF Follow, CollectInv
<1>6. CASE Leave
  BY <1>1, <1>6 DEF Leave, Entered, CollectInv
<1>7. CASE UNCHANGED <<vars, collectVars>>
  BY <1>1, <1>7 DEF CollectInv, collectVars
<1> QED
  BY <1>2, <1>3, <1>4, <1>5, <1>6, <1>7, CollectAfterParse DEF CollectStep

\* It always holds.
LEMMA CollectInvariant == CollectSpec => []CollectInv
<1>1. CollectInit => CollectInv
  BY DEF CollectInit, CollectInv
<1> QED
  BY <1>1, CollectNext, PTL DEF CollectSpec

\* What is known of the parser while collect runs.
LEMMA CollectKnows ==
    CollectSpec => [](ParserInv /\ Traced /\ Planted /\ Located /\ Accepted /\ ReturnsKept)
BY CollectParses, ParserInvariant, ParserTraced, ParserPlants, ParserLocates, ParserAccepted,
   ParserKeepsReturns, PTL

\* However long the program, collect returns only from an empty block, with a null
\* pointer in the vector; it reads through the null pointer it has just left in
\* cur if something is returned, and never casts a null pointer.
THEOREM CollectNeedsEmpty == CollectSpec => []CollectNeedsEmptyBlock
<1>1. ASSUME ParserInv, Traced, Planted, Located, Accepted, ReturnsKept, CollectInv
      PROVE  CollectNeedsEmptyBlock
  <2> DEFINE kids == nodes[List].kids
  <2>1. pc = "accept" =>
            /\ kids \in Seq(1..Len(nodes))
            /\ \/ Len(kids) = 0 /\ "RETURN" \notin Range(read)
               \/ Len(kids) = 2 /\ "RETURN" \in Range(read)
    BY <1>1, AcceptedList DEF List
  <2>2. /\ Unmoved(BlockItem) = IF 1 \in DOMAIN kids THEN kids[1] ELSE 0
        /\ Unmoved(NextItems) = IF 2 \in DOMAIN kids THEN kids[2] ELSE 0
    BY DEF Unmoved, BlockItem, NextItems, NullPtr
  <2> HIDE DEF kids
  <2>3. ASSUME loop = "returned" PROVE "RETURN" \notin Range(read) /\ vector = <<0>>
    <3>1. pc = "accept" /\ Unmoved(NextItems) = 0 /\ vector = <<Unmoved(BlockItem)>>
      BY <1>1, <2>3 DEF CollectInv, NullPtr
    <3>2. Len(kids) = 0 /\ "RETURN" \notin Range(read)
      BY <2>1, <2>2, <3>1
    <3>3. Unmoved(BlockItem) = 0
      BY <2>1, <2>2, <3>1, <3>2
    <3> QED
      BY <3>1, <3>2, <3>3
  <2>4. ASSUME loop = "null read" PROVE "RETURN" \in Range(read) /\ vector = kids
    <3>1. /\ pc = "accept" /\ Unmoved(NextItems) # 0
          /\ vector = <<Unmoved(BlockItem), Unmoved(NextItems)>>
      BY <1>1, <2>4 DEF CollectInv, NullPtr
    <3>2. Len(kids) = 2 /\ "RETURN" \in Range(read)
      BY <2>1, <2>2, <3>1
    <3>3. Unmoved(BlockItem) = kids[1] /\ Unmoved(NextItems) = kids[2]
      BY <2>1, <2>2, <3>1, <3>2
    <3>4. kids = <<kids[1], kids[2]>>
      BY <2>1, <3>1, <3>2
    <3> QED
      BY <3>1, <3>2, <3>3, <3>4
  <2>5. loop # "aborted"
    BY <1>1 DEF CollectInv
  <2> QED
    BY <2>3, <2>4, <2>5 DEF CollectNeedsEmptyBlock, NullPtr, kids
<1> QED
  BY <1>1, CollectKnows, CollectInvariant, PTL
=============================================================================
