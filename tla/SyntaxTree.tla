------------------------------ MODULE SyntaxTree ------------------------------
(***************************************************************************)
(* The node classes of src/include/_ast.hpp, as far as they do something   *)
(* to the trees of the parser: log, which dumps a tree, and the layout of  *)
(* the objects, which decides what a cast to the wrong class reads.        *)
(*                                                                         *)
(* A dump is a sequence of lexemes <<kind, value>>: the text of a name or  *)
(* operator by the number of its token, the text of a number, and words    *)
(* that log itself prints.  White space, braces and the names of the       *)
(* classes are layout.                                                     *)
(***************************************************************************)
EXTENDS ParserTrees, NumberText

\* The text of the n-th token of the program, where that is a literal.
CONSTANT LiteralAt

\* The Decimal, Octal and Hexadecimal of the lexer.
IsLiteral(text) ==
    /\ text # <<>>
    /\ \/ text[1] # "0" /\ AllFrom(text, 1, Below(10))
       \/ text[1] = "0" /\ AllFrom(text, 1, Below(8))
       \/ /\ text[1] = "0" /\ Len(text) > 1
          /\ text[2] \in {"x", "X"} /\ AllFrom(text, 3, Below(16))

ASSUME LiteralsAssumption ==
    /\ LiteralAt \in [1..MaxTokens -> Seq(Below(16) \cup {"x", "X"})]
    /\ \A n \in 1..MaxTokens : IsLiteral(LiteralAt[n])

\* yylval.int_val, which the n-th token leaves in __int_const_: a long made an int.
IntOf(n) == Wrap(StrToL(LiteralAt[n], 0))

\* What the log of a class prints: its sub-trees, its own text, __int_const_, words.
Kid(k) == <<"kid", k>>
Own == <<"own", 0>>
IntConst == <<"int const", 0>>
Verbatim(w) == <<"word", w>>

Log(tid, sub, parts) == [tid |-> tid, sub |-> sub, parts |-> parts]

ProgramLogs == {
    Log("COMP_UNIT", "", <<Kid(1)>>),
    Log("FUNC_DEF", "", <<Kid(1), Own, Kid(2)>>),
    Log("FUNC_TYPE", "", <<Verbatim("int")>>),
    Log("BLOCK", "", <<Kid(1)>>) }

\* Mutant of ItemLogs: the list prints its item and what follows.
ItemLogsAll == {
    Log("BLOCK_ITEMS", "Null", <<>>),
    Log("BLOCK_ITEMS", "Recv", <<Kid(1), Kid(2)>>),
    Log("BLOCK_ITEM", "Decl", <<Kid(1)>>),
    Log("BLOCK_ITEM", "Stmt", <<Kid(1)>>),
    Log("BLOCK_ITEM", "Null", <<>>),
    Log("STMT", "Lval", <<Kid(2)>>),
    Log("STMT", "Ret", <<Kid(1)>>) }

\* A list prints the vector __block_items_, which only collect fills: a tree
\* that comes from the parser has none.
ItemLogs == {
    Log("BLOCK_ITEMS", "Null", <<>>),
    Log("BLOCK_ITEMS", "Recv", <<>>),
    Log("BLOCK_ITEM", "Decl", <<Kid(1)>>),
    Log("BLOCK_ITEM", "Stmt", <<Kid(1)>>),
    Log("BLOCK_ITEM", "Null", <<>>),
    Log("STMT", "Lval", <<Kid(2)>>),
    Log("STMT", "Ret", <<Kid(1)>>) }

\* Mutant of OperandLogs: the operator behind the operand.
OperandLogsPostfix == {
    Log("EXPR", "", <<Kid(1)>>),
    Log("PRIMARY_EXPR", "Expr", <<Verbatim("("), Kid(1), Verbatim(")")>>),
    Log("PRIMARY_EXPR", "Num", <<Kid(1)>>),
    Log("PRIMARY_EXPR", "LVal", <<Kid(1)>>),
    Log("LVAL", "", <<Own>>),
    Log("NUMBER", "", <<IntConst>>),
    Log("UNARY_EXPR", "Pri", <<Kid(1)>>),
    Log("UNARY_EXPR", "Una", <<Kid(2), Kid(1)>>) }

OperandLogs == {
    Log("EXPR", "", <<Kid(1)>>),
    Log("PRIMARY_EXPR", "Expr", <<Verbatim("("), Kid(1), Verbatim(")")>>),
    Log("PRIMARY_EXPR", "Num", <<Kid(1)>>),
    Log("PRIMARY_EXPR", "LVal", <<Kid(1)>>),
    Log("LVAL", "", <<Own>>),
    Log("NUMBER", "", <<IntConst>>),
    Log("UNARY_EXPR", "Pri", <<Kid(1)>>),
    Log("UNARY_EXPR", "Una", <<Kid(1), Kid(2)>>) }

ArithmeticLogs == {
    Log("UNARY_OP", "", <<Own>>),
    Log("MUL_EXPR", "Una", <<Kid(1)>>),
    Log("MUL_EXPR", "Mul", <<Kid(1), Kid(2), Kid(3)>>),
    Log("ADD_EXPR", "Mul", <<Kid(1)>>),
    Log("ADD_EXPR", "Add", <<Kid(1), Kid(2), Kid(3)>>) }

RelationLogs == {
    Log("BINARY_OP", "", <<Own>>),
    Log("REL_EXPR", "Add", <<Kid(1)>>),
    Log("REL_EXPR", "Rel", <<Kid(1), Kid(2), Kid(3)>>),
    Log("EQ_EXPR", "Rel", <<Kid(1)>>),
    Log("EQ_EXPR", "Eq", <<Kid(1), Kid(2), Kid(3)>>) }

LogicLogs == {
    Log("CMP_OP", "", <<Own>>),
    Log("LAND_EXPR", "Eq", <<Kid(1)>>),
    Log("LAND_EXPR", "LAnd", <<Kid(1), Own, Kid(2)>>),
    Log("LOR_EXPR", "LAnd", <<Kid(1)>>),
    Log("LOR_EXPR", "LOr", <<Kid(1), Own, Kid(2)>>) }

\* The definitions behind the first one are in a vector that nothing fills.
DeclLogs == {
    Log("DECL", "", <<Kid(1)>>),
    Log("CONST_DECL", "", <<Kid(1), Kid(2)>>),
    Log("BTYPE", "", <<Verbatim("int")>>),
    Log("CONST_DEFS", "Null", <<>>),
    Log("CONST_DEFS", "Recr", <<>>) }

ConstLogs == {
    Log("CONST_DEF", "", <<Own, Verbatim("="), Kid(1)>>),
    Log("CONST_INIT_VAL", "", <<Kid(1)>>),
    Log("CONST_EXPR", "", <<Kid(1)>>) }

Logs == ProgramLogs \cup ItemLogs \cup OperandLogs \cup ArithmeticLogs
        \cup RelationLogs \cup LogicLogs \cup DeclLogs \cup ConstLogs

PartsOf == [c \in {<<l.tid, l.sub>> : l \in Logs} |->
               (CHOOSE l \in Logs : <<l.tid, l.sub>> = c).parts]

\* An int is printed in decimal, however its literal was written.
Number(tok) == <<"number", Int2Str(IntOf(tok))>>

TokenLexeme(class, tok) ==
    CASE class = "INT_CONST" -> Number(tok)
      [] class # "INT_CONST" /\ tok # NoText -> <<"text", tok>>
      [] OTHER -> <<"word", class>>

\* The dump of a node; a token that is not in a node yet stands for itself.
Dump[n \in DOMAIN nodes] ==
    LET node == nodes[n]
        parts == PartsOf[<<node.tid, node.sub>>]
        Part(k) ==
            IF k \notin DOMAIN parts THEN <<>>
            ELSE CASE parts[k][1] = "kid" -> Dump[node.kids[parts[k][2]]]
                   [] parts[k][1] = "own" -> << <<"text", node.tok>> >>
                   [] parts[k][1] = "int const" -> <<Number(node.tok)>>
                   [] parts[k][1] = "word" -> <<parts[k]>>
    IN  IF node.tid = "TOKEN" THEN <<TokenLexeme(node.sub, node.tok)>>
        ELSE Part(1) \o Part(2) \o Part(3)

-----------------------------------------------------------------------------
\* The first three words of an object behind its class, as a cast to another
\* class would find them: pointers to nodes, and the tag, which make_unique puts
\* into a word of zeros.
NullWord == <<"int", 0>>
Pointer(n) == <<"node", n>>

Words(n) ==
    LET kids == nodes[n].kids
        Is(tid, sub) == nodes[n].tid = tid /\ nodes[n].sub = sub
    IN  CASE Is("BLOCK_ITEMS", "Null") -> <<NullWord, NullWord, <<"int", 0>>>>
          [] Is("BLOCK_ITEMS", "Recv") -> <<Pointer(kids[1]), Pointer(kids[2]), <<"int", 1>>>>
          [] Is("BLOCK_ITEM", "Decl") -> <<Pointer(kids[1]), NullWord, <<"int", 0>>>>
          [] Is("BLOCK_ITEM", "Stmt") -> <<NullWord, Pointer(kids[1]), <<"int", 1>>>>
          [] Is("BLOCK_ITEM", "Null") -> <<NullWord, NullWord, <<"int", 2>>>>
          [] Is("STMT", "Ret") -> <<NullWord, <<"text", "return">>, Pointer(kids[1])>>
          [] Is("STMT", "Lval") -> <<Pointer(kids[1]), NullWord, Pointer(kids[2])>>

\* static_uptr_cast stops at a null pointer, and never looks at the class.
CastFails(word) == word = NullWord

\* Mutant of Contents: the constructor is given the first element of the list.
ContentsFirst(b) ==
    LET list == nodes[b].kids[1]
    IN  IF nodes[list].sub = "Recv" THEN nodes[list].kids[1] ELSE list

\* What __block_items_ of a block points to.
Contents(b) == nodes[b].kids[1]

\* How the constructor BasicBlockIR(BlockAST&) fares with a block of the parser:
\* it reads the contents as a BlockItemAST, what that calls the statement as a
\* StmtAST, and gives traverseExpr what it finds there as the expression.
Constructor(b) ==
    LET item == Words(Contents(b))
        decl == item[1]
        stmt == item[2]
        expr == Words(stmt[2])[3]
    IN  CASE item[3][2] = 0 -> IF CastFails(decl) THEN "abort" ELSE "null read"
          [] item[3][2] = 1 -> CASE CastFails(stmt) \/ CastFails(expr) -> "abort"
                                 [] expr[1] = "node" -> "traverse"
                                 [] OTHER -> "wild read"
          [] OTHER -> "null read"

-----------------------------------------------------------------------------
\* The n-th token of the program as log prints it.
Lexeme(n) == TokenLexeme(read[n], IF read[n] \in TextClasses THEN n ELSE NoText)

\* What log would print of the values on the stack behind the last return.
DumpedExpr[k \in 0..Len(values)] ==
    IF k = 0 THEN <<>>
    ELSE IF nodes[values[k]].sub = "RETURN" THEN <<>>
    ELSE DumpedExpr[k-1] \o Dump[values[k]]

\* What the program says behind its last return.
ReadExpr[k \in 0..Len(read)] ==
    IF k = 0 THEN <<>>
    ELSE IF read[k] = "RETURN" THEN <<>>
    ELSE Append(ReadExpr[k-1], Lexeme(k))

\* What log would print of the expression that is being parsed is the program
\* since the last return, whatever rules it was reduced by and however far: the
\* names, operators and parentheses as they were written, and in the place of
\* each literal the decimal number of the int it was truncated to (0x10 as 16,
\* and a literal beyond int as another number).
DumpReadsBack ==
    (\E k \in DOMAIN values : nodes[values[k]].sub = "RETURN") =>
        DumpedExpr[Len(values)] = ReadExpr[Shifted]

\* The root of the tree of an accepted program.
Root == values[1]
RootBlock == nodes[nodes[Root].kids[1]].kids[2]

\* The dump of every accepted program is the one in test/hello.ast, but for the
\* name: the type and the name of the function, and a block that looks empty.
DumpIsHeader ==
    pc = "accept" => Dump[Root] = << <<"word", "int">>, <<"text", 2>> >>

\* The constructor of BasicBlockIR, on the block of an accepted program, never
\* comes to an expression: it stops at an assertion or at a wild pointer.
NoStatementIsCompiled == pc = "accept" => Constructor(RootBlock) # "traverse"
=============================================================================
