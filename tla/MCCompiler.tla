------------------------------ MODULE MCCompiler ------------------------------
(***************************************************************************)
(* Instances of the passes: a handful of programs, and every order of a    *)
(* few calls.                                                              *)
(***************************************************************************)
EXTENDS CompilerOutputs, MCBasicBlockIR, Registers, SymTable

Returned(m) == Statement("Ret", ExprOfMul(m))

\* Results of either sign, a division by zero, a variable, no statement and the
\* list that the parser makes.
MCPrograms ==
    {Returned(m) : m \in {Mul1(u) : u \in Literals \cup {Variable, Unary("-", Number("3"))}}
                         \cup {Mul2(Mul1(Number("3")), o, u) : o \in BinOps, u \in Literals}
                         \cup {Mul2(Mul1(Number("3")), "/", Unary("!", Number("3")))}}
    \cup {[tid |-> "BLOCK_ITEM", sub |-> "Decl"], [tid |-> "BLOCK_ITEMS", sub |-> "Recv"],
          Statement("Lval", ExprOfMul(Mul1(Number("3"))))}

MCProgramNodes == UNION {NodesOf(b.stmt.expr) : b \in {c \in MCPrograms : IsStatement(c)}}
=============================================================================
