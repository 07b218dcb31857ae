------------------------------ MODULE MCEvalRPN ------------------------------
(***************************************************************************)
(* Instances of EvalRPN with the real table and operators on a narrow int, *)
(* on the queues that traverseExpr makes: infix expressions, from which it *)
(* leaves out the operands that are variables.                             *)
(***************************************************************************)
EXTENDS EvalRPN, OptTable, I32

CONSTANTS
    Operands,   \* the operands used, "var" is a variable
    Operators,  \* the operators used
    ExprLen     \* the longest expression

MCIntOf == [t \in {"0", "1", "2", "3"} |->
               CHOOSE v \in 0..3 : ToString(v) = t]
MCNum == DOMAIN MCIntOf
MCToken == MCNum \cup TableOpt \cup {"(", ")"}

\* The expressions with every operand and every operator written alike.
Shape == INSTANCE MidExpr WITH Num <- {"operand"}, Opt <- {"operator"}
Shapes ==
    {s \in UNION {[1..n -> {"operand", "operator", "(", ")"}] : n \in 1..ExprLen} :
        Shape!WellFormed(s)}

\* The expressions of the shape s.
Filled(s) ==
    LET at(c) == {k \in DOMAIN s : s[k] = c}
    IN  {[k \in DOMAIN s |-> IF s[k] = "operand" THEN f[k]
                             ELSE IF s[k] = "operator" THEN g[k] ELSE s[k]] :
            f \in [at("operand") -> Operands], g \in [at("operator") -> Operators]}

NotVar(t) == t # "var"
TraverseQueues == {SelectSeq(e, NotVar) : e \in UNION {Filled(s) : s \in Shapes}}

\* One operator for each of seven entries of the table.
SevenEntries == {"||", "&&", "<", "<<", "+", "/", "-"}
=============================================================================
