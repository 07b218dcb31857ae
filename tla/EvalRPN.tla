------------------------------- MODULE EvalRPN -------------------------------
(***************************************************************************)
(* Constant folding as the constructor of BasicBlockIR runs it: the call   *)
(* of midExpr2RPN followed by the one of evalRPN (src/src/_ir.cpp), which  *)
(* evaluates __rpn_op_stk_ with the operand stack __opof and leaves the    *)
(* result in __const_expr_.                                                *)
(***************************************************************************)
EXTENDS MidExpr2RPN

CONSTANTS
    I32,                    \* the values of an int
    IntOf,                  \* __str2int_ of an operand
    OptOutcomes(_, _, _),   \* what __i32_opt_res_(l, o, r) may come to
    BinaryPrio              \* what the table holds for the binary operators

ASSUME OutcomesAssumption ==
    /\ IntOf \in [Num -> I32] /\ 0 \in I32
    /\ \A l \in I32, o \in Opt \cup {"#"}, r \in I32 :
          OptOutcomes(l, o, r) \in SUBSET
              (({"val"} \X I32) \cup ({"abort", "trap"} \X {0}))

VARIABLES
    opof,         \* the local stack __opof, its top() is the last element
    rpn,          \* position of the range-for over __rpn_op_stk_
    const_expr    \* __const_expr_: <<>>, or the value its text denotes

evalVars == <<opof, rpn, const_expr>>
folderVars == <<convertVars, evalVars>>

\* __str2int_, which is strtol in base 10: 0 for a token that is no number.
StrToInt(t) == IF t \in Num THEN IntOf[t] ELSE 0

-----------------------------------------------------------------------------
EvalInit ==
    /\ ConvertInit
    /\ opof = <<>>
    /\ rpn = 1
    /\ const_expr = <<>>

ConvertStep ==
    /\ Convert
    /\ UNCHANGED evalVars

\* The loop of evalRPN is at a token of the class C.
EvalAt(C) ==
    /\ pc = "eval"
    /\ rpn <= Len(rpn_op_stk)
    /\ rpn_op_stk[rpn] \in C
    /\ UNCHANGED <<mid_op_stk, token, tmp_opt_stk, rpn_op_stk, const_expr>>

\* Mutant of EvalOperand: the loop leaves a token out.
EvalOperandSkips ==
    /\ EvalAt(Token \ Opt)
    /\ opof' = Append(opof, StrToInt(rpn_op_stk[rpn]))
    /\ rpn' = rpn + 2
    /\ UNCHANGED pc

\* Every token that __is_opt_ does not accept is pushed.  A value goes to text
\* and back between two operators, which a value in I32 survives.
EvalOperand ==
    /\ EvalAt(Token \ Opt)
    /\ opof' = Append(opof, StrToInt(rpn_op_stk[rpn]))
    /\ rpn' = rpn + 1
    /\ UNCHANGED pc

\* Mutant of EvalOpt: the left operand stays on the stack.
EvalOptPopsOne ==
    /\ EvalAt(Opt \cup {"#"})
    /\ Len(opof) >= 2
    /\ \E out \in OptOutcomes(opof[Len(opof)-1], rpn_op_stk[rpn], Last(opof)) :
          /\ out[1] = "val"
          /\ opof' = Append(Front(opof), out[2])
          /\ rpn' = rpn + 1
          /\ UNCHANGED pc

\* Mutant of EvalOpt: the result is not pushed.
EvalOptNoPush ==
    /\ EvalAt(Opt \cup {"#"})
    /\ Len(opof) >= 2
    /\ \E out \in OptOutcomes(opof[Len(opof)-1], rpn_op_stk[rpn], Last(opof)) :
          /\ out[1] = "val"
          /\ opof' = SubSeq(opof, 1, Len(opof)-2)
          /\ rpn' = rpn + 1
          /\ UNCHANGED pc

\* Mutant of EvalOpt: a missing left operand is taken for 0.
EvalOptUnary ==
    /\ EvalAt(Opt \cup {"#"})
    /\ Len(opof) >= 1
    /\ \E out \in OptOutcomes(IF Len(opof) = 1 THEN 0 ELSE opof[Len(opof)-1], rpn_op_stk[rpn], Last(opof)) :
          /\ out[1] = "val"
          /\ opof' = Append(SubSeq(opof, 1, Len(opof)-2), out[2])
          /\ rpn' = rpn + 1
          /\ UNCHANGED pc

\* Mutant of EvalOpt: rval is popped after lval.
EvalOptSwapped ==
    /\ EvalAt(Opt \cup {"#"})
    /\ Len(opof) >= 2
    /\ \E out \in OptOutcomes(Last(opof), rpn_op_stk[rpn], opof[Len(opof)-1]) :
          /\ out[1] = "val"
          /\ opof' = Append(SubSeq(opof, 1, Len(opof)-2), out[2])
          /\ rpn' = rpn + 1
          /\ UNCHANGED pc

\* Two values are popped, the result pushed; "abort" is the assert(0) of a
\* division by zero, "trap" the signal of a division that overflows.
EvalOpt ==
    /\ EvalAt(Opt \cup {"#"})
    /\ Len(opof) >= 2
    /\ \E out \in OptOutcomes(opof[Len(opof)-1], rpn_op_stk[rpn], Last(opof)) :
          IF out[1] = "val"
          THEN /\ opof' = Append(SubSeq(opof, 1, Len(opof)-2), out[2])
               /\ rpn' = rpn + 1
               /\ UNCHANGED pc
          ELSE /\ pc' = out[1]
               /\ UNCHANGED <<opof, rpn>>

\* top() and pop() of an empty stack: nothing tests for it.
Underflow ==
    /\ EvalAt(Opt \cup {"#"})
    /\ Len(opof) < 2
    /\ pc' = "undefined"
    /\ UNCHANGED <<opof, rpn>>

\* After the loop __const_expr_ takes the top, with the same lack of a test.
EvalEnd ==
    /\ pc = "eval"
    /\ rpn > Len(rpn_op_stk)
    /\ \/ opof # <<>> /\ const_expr' = <<Last(opof)>> /\ pc' = "val"
       \/ opof = <<>> /\ UNCHANGED const_expr /\ pc' = "undefined"
    /\ UNCHANGED <<mid_op_stk, token, tmp_opt_stk, rpn_op_stk, opof, rpn>>

EvalNext == ConvertStep \/ EvalOperand \/ EvalOpt \/ Underflow \/ EvalEnd

Over == pc \in {"val", "abort", "trap", "undefined"}

Terminated == Over /\ UNCHANGED folderVars

EvalSpec == EvalInit /\ [][EvalNext \/ Terminated]_folderVars /\ WF_folderVars(EvalNext)

-----------------------------------------------------------------------------
(***************************************************************************)
(* Properties.                                                             *)
(***************************************************************************)
\* The type invariant of the folder; the evaluation starts on an empty stack.
EvalTypeOK ==
    /\ QueueTypeOK
    /\ opof \in Seq(I32)
    /\ rpn \in 1..Len(rpn_op_stk)+1
    /\ const_expr \in {<<>>} \cup {<<v>> : v \in I32}
    /\ pc \in {"scan", "eval", "val", "abort", "trap", "undefined"}
    /\ pc = "scan" => opof = <<>> /\ rpn = 1

\* The stack of evalRPN is as high as the part of the RPN queue that has been
\* read says, and at the end of an infix expression exactly one value was left:
\* evalRPN itself ignores what else the stack may hold.
OneValueLeft ==
    WellFormed(mid_op_stk) =>
        /\ pc = "eval" => Len(opof) = Height(rpn_op_stk, rpn - 1)
        /\ pc = "val" => Len(opof) = 1 /\ const_expr = opof

\* The two top()/pop() pairs and the last top() of evalRPN, none of which tests
\* for an empty stack, never meet one when the queue was an infix expression.
NoUnderflow == WellFormed(mid_op_stk) => pc # "undefined"

\* A queue with an operand left out, which the traversal makes of every
\* expression that names a variable, never folds to a value by accident.  Its
\* parentheses match all the same; one that is left open would be an operand.
MissingOperandNeverFolds ==
    Balanced(mid_op_stk) /\ pc = "val" => Height(mid_op_stk, Len(mid_op_stk)) >= 1

\* The outcome as the caller sees it.
outcome == IF ~Over THEN <<"pending", 0>>
           ELSE IF pc = "val" THEN <<"val", const_expr[1]>> ELSE <<pc, 0>>

Table == INSTANCE ConstFold
            WITH GroupPrio <- Prio, expr <- mid_op_stk, result <- outcome

\* midExpr2RPN followed by evalRPN implements the folder: the outcome is the
\* one of the expression grouped by the priorities of the table.
FoldsByTable == Table!FoldSpec

Binary == INSTANCE ConstFold
            WITH GroupPrio <- BinaryPrio, expr <- mid_op_stk, result <- outcome

\* The same, grouped by the entries that the table's comments reserve for the
\* binary operators.
FoldsByBinaryPriority == Binary!FoldSpec
=============================================================================
