----------------------------- MODULE MidExpr2RPN -----------------------------
(***************************************************************************)
(* BasicBlockIR::midExpr2RPN (src/src/_ir.cpp): the shunting-yard loop     *)
(* that turns the infix token queue __mid_op_stk_ into reverse Polish      *)
(* order in __rpn_op_stk_, with __tmp_opt_stk_ as the operator stack.      *)
(*                                                                         *)
(* Each action is one trip round one of the loops of the function.  A      *)
(* token is an uninterpreted value: the function looks only at its class   *)
(* (operand, operator, parenthesis, anything else) and, for operators, at  *)
(* its entry of the priority table.                                        *)
(***************************************************************************)
EXTENDS MidExpr, SequencesExt

CONSTANTS
    Token,      \* every token a queue may hold
    Prio,       \* Prio[o] is the table's entry for o
    MidExprs    \* the contents __mid_op_stk_ may have when the call starts

ASSUME TokenAssumption ==
    /\ Num \subseteq Token /\ Opt \subseteq Token /\ {"(", ")"} \subseteq Token
    /\ "#" \notin Token
    /\ Num \cap Opt = {}
    /\ (Num \cup Opt) \cap {"(", ")"} = {}
    /\ Prio \in [Opt -> Int]
    /\ MidExprs \subseteq Seq(Token)

VARIABLES
    mid_op_stk,   \* __mid_op_stk_, read only here
    token,        \* position of the range-for over __mid_op_stk_
    tmp_opt_stk,  \* __tmp_opt_stk_, its back() is the last element
    rpn_op_stk,   \* __rpn_op_stk_
    pc            \* "scan": in midExpr2RPN, "eval": returned, "abort": assert(0)

convertVars == <<mid_op_stk, token, tmp_opt_stk, rpn_op_stk, pc>>

-----------------------------------------------------------------------------
\* Mutant of OptLess: operators of equal priority group from the right.
OptLessOrEqual(opt1, opt2) ==
    IF opt1 \in {"#", "("} \/ opt2 = ")" THEN TRUE
    ELSE opt1 # ")" /\ opt2 # "(" /\ Prio[opt1] >= Prio[opt2]

\* __opt_less_(opt1, opt2): opt1, on the stack, binds less than opt2.  A
\* smaller entry of the table binds tighter, equal entries do not bind less.
OptLess(opt1, opt2) ==
    IF opt1 \in {"#", "("} \/ opt2 = ")" THEN TRUE
    ELSE opt1 # ")" /\ opt2 # "(" /\ Prio[opt1] > Prio[opt2]

\* The loop is at a token of the class C.
At(C) ==
    /\ pc = "scan"
    /\ token <= Len(mid_op_stk)
    /\ mid_op_stk[token] \in C

\* Mutant of PopToRPN: pop_back without the push_back.
PopOnly ==
    /\ tmp_opt_stk' = Front(tmp_opt_stk)
    /\ UNCHANGED <<mid_op_stk, token, rpn_op_stk, pc>>

\* The back of the operator stack goes to the end of the RPN queue.
PopToRPN ==
    /\ rpn_op_stk' = Append(rpn_op_stk, Last(tmp_opt_stk))
    /\ tmp_opt_stk' = Front(tmp_opt_stk)
    /\ UNCHANGED <<mid_op_stk, token, pc>>

Advance ==
    /\ token' = token + 1
    /\ UNCHANGED <<mid_op_stk, pc>>

-----------------------------------------------------------------------------
ConvertInit ==
    /\ mid_op_stk \in MidExprs
    /\ token = 1
    /\ tmp_opt_stk = <<"#">>
    /\ rpn_op_stk = <<>>
    /\ pc = "scan"

\* Mutant of Operand: push_front for push_back.
OperandAtFront ==
    /\ At(Num)
    /\ rpn_op_stk' = <<mid_op_stk[token]>> \o rpn_op_stk
    /\ UNCHANGED tmp_opt_stk
    /\ Advance

Operand ==
    /\ At(Num)
    /\ rpn_op_stk' = Append(rpn_op_stk, mid_op_stk[token])
    /\ UNCHANGED tmp_opt_stk
    /\ Advance

PopOperator ==
    /\ At(Opt)
    /\ tmp_opt_stk # <<>>
    /\ ~OptLess(Last(tmp_opt_stk), mid_op_stk[token])
    /\ PopToRPN

PushOperator ==
    /\ At(Opt)
    /\ tmp_opt_stk # <<>> => OptLess(Last(tmp_opt_stk), mid_op_stk[token])
    /\ tmp_opt_stk' = Append(tmp_opt_stk, mid_op_stk[token])
    /\ UNCHANGED rpn_op_stk
    /\ Advance

OpenParen ==
    /\ At({"("})
    /\ tmp_opt_stk' = Append(tmp_opt_stk, "(")
    /\ UNCHANGED rpn_op_stk
    /\ Advance

PopInParen ==
    /\ At({")"})
    /\ tmp_opt_stk # <<>>
    /\ Last(tmp_opt_stk) # "("
    /\ PopToRPN

\* Mutant of CloseParen: the loop waits for a "(" on the empty stack.
CloseParenWaits ==
    /\ At({")"})
    /\ \/ tmp_opt_stk = <<>> /\ UNCHANGED convertVars
       \/ /\ tmp_opt_stk # <<>>
          /\ Last(tmp_opt_stk) = "("
          /\ tmp_opt_stk' = Front(tmp_opt_stk)
          /\ UNCHANGED rpn_op_stk
          /\ Advance

\* Mutant of CloseParen: the "(" is not popped.
CloseParenKeeps ==
    /\ At({")"})
    /\ \/ tmp_opt_stk = <<>>
       \/ tmp_opt_stk # <<>> /\ Last(tmp_opt_stk) = "("
    /\ UNCHANGED <<tmp_opt_stk, rpn_op_stk>>
    /\ Advance

CloseParen ==
    /\ At({")"})
    /\ \/ tmp_opt_stk = <<>> /\ UNCHANGED tmp_opt_stk
       \/ /\ tmp_opt_stk # <<>>
          /\ Last(tmp_opt_stk) = "("
          /\ tmp_opt_stk' = Front(tmp_opt_stk)
    /\ UNCHANGED rpn_op_stk
    /\ Advance

\* Mutant of IllegalToken: the last else takes the token for an operand.
IllegalTokenPushed ==
    /\ At(Token \ (Num \cup Opt \cup {"(", ")"}))
    /\ rpn_op_stk' = Append(rpn_op_stk, mid_op_stk[token])
    /\ UNCHANGED tmp_opt_stk
    /\ Advance

\* Neither an integer, an operator nor a parenthesis: assert(0).
IllegalToken ==
    /\ At(Token \ (Num \cup Opt \cup {"(", ")"}))
    /\ pc' = "abort"
    /\ UNCHANGED <<mid_op_stk, token, tmp_opt_stk, rpn_op_stk>>

\* The loop after the scan empties the stack down to one element.
Flush ==
    /\ pc = "scan"
    /\ token > Len(mid_op_stk)
    /\ Len(tmp_opt_stk) > 1
    /\ PopToRPN

\* Mutant of Return: one operator more is left beside the marker.
ReturnEarly ==
    /\ pc = "scan"
    /\ token > Len(mid_op_stk)
    /\ Len(tmp_opt_stk) <= 2
    /\ pc' = "eval"
    /\ UNCHANGED <<mid_op_stk, token, tmp_opt_stk, rpn_op_stk>>

Return ==
    /\ pc = "scan"
    /\ token > Len(mid_op_stk)
    /\ Len(tmp_opt_stk) <= 1
    /\ pc' = "eval"
    /\ UNCHANGED <<mid_op_stk, token, tmp_opt_stk, rpn_op_stk>>

Convert ==
    \/ Operand \/ PopOperator \/ PushOperator
    \/ OpenParen \/ PopInParen \/ CloseParen
    \/ IllegalToken \/ Flush \/ Return

\* The call is over: nothing changes any more.
Converted == pc \in {"eval", "abort"} /\ UNCHANGED convertVars

ConvertSpec == 
    /\ ConvertInit
    /\ [][Convert \/ Converted]_convertVars
    /\ WF_convertVars(Convert)

-----------------------------------------------------------------------------
(***************************************************************************)
(* Properties.                                                             *)
(***************************************************************************)
\* What the stack and the queues of the call may hold.  A ")" is on neither,
\* and the marker reaches the result only by a ")" that closes nothing.
QueueTypeOK ==
    /\ mid_op_stk \in Seq(Token)
    /\ token \in 1..Len(mid_op_stk)+1
    /\ tmp_opt_stk \in Seq(Opt \cup {"#", "("})
    /\ rpn_op_stk \in Seq(Num \cup Opt \cup {"#", "("})

\* The type invariant of midExpr2RPN.
ConvertTypeOK == QueueTypeOK /\ pc \in {"scan", "eval", "abort"}

\* The marker pushed first stays at the bottom and occurs nowhere else.
MarkerAtBottom ==
    /\ tmp_opt_stk # <<>>
    /\ tmp_opt_stk[1] = "#"
    /\ \A k \in 2..Len(tmp_opt_stk) : tmp_opt_stk[k] # "#"

\* The stack holds the parentheses that are open at the loop's position.
OpenParensOnStack ==
    Count(tmp_opt_stk, Len(tmp_opt_stk), {"("}) = Depth(mid_op_stk, token - 1)

\* Every operator on the stack lacks one operand; there is one more value
\* exactly when an operand has just ended.
OperandBalance ==
    Height(rpn_op_stk, Len(rpn_op_stk)) =
        Count(tmp_opt_stk, Len(tmp_opt_stk), Opt)
        + IF OperandBefore(mid_op_stk, token) THEN 1 ELSE 0

\* The queue is an executable beginning of an RPN expression.
RPNSoFar ==
    /\ rpn_op_stk \in Seq(Num \cup Opt)
    /\ NeverUnderflows(rpn_op_stk)

\* The inductive invariant of the loops of midExpr2RPN on an infix expression:
\* how stack and queue relate to the tokens read so far, and that the function
\* is left only after the last token, so never by its assert(0), and with
\* nothing but the marker on the stack.
ConvertInv ==
    WellFormed(mid_op_stk) =>
        /\ MarkerAtBottom
        /\ OpenParensOnStack
        /\ OperandBalance
        /\ RPNSoFar
        /\ pc # "scan" => token > Len(mid_op_stk) /\ Len(tmp_opt_stk) = 1

\* What midExpr2RPN promises evalRPN: from an infix expression it makes an RPN
\* expression, with no parenthesis or marker left for evalRPN's else branch to
\* take for an operand.
ResultIsRPN == 
    WellFormed(mid_op_stk) /\ pc = "eval" => IsRPN(rpn_op_stk)

\* Whatever the queue holds, well formed or not, no operand or operator that
\* the loop has read is lost or duplicated: it is on the stack or in the result.
NothingLost ==
    \A t \in Num \cup Opt :
        Count(rpn_op_stk, Len(rpn_op_stk), {t})
        + Count(tmp_opt_stk, Len(tmp_opt_stk), {t})
            = Count(mid_op_stk, token - 1, {t})

\* Whatever the queue holds, operands come out in the order they went in: there
\* are as many in the result as have been read, and the n-th is the n-th.
OperandOrder ==
    /\ Count(rpn_op_stk, Len(rpn_op_stk), Num) = Count(mid_op_stk, token - 1, Num)
    /\ \A i \in 1..Len(rpn_op_stk), j \in 1..token-1 :
          /\ rpn_op_stk[i] \in Num /\ mid_op_stk[j] \in Num
          /\ Count(rpn_op_stk, i, Num) = Count(mid_op_stk, j, Num)
          => rpn_op_stk[i] = mid_op_stk[j]

\* Whatever the queue holds, the nested while loops of midExpr2RPN come to an
\* end: the call returns, or stops at a token it does not know.
ConvertEnds == <>(pc \in {"eval", "abort"})
=============================================================================
