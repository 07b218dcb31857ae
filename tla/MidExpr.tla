------------------------------- MODULE MidExpr -------------------------------
(***************************************************************************)
(* What BasicBlockIR's token queues mean: when __mid_op_stk_ is an infix   *)
(* expression and __rpn_op_stk_ one in reverse Polish order.  These are    *)
(* the terms in which the properties of midExpr2RPN and evalRPN are        *)
(* stated; no code of the compiler corresponds to them.                    *)
(***************************************************************************)
EXTENDS Integers, FiniteSets, Sequences

CONSTANTS
    Num,        \* the tokens that __is_int_ accepts
    Opt         \* the operators of the table, but for its marker "#"

\* How many of the first k elements of s are in S.
Count(s, k, S) == Cardinality({j \in 1..k : s[j] \in S})

\* What evalRPN's stack holds after the first k tokens of r: every operand
\* pushes one value, every operator replaces two by one.
Height(r, k) == Count(r, k, Num) - Count(r, k, Opt)

\* Parentheses open after the first k tokens of m.
Depth(m, k) == Count(m, k, {"("}) - Count(m, k, {")"})

\* After such a token an operator or ")" follows, otherwise an operand or "(".
EndsOperand(t) == t \in Num \cup {")"}

\* An operand has ended just before the k-th token.
OperandBefore(m, k) == k > 1 /\ EndsOperand(m[k-1])

\* The token queues that are infix expressions: operands and operators
\* alternate, parentheses match.
WellFormed(m) ==
    /\ m \in Seq(Num \cup Opt \cup {"(", ")"})
    /\ m # <<>>
    /\ m[1] \in Num \cup {"("}
    /\ EndsOperand(m[Len(m)])
    /\ \A k \in 1..Len(m)-1 :
          IF EndsOperand(m[k]) THEN m[k+1] \in Opt \cup {")"}
                               ELSE m[k+1] \in Num \cup {"("}
    /\ \A k \in 0..Len(m) : Depth(m, k) >= 0
    /\ Depth(m, Len(m)) = 0

\* The parentheses of a token queue match, whatever else is or is not between them.
Balanced(m) ==
    /\ \A k \in 0..Len(m) : Depth(m, k) >= 0
    /\ Depth(m, Len(m)) = 0

\* The RPN queue r never makes evalRPN pop an empty stack.
NeverUnderflows(r) ==
    \A k \in 1..Len(r) : r[k] \in Opt => Height(r, k-1) >= 2

\* r is an expression in reverse Polish order: evalRPN leaves one value.
IsRPN(r) ==
    /\ r \in Seq(Num \cup Opt)
    /\ NeverUnderflows(r)
    /\ Height(r, Len(r)) = 1
=============================================================================
