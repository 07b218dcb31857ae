---------------------------- MODULE MCMidExpr2RPN ----------------------------
(***************************************************************************)
(* Instances of MidExpr2RPN.  midExpr2RPN distinguishes operators by their *)
(* entries only: one operator for each of three entries, two of them       *)
(* equal, gives every outcome of a comparison.                             *)
(***************************************************************************)
EXTENDS MidExpr2RPN

CONSTANTS
    MaxLen,         \* bound on the length of any token queue,
    MaxInfix        \* and of one that is an infix expression

MCNum == {"1", "2"}
MCPrio == [o \in {"+", "*", "/"} |-> IF o = "+" THEN 4 ELSE 3]
MCOpt == DOMAIN MCPrio
MCToken == MCNum \cup MCOpt \cup {"(", ")", "?"}

Queues(T, max) == UNION {[1..n -> T] : n \in 0..max}

\* Every queue, also those no expression gives, for the member is public; and longer
\* ones that are infix expressions.
MCMidExprs ==
    Queues(MCToken, MaxLen)
    \cup {m \in Queues(MCToken \ {"?"}, MaxInfix) : WellFormed(m)}
=============================================================================
