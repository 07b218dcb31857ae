------------------------------ MODULE ConstFold ------------------------------
(***************************************************************************)
(* What the constant folder of BasicBlockIR promises its caller: the queue *)
(* expr is replaced, in one step, by an outcome of the expression it is.   *)
(* An operator takes its operands by priority, operators of equal priority *)
(* from left to right, and both operands are evaluated, left one first.    *)
(***************************************************************************)
EXTENDS MidExpr, FiniteSetsExt

CONSTANTS
    GroupPrio,              \* GroupPrio[o]: a smaller number binds tighter
    IntOf,                  \* the integer an operand denotes
    OptOutcomes(_, _, _)    \* what applying an operator may come to

VARIABLES
    expr,       \* the infix queue
    result      \* what became of it: a pair of a kind and a value

foldVars == <<expr, result>>

Pending == <<"pending", 0>>

\* The ends without a value: the behaviour is undefined, or an operator stops it.
NoValue == {<<"undefined", 0>>, <<"abort", 0>>, <<"trap", 0>>}

-----------------------------------------------------------------------------
\* The operators of e[i..j] that are outside every parenthesis of e[i..j].
TopOperators(e, i, j) ==
    {k \in i..j : e[k] \in Opt /\ Depth(e, k) = Depth(e, i - 1)}

\* The operator applied last: the last one of those that bind least.
Root(e, i, j) ==
    LET top == TopOperators(e, i, j)
    IN  Max({k \in top : \A l \in top : GroupPrio[e[l]] <= GroupPrio[e[k]]})

\* The outcomes of an operator whose operands have the outcomes L and R.
Apply(L, o, R) ==
    {l \in L : l[1] # "val"}
    \cup {r \in R : r[1] # "val" /\ \E l \in L : l[1] = "val"}
    \cup UNION {OptOutcomes(l[2], o, r[2]) :
                    l \in {x \in L : x[1] = "val"}, r \in {x \in R : x[1] = "val"}}

\* The outcomes of the part e[p[1]..p[2]], from those of shorter parts of e.
PartOutcomes(Of, e, p) ==
    LET i == p[1]
        j == p[2]
        k == Root(e, i, j)
    IN  IF i >= j THEN {<<"val", IntOf[e[i]]>>}
        ELSE IF TopOperators(e, i, j) = {} THEN Of[<<i+1, j-1>>]
        ELSE Apply(Of[<<i, k-1>>], e[k], Of[<<k+1, j>>])

Parts(e) == (1..Len(e)+1) \X (0..Len(e))

\* The outcomes of the infix expression e.
Outcomes(e) ==
    LET Of[p \in Parts(e)] == PartOutcomes(Of, e, p)
    IN  Of[<<1, Len(e)>>]

-----------------------------------------------------------------------------
\* A queue from which the traversal has left an operand out.
LacksOperand(e) == Balanced(e) /\ Height(e, Len(e)) <= 0

\* Where an operand is missing there is no value: the folder's behaviour is
\* undefined, unless an operator whose operands are there stops it before.  To
\* other queues that are no expression it promises nothing.
Fold ==
    /\ result = Pending
    /\ result' # Pending
    /\ WellFormed(expr) => result' \in Outcomes(expr)
    /\ LacksOperand(expr) => result' \in NoValue
    /\ UNCHANGED expr

FoldSafety == result = Pending /\ [][Fold]_foldVars

\* Fold needs no more than a pending queue, so that it happens is all that weak
\* fairness of it would say.
FoldSpec == FoldSafety /\ <>(result # Pending)
=============================================================================
