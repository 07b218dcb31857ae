------------------------------ MODULE OptTable ------------------------------
(***************************************************************************)
(* __opt_priority_, the table of operator priorities that                  *)
(* __init_opt_priority_ (src/src/_ir.cpp) fills.  The table is keyed by    *)
(* the operator's text, so an operator that is written like another one    *)
(* shares its entry, and the assignment that runs last decides.            *)
(***************************************************************************)
EXTENDS Integers, Sequences, FiniteSetsExt

\* The assignments in program order, the runs of equal value as one row: the
\* entry 1 << prio for each of opts.  The marker "#" is left out, its entry is
\* never compared.
Rows == <<
    [prio |-> 15, opts |-> {","}],
    [prio |-> 14, opts |-> {"|=", "^=", "&=", ">>=", "<<=", "-=", "+=",
                            "%=", "*=", "/=", "="}],
    [prio |-> 13, opts |-> {"?:"}],
    [prio |-> 12, opts |-> {"||"}],
    [prio |-> 11, opts |-> {"&&"}],
    [prio |-> 10, opts |-> {"|"}],
    [prio |->  9, opts |-> {"^"}],
    [prio |->  8, opts |-> {"&"}],
    [prio |->  7, opts |-> {"==", "!="}],
    [prio |->  6, opts |-> {"<=", "<", ">=", ">"}],
    [prio |->  5, opts |-> {">>", "<<"}],
    [prio |->  4, opts |-> {"-", "+"}],
    [prio |->  3, opts |-> {"%", "*", "/"}],
    [prio |->  2, opts |-> {"sizeof", "~", "!", "&", "*", "--", "++", "(T)", "-"}],
    [prio |->  1, opts |-> {".", "->", "()", "[]"}],
    [prio |->  0, opts |-> {"$"}] >>

\* The operators __is_opt_ accepts, again without the marker.
TableOpt == UNION {Rows[i].opts : i \in DOMAIN Rows}

RowsOf(o) == {i \in DOMAIN Rows : o \in Rows[i].opts}

\* What the table holds after the last assignment.
TablePrio == [o \in TableOpt |-> Rows[Max(RowsOf(o))].prio]

\* What it would hold if an entry were not overwritten: the first assignment
\* is the one for the binary operator wherever a text occurs twice.
FirstPrio == [o \in TableOpt |-> Rows[Min(RowsOf(o))].prio]

\* The operators that the lexer's Operator pattern matches: the ones an
\* expression of a program is made of, as binary or as unary operators.
LexerOpt == {"!=", "!", "==", ">", "<", ">=", "<=", "+", "-", "*", "/", "%",
             "&&", "||", "^", "<<", ">>"}

\* No operator of a program is missing from the table: __is_opt_ accepts each.
ASSUME LexerOptInTable == LexerOpt \subseteq TableOpt
=============================================================================
