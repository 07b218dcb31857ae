------------------------------- MODULE SymTable -------------------------------
(***************************************************************************)
(* SymTable (src/include/_ref.hpp), a map from symbols to TypeValue        *)
(* objects.  Nothing calls it yet; its operations are operators on the map *)
(* here.                                                                   *)
(***************************************************************************)
EXTENDS Naturals, Sequences, TLC

\* A value is its type and its value, as TString and VString tell them.
TypeValue == [type |-> "abstract_type", value |-> "abstract_value"]
__Int_(v) == [type |-> "int", value |-> v]
__Float__(v) == [type |-> "float", value |-> v]

\* The map holds objects of the base class: what is assigned to one or copied
\* from one loses its own class, and with it type and value.
Sliced(tv) == TypeValue

\* Put: the table after it, and what it returns.
Put(tbl, sym, tv) ==
    IF sym \in DOMAIN tbl
    THEN [tbl |-> [tbl EXCEPT ![sym] = Sliced(tv)], ret |-> Sliced(tv)]
    ELSE [tbl |-> sym :> Sliced(tv) @@ tbl, ret |-> TypeValue]

Exist(tbl, sym) == sym \notin DOMAIN tbl

Get(tbl, sym) == IF sym \in DOMAIN tbl THEN tbl[sym] ELSE TypeValue

-----------------------------------------------------------------------------
Symbols == {"x", "y"}
Values == {__Int_("5"), __Int_("6"), __Float__("5")}

\* The table after the calls of Put with the symbols and values in puts.
AfterPuts[puts \in UNION {[1..n -> Symbols \X Values] : n \in 0..3}] ==
    IF puts = <<>> THEN <<>>
    ELSE LET last == puts[Len(puts)]
         IN  Put(AfterPuts[SubSeq(puts, 1, Len(puts) - 1)], last[1], last[2]).tbl

\* After any calls of Put a caller learns nothing from Get, nor from what another
\* Put returns, old or new: the answer for a symbol is the one for a symbol that
\* was never put.  Only Exist tells the two apart, and it says the opposite.
ASSUME AnswersTellNothing ==
    \A puts \in DOMAIN AfterPuts, sym \in Symbols :
        LET tbl == AfterPuts[puts]
        IN  /\ Get(tbl, sym) = TypeValue
            /\ \A tv \in Values : Put(tbl, sym, tv).ret = TypeValue
            /\ Exist(tbl, sym) <=> \A k \in DOMAIN puts : puts[k][1] # sym
=============================================================================
