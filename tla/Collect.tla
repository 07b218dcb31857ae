-------------------------------- MODULE Collect --------------------------------
(***************************************************************************)
(* BlockItemsAST::collect (src/include/_ast.hpp), as a caller that asks    *)
(* the list of an accepted program for its vector would run it; nothing in *)
(* the program calls it yet.                                               *)
(*                                                                         *)
(* A unique_ptr is the number of the object it owns, or NullPtr.  To move  *)
(* from a field of a node leaves NullPtr there: the node itself belongs to *)
(* the trees of the parser, so moved tells which fields that were.         *)
(***************************************************************************)
EXTENDS SyntaxTree

VARIABLES
    loop,           \* where collect is: "uncalled", "while", "push", "next", or
                    \* how it ended: "returned", "null read", "aborted"
    vector,         \* __block_items_ of the list
    cur_raw, cur,   \* the local variables
    moved           \* the fields <<node, place>> that were moved from

collectVars == <<loop, vector, cur_raw, cur, moved>>

NullPtr == 0

\* The unique_ptr in a field of a node: its k-th sub-tree.
Field(n, k) ==
    IF k \in DOMAIN nodes[n].kids /\ <<n, k>> \notin moved THEN nodes[n].kids[k] ELSE NullPtr

\* The list that collect is called on, and the places of its two fields.
List == Contents(RootBlock)
BlockItem == 1
NextItems == 2

-----------------------------------------------------------------------------
CollectInit ==
    /\ Init
    /\ loop = "uncalled"
    /\ vector = <<>>
    /\ cur_raw = NullPtr
    /\ cur = NullPtr
    /\ moved = {}

ParserStep == (Next \/ Returned) /\ UNCHANGED collectVars

\* The first item, and what follows it.
Begin ==
    /\ pc = "accept"
    /\ loop = "uncalled"
    /\ vector' = Append(vector, Field(List, BlockItem))
    /\ cur_raw' = Field(List, NextItems)
    /\ moved' = moved \cup {<<List, BlockItem>>, <<List, NextItems>>}
    /\ loop' = "while"
    /\ UNCHANGED <<vars, cur>>

\* Mutant of Entered: the test comes behind the body, as in a do loop.
EnteredUnasked == loop = "while" /\ (cur_raw # NullPtr \/ Len(vector) = 1)

Entered == loop = "while" /\ cur_raw # NullPtr

\* local_cast, which takes the object from cur_raw, and stops at a null pointer.
Cast ==
    /\ Entered
    /\ cur' = cur_raw
    /\ cur_raw' = NullPtr
    /\ loop' = IF cur_raw = NullPtr THEN "aborted" ELSE "push"
    /\ UNCHANGED <<vars, vector, moved>>

\* Mutant of PushCur: a copy of the pointer goes into the vector.
PushCopy ==
    /\ loop = "push"
    /\ vector' = Append(vector, cur)
    /\ loop' = "next"
    /\ UNCHANGED <<vars, cur_raw, cur, moved>>

PushCur ==
    /\ loop = "push"
    /\ vector' = Append(vector, cur)
    /\ cur' = NullPtr
    /\ loop' = "next"
    /\ UNCHANGED <<vars, cur_raw, moved>>

\* cur->__next_, of whatever cur has become.
Follow ==
    /\ loop = "next"
    /\ IF cur = NullPtr
       THEN loop' = "null read" /\ UNCHANGED <<cur_raw, moved>>
       ELSE /\ cur_raw' = Field(cur, NextItems)
            /\ moved' = moved \cup {<<cur, NextItems>>}
            /\ loop' = "while"
    /\ UNCHANGED <<vars, vector, cur>>

Leave ==
    /\ loop = "while"
    /\ ~Entered
    /\ loop' = "returned"
    /\ UNCHANGED <<vars, vector, cur_raw, cur, moved>>

CollectStep == Begin \/ Cast \/ PushCur \/ Follow \/ Leave

CollectSpec ==
    CollectInit /\ [][ParserStep \/ CollectStep]_<<vars, collectVars>> /\ WF_vars(Next)

-----------------------------------------------------------------------------
\* The unique_ptrs that own the object n.
Owners(n) ==
    {<<"field", f>> : f \in {g \in (DOMAIN nodes) \X (1..3) : Field(g[1], g[2]) = n}}
    \cup {<<"vector", k>> : k \in {j \in DOMAIN vector : vector[j] = n}}
    \cup (IF cur_raw = n THEN {<<"cur_raw", 0>>} ELSE {})
    \cup (IF cur = n THEN {<<"cur", 0>>} ELSE {})

\* Between any two steps of collect each item, and each list that follows one,
\* has exactly one owner: the casts and moves neither leave it to two pointers,
\* which would free it twice, nor to none.
ItemsHaveOneOwner ==
    pc = "accept" =>
        \A m \in DOMAIN nodes : nodes[m].tid = "BLOCK_ITEMS" =>
            \A k \in DOMAIN nodes[m].kids : Cardinality(Owners(nodes[m].kids[k])) = 1

\* collect returns only if there is nothing to collect, and leaves a vector of a
\* null pointer then.  On the block of every program that returns something it
\* reads through the cur it has just moved away, for the empty list at the end
\* of each list keeps it from leaving first, and the vector holds the item and,
\* in the place of a second one, the rest of the list.  It never casts a null
\* pointer.
CollectNeedsEmptyBlock ==
    /\ loop = "returned" => "RETURN" \notin Range(read) /\ vector = <<NullPtr>>
    /\ loop = "null read" => "RETURN" \in Range(read) /\ vector = nodes[List].kids
    /\ loop # "aborted"
=============================================================================
