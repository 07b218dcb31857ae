--------------------------- MODULE Parser_proofs ---------------------------
(***************************************************************************)
(* Proofs about Parser, for programs and stacks of every size.             *)
(*                                                                         *)
(* First what holds of any grammar whose rules are Orderly: the types, and *)
(* that the stacks grow no faster than the program.                        *)
(*                                                                         *)
(* Then what this grammar makes of it. The table of the automaton is       *)
(* worked out state by state: which rules are useful, the kernels of the   *)
(* states that a parser of useful rules comes to (Alive), and what each of *)
(* them expects, has complete and leads to (StateFacts). A stack is a path *)
(* through these states (ParserTraced), so that a reduction is one of the  *)
(* few that Reduction lists.                                               *)
(***************************************************************************)
EXTENDS ParserTrees, Induction, SequenceTheorems, FiniteSetTheorems

\* The nonterminals that are reduced from nothing: the empty lists.
Lists == {"BlockItems", "ConstDefs"}

\* Symbols that only the end of a rule can follow, or a token.
LastPart == {"}", "str;"}

\* What matters of a rule: after a list come tokens only, and a list is not
\* alone; only lists and BlockItem may be empty; and BlockItem begins the rule
\* of the longer list.
Orderly(rule) ==
    /\ Len(rule.rhs) \in Nat
    /\ rule.lhs \notin {"$end"} \cup LastPart
    /\ \A p \in 1..Len(rule.rhs) : rule.rhs[p] \in Lists =>
          /\ Len(rule.rhs) >= 2
          /\ \A q \in p+1..Len(rule.rhs) : rule.rhs[q] \in LastPart
    /\ Len(rule.rhs) = 0 => rule.lhs \in Lists \cup {"BlockItem"}
    /\ \A p \in 1..Len(rule.rhs) : rule.rhs[p] = "BlockItem" => p = 1 /\ rule.lhs = "BlockItems"

\* All rules are Orderly.
OrderlyRules(rules) ==
    /\ rules \in Seq({rules[i] : i \in 1..Len(rules)})
    /\ \A i \in 1..Len(rules) : Orderly(rules[i])

\* No list and no BlockItem.
Plain(symbols) == symbols \cap (Lists \cup {"BlockItem"}) = {}

\* What Rule puts where.
LEMMA RuleFields ==
    ASSUME NEW l, NEW r, NEW a, NEW b, NEW c, NEW o
    PROVE  Rule(l, r, a, b, c, o).lhs = l /\ Rule(l, r, a, b, c, o).rhs = r
BY DEF Rule

\* The empty rules of the lists and of BlockItem are orderly.
LEMMA EmptyRule ==
    ASSUME NEW l, NEW a, NEW b, NEW c, NEW o,
           l \notin {"$end"} \cup LastPart, l \in Lists \cup {"BlockItem"}
    PROVE  Orderly(Rule(l, <<>>, a, b, c, o))
BY DEF Rule, Orderly

\* A rule without a list and without BlockItem is orderly, whatever its length.
LEMMA PlainRule1 ==
    ASSUME NEW l, NEW a, NEW b, NEW c, NEW o, l \notin {"$end"} \cup LastPart,
           NEW u, Plain({u})
    PROVE  Orderly(Rule(l, <<u>>, a, b, c, o))
BY DEF Rule, Orderly, Plain

\* The same for two symbols.
LEMMA PlainRule2 ==
    ASSUME NEW l, NEW a, NEW b, NEW c, NEW o, l \notin {"$end"} \cup LastPart,
           NEW u, NEW v, Plain({u, v})
    PROVE  Orderly(Rule(l, <<u, v>>, a, b, c, o))
BY DEF Rule, Orderly, Plain

\* The same for three symbols.
LEMMA PlainRule3 ==
    ASSUME NEW l, NEW a, NEW b, NEW c, NEW o, l \notin {"$end"} \cup LastPart,
           NEW u, NEW v, NEW w, Plain({u, v, w})
    PROVE  Orderly(Rule(l, <<u, v, w>>, a, b, c, o))
BY DEF Rule, Orderly, Plain

\* The same for four symbols.
LEMMA PlainRule4 ==
    ASSUME NEW l, NEW a, NEW b, NEW c, NEW o, l \notin {"$end"} \cup LastPart,
           NEW u, NEW v, NEW w, NEW x, Plain({u, v, w, x})
    PROVE  Orderly(Rule(l, <<u, v, w, x>>, a, b, c, o))
BY DEF Rule, Orderly, Plain

\* The same for five symbols.
LEMMA PlainRule5 ==
    ASSUME NEW l, NEW a, NEW b, NEW c, NEW o, l \notin {"$end"} \cup LastPart,
           NEW u, NEW v, NEW w, NEW x, NEW y, Plain({u, v, w, x, y})
    PROVE  Orderly(Rule(l, <<u, v, w, x, y>>, a, b, c, o))
BY DEF Rule, Orderly, Plain

\* A sequence of orderly rules, written out.
LEMMA Rules1 ==
    ASSUME NEW a,
           Orderly(a)
    PROVE  OrderlyRules(<<a>>)
BY DEF OrderlyRules

\* A sequence of three orderly rules.
LEMMA Rules3 ==
    ASSUME NEW a, NEW b, NEW c,
           Orderly(a), Orderly(b), Orderly(c)
    PROVE  OrderlyRules(<<a, b, c>>)
BY DEF OrderlyRules

\* A sequence of four orderly rules.
LEMMA Rules4 ==
    ASSUME NEW a, NEW b, NEW c, NEW d,
           Orderly(a), Orderly(b), Orderly(c), Orderly(d)
    PROVE  OrderlyRules(<<a, b, c, d>>)
BY DEF OrderlyRules

\* A sequence of five orderly rules.
LEMMA Rules5 ==
    ASSUME NEW a, NEW b, NEW c, NEW d, NEW e,
           Orderly(a), Orderly(b), Orderly(c), Orderly(d), Orderly(e)
    PROVE  OrderlyRules(<<a, b, c, d, e>>)
BY DEF OrderlyRules

\* A sequence of eight orderly rules.
LEMMA Rules8 ==
    ASSUME NEW a, NEW b, NEW c, NEW d, NEW e, NEW f, NEW g, NEW h,
           Orderly(a), Orderly(b), Orderly(c), Orderly(d), Orderly(e),
           Orderly(f), Orderly(g), Orderly(h)
    PROVE  OrderlyRules(<<a, b, c, d, e, f, g, h>>)
BY DEF OrderlyRules

\* A sequence of nine orderly rules.
LEMMA Rules9 ==
    ASSUME NEW a, NEW b, NEW c, NEW d, NEW e, NEW f, NEW g, NEW h, NEW i,
           Orderly(a), Orderly(b), Orderly(c), Orderly(d), Orderly(e),
           Orderly(f), Orderly(g), Orderly(h), Orderly(i)
    PROVE  OrderlyRules(<<a, b, c, d, e, f, g, h, i>>)
BY DEF OrderlyRules

\* A rule s with one list in it, at the place m, is orderly if only the end of a
\* rule follows it, and BlockItem at most begins a rule of BlockItems.
LEMMA OneListRule ==
    ASSUME NEW l, NEW a, NEW b, NEW c, NEW o, NEW s, NEW n \in Nat, NEW m \in 1..n,
           l \notin {"$end"} \cup LastPart, Len(s) = n, n >= 2,
           \A p \in 1..n : s[p] \in Lists => p = m,
           \A p \in m+1..n : s[p] \in LastPart,
           \A p \in 2..n : s[p] # "BlockItem",
           l = "BlockItems" \/ s[1] # "BlockItem"
    PROVE  Orderly(Rule(l, s, a, b, c, o)) 
<1> DEFINE r == Rule(l, s, a, b, c, o)
<1>1. r.rhs = s /\ r.lhs = l
  BY DEF Rule
<1> HIDE DEF r
<1>2. ASSUME NEW p \in 1..n, s[p] \in Lists
      PROVE  n >= 2 /\ \A q \in p+1..n : s[q] \in LastPart
  BY <1>2
<1>3. ASSUME NEW p \in 1..n, r.lhs # "BlockItems" \/ p # 1 PROVE s[p] # "BlockItem"
  <2>1. p = 1 \/ p \in 2..n
    OBVIOUS
  <2> QED
    BY <1>1, <1>3, <2>1
<1>4. \A p \in 1..Len(r.rhs) : r.rhs[p] \in Lists =>
          /\ Len(r.rhs) >= 2
          /\ \A q \in p+1..Len(r.rhs) : r.rhs[q] \in LastPart
  BY <1>1, <1>2
<1>5. \A p \in 1..Len(r.rhs) : r.lhs # "BlockItems" \/ p # 1 => r.rhs[p] # "BlockItem"
  BY <1>1, <1>3
<1>6. \A p \in 1..Len(r.rhs) : r.rhs[p] = "BlockItem" => p = 1 /\ r.lhs = "BlockItems"
  BY <1>5
<1>7. Len(r.rhs) \in Nat /\ Len(r.rhs) # 0 /\ r.lhs \notin {"$end"} \cup LastPart
  BY <1>1
<1>8. Orderly(r)
  BY <1>4, <1>6, <1>7 DEF Orderly
<1> QED
  BY <1>8 DEF r

\* The rules with a list are such: a list of items that an item makes longer,
LEMMA LongerItemsRule ==
    ASSUME NEW a, NEW b, NEW c, NEW o, NEW u, NEW v,
           u = "BlockItem",
           v \in Lists
    PROVE  Orderly(Rule("BlockItems", <<u, v>>, a, b, c, o))
<1> DEFINE s == <<u, v>>
<1>1. Len(s) = 2 /\ s[1] = u /\ s[2] = v
  OBVIOUS
<1>2. {u} \cap Lists = {} /\ v # "BlockItem"
  BY DEF Plain, Lists, LastPart
<1> HIDE DEF s
<1>3. ASSUME NEW p \in 1..2, s[p] \in Lists PROVE p = 2
  <2>1. p = 1 \/ p = 2
    OBVIOUS
  <2> QED
    BY <1>1, <1>2, <1>3, <2>1
<1>4. ASSUME NEW p \in 2..2 PROVE s[p] # "BlockItem"
  <2>1. p = 2
    OBVIOUS
  <2> QED
    BY <1>1, <1>2, <2>1
<1>5. \A p \in 2+1..2 : s[p] \in LastPart
  BY <1>1
<1>6. "BlockItems" = "BlockItems" \/ s[1] # "BlockItem"
  BY <1>1, <1>2
<1> DEFINE n == 2
           m == 2
<1>8. /\ n \in Nat /\ m \in 1..n /\ n >= 2 /\ Len(s) = n
      /\ \A p \in 1..n : s[p] \in Lists => p = m
      /\ \A p \in m+1..n : s[p] \in LastPart
      /\ \A p \in 2..n : s[p] # "BlockItem"
  BY <1>1, <1>3, <1>4, <1>5
<1> HIDE DEF n, m
<1>7. Orderly(Rule("BlockItems", s, a, b, c, o))
  BY <1>6, <1>8, OneListRule DEF LastPart
<1> QED
  BY <1>7 DEF s

\* a list between two other symbols,
LEMMA ListSecondRule ==
    ASSUME NEW l, NEW a, NEW b, NEW c, NEW o, NEW u, NEW v, NEW w,
           l \notin {"$end"} \cup LastPart,
           Plain({u}),
           v \in Lists,
           w \in LastPart
    PROVE  Orderly(Rule(l, <<u, v, w>>, a, b, c, o))
<1> DEFINE s == <<u, v, w>>
<1>1. Len(s) = 3 /\ s[1] = u /\ s[2] = v /\ s[3] = w
  OBVIOUS
<1>2. {u, w} \cap Lists = {} /\ u # "BlockItem" /\ v # "BlockItem" /\ w # "BlockItem"
  BY DEF Plain, Lists, LastPart
<1> HIDE DEF s
<1>3. ASSUME NEW p \in 1..3, s[p] \in Lists PROVE p = 2
  <2>1. p = 1 \/ p = 2 \/ p = 3
    OBVIOUS
  <2> QED
    BY <1>1, <1>2, <1>3, <2>1
<1>4. ASSUME NEW p \in 2..3 PROVE s[p] # "BlockItem"
  <2>1. p = 2 \/ p = 3
    OBVIOUS
  <2> QED
    BY <1>1, <1>2, <2>1
<1>5. \A p \in 2+1..3 : s[p] \in LastPart
  BY <1>1
<1>6. l = "BlockItems" \/ s[1] # "BlockItem"
  BY <1>1, <1>2
<1> DEFINE n == 3
           m == 2
<1>8. /\ n \in Nat /\ m \in 1..n /\ n >= 2 /\ Len(s) = n
      /\ \A p \in 1..n : s[p] \in Lists => p = m
      /\ \A p \in m+1..n : s[p] \in LastPart
      /\ \A p \in 2..n : s[p] # "BlockItem"
  BY <1>1, <1>3, <1>4, <1>5
<1> HIDE DEF n, m
<1>7. Orderly(Rule(l, s, a, b, c, o))
  BY <1>6, <1>8, OneListRule DEF LastPart
<1> QED
  BY <1>7 DEF s

\* a list that ends a rule of three symbols,
LEMMA ListLastRule ==
    ASSUME NEW l, NEW a, NEW b, NEW c, NEW o, NEW u, NEW v, NEW w,
           l \notin {"$end"} \cup LastPart,
           Plain({u, v}),
           w \in Lists
    PROVE  Orderly(Rule(l, <<u, v, w>>, a, b, c, o))
<1> DEFINE s == <<u, v, w>>
<1>1. Len(s) = 3 /\ s[1] = u /\ s[2] = v /\ s[3] = w
  OBVIOUS
<1>2. {u, v} \cap Lists = {} /\ u # "BlockItem" /\ v # "BlockItem" /\ w # "BlockItem"
  BY DEF Plain, Lists, LastPart
<1> HIDE DEF s
<1>3. ASSUME NEW p \in 1..3, s[p] \in Lists PROVE p = 3
  <2>1. p = 1 \/ p = 2 \/ p = 3
    OBVIOUS
  <2> QED
    BY <1>1, <1>2, <1>3, <2>1
<1>4. ASSUME NEW p \in 2..3 PROVE s[p] # "BlockItem"
  <2>1. p = 2 \/ p = 3
    OBVIOUS
  <2> QED
    BY <1>1, <1>2, <2>1
<1>5. \A p \in 3+1..3 : s[p] \in LastPart
  BY <1>1
<1>6. l = "BlockItems" \/ s[1] # "BlockItem"
  BY <1>1, <1>2
<1> DEFINE n == 3
           m == 3
<1>8. /\ n \in Nat /\ m \in 1..n /\ n >= 2 /\ Len(s) = n
      /\ \A p \in 1..n : s[p] \in Lists => p = m
      /\ \A p \in m+1..n : s[p] \in LastPart
      /\ \A p \in 2..n : s[p] # "BlockItem"
  BY <1>1, <1>3, <1>4, <1>5
<1> HIDE DEF n, m
<1>7. Orderly(Rule(l, s, a, b, c, o))
  BY <1>6, <1>8, OneListRule DEF LastPart
<1> QED
  BY <1>7 DEF s

\* and a list before the last of five symbols.
LEMMA ListFourthRule ==
    ASSUME NEW l, NEW a, NEW b, NEW c, NEW o, NEW u, NEW v, NEW w, NEW x, NEW y,
           l \notin {"$end"} \cup LastPart,
           Plain({u, v, w}),
           x \in Lists,
           y \in LastPart
    PROVE  Orderly(Rule(l, <<u, v, w, x, y>>, a, b, c, o))
<1> DEFINE s == <<u, v, w, x, y>>
<1>1. Len(s) = 5 /\ s[1] = u /\ s[2] = v /\ s[3] = w /\ s[4] = x /\ s[5] = y
  OBVIOUS
<1>2. {u, v, w, y} \cap Lists = {} /\ u # "BlockItem" /\ v # "BlockItem" /\ w # "BlockItem" /\ x # "BlockItem" /\ y # "BlockItem"
  BY DEF Plain, Lists, LastPart
<1> HIDE DEF s
<1>3. ASSUME NEW p \in 1..5, s[p] \in Lists PROVE p = 4
  <2>1. p = 1 \/ p = 2 \/ p = 3 \/ p = 4 \/ p = 5
    OBVIOUS
  <2> QED
    BY <1>1, <1>2, <1>3, <2>1
<1>4. ASSUME NEW p \in 2..5 PROVE s[p] # "BlockItem"
  <2>1. p = 2 \/ p = 3 \/ p = 4 \/ p = 5
    OBVIOUS
  <2> QED
    BY <1>1, <1>2, <2>1
<1>5. \A p \in 4+1..5 : s[p] \in LastPart
  BY <1>1
<1>6. l = "BlockItems" \/ s[1] # "BlockItem"
  BY <1>1, <1>2
<1> DEFINE n == 5
           m == 4
<1>8. /\ n \in Nat /\ m \in 1..n /\ n >= 2 /\ Len(s) = n
      /\ \A p \in 1..n : s[p] \in Lists => p = m
      /\ \A p \in m+1..n : s[p] \in LastPart
      /\ \A p \in 2..n : s[p] # "BlockItem"
  BY <1>1, <1>3, <1>4, <1>5
<1> HIDE DEF n, m
<1>7. Orderly(Rule(l, s, a, b, c, o))
  BY <1>6, <1>8, OneListRule DEF LastPart
<1> QED
  BY <1>7 DEF s

-----------------------------------------------------------------------------
\* So the rules of the grammar are orderly, part by part.
LEMMA ProgramRulesOrderly == OrderlyRules(ProgramRules)
    BY PlainRule1, PlainRule5, ListSecondRule, Rules4
    DEF ProgramRules, Plain, Lists, LastPart

\* The rules of sysy.y for functions, blocks and their items are orderly.
LEMMA ItemRulesOrderly == OrderlyRules(ItemRules)
    BY EmptyRule, PlainRule1, LongerItemsRule, Rules5
    DEF ItemRules, Plain, Lists, LastPart

\* The rules for constant declarations are orderly.
LEMMA ConstRulesOrderly == OrderlyRules(ConstRules)
    BY EmptyRule, PlainRule1, PlainRule3, ListLastRule, ListFourthRule, Rules9
    DEF ConstRules, Plain, Lists, LastPart

\* The rules for variable declarations are orderly.
LEMMA VarRulesOrderly == OrderlyRules(VarRules)
    BY PlainRule1, PlainRule3, PlainRule4, Rules5
    DEF VarRules, Plain, Lists, LastPart

\* The rules for statements are orderly.
LEMMA StmtRulesOrderly == OrderlyRules(StmtRules)
    BY PlainRule1, PlainRule3, PlainRule4, Rules3
    DEF StmtRules, Plain, Lists, LastPart

\* The rules for operands and unary operators are orderly.
LEMMA OperandRulesOrderly == OrderlyRules(OperandRules)
    BY PlainRule1, PlainRule2, PlainRule3, Rules8
    DEF OperandRules, Plain, Lists, LastPart

\* The rules for the arithmetic operators are orderly.
LEMMA ArithmeticRulesOrderly == OrderlyRules(ArithmeticRules)
    BY PlainRule1, PlainRule3, Rules5
    DEF ArithmeticRules, Plain, Lists, LastPart

\* The rules for comparisons are orderly.
LEMMA RelationRulesOrderly == OrderlyRules(RelationRules)
    BY PlainRule1, PlainRule3, Rules5
    DEF RelationRules, Plain, Lists, LastPart

\* The rules for && and || are orderly.
LEMMA LogicRulesOrderly == OrderlyRules(LogicRules)
    BY PlainRule1, PlainRule3, Rules4
    DEF LogicRules, Plain, Lists, LastPart


\* And a concatenation of orderly rules is.
LEMMA OrderlyConcat ==
    ASSUME NEW a, NEW b, OrderlyRules(a), OrderlyRules(b)
    PROVE  /\ OrderlyRules(a \o b)
           /\ Len(a \o b) = Len(a) + Len(b)
           /\ \A i \in 1..Len(a) : (a \o b)[i] = a[i]
           /\ \A i \in 1..Len(b) : (a \o b)[Len(a) + i] = b[i]
<1> DEFINE c == a \o b
           S == {a[i] : i \in 1..Len(a)} \cup {b[i] : i \in 1..Len(b)}
<1>1. a \in Seq(S) /\ b \in Seq(S)
  BY SeqMonotonic DEF OrderlyRules
<1>2. /\ c \in Seq(S)
      /\ Len(c) = Len(a) + Len(b)
      /\ \A i \in 1..Len(c) : c[i] = IF i <= Len(a) THEN a[i] ELSE b[i - Len(a)]
  BY <1>1, ConcatProperties
<1>3. Len(a) \in Nat /\ Len(b) \in Nat
  BY <1>1
<1> HIDE DEF c
<1>4. \A i \in 1..Len(a) : c[i] = a[i]
  BY <1>2, <1>3
<1>5. ASSUME NEW i \in 1..Len(b) PROVE c[Len(a) + i] = b[i]
  <2> DEFINE k == Len(a) + i
  <2>1. k \in 1..Len(c) /\ ~(k <= Len(a)) /\ k - Len(a) = i
    BY <1>2, <1>3
  <2> HIDE DEF k
  <2>2. c[k] = b[i]
    BY <1>2, <2>1
  <2> QED
    BY <2>2 DEF k
<1>6. \A i \in 1..Len(c) : Orderly(c[i])
  <2> SUFFICES ASSUME NEW i \in 1..Len(c) PROVE Orderly(c[i])
    OBVIOUS
  <2>1. CASE i <= Len(a)
    BY <1>3, <1>4, <2>1 DEF OrderlyRules
  <2>2. CASE i > Len(a)
    <3>1. i - Len(a) \in 1..Len(b) /\ c[i] = b[i - Len(a)]
      BY <1>2, <1>3, <2>2
    <3> QED
      BY <3>1 DEF OrderlyRules
  <2> QED
    BY <1>3, <2>1, <2>2
<1>7. c \in Seq({c[i] : i \in 1..Len(c)})
  BY <1>2, IsASeq
<1>8. OrderlyRules(c)
  BY <1>6, <1>7 DEF OrderlyRules
<1> QED
  BY <1>2, <1>4, <1>5, <1>8 DEF c

\* The first rules of a concatenation are those of its first part.
LEMMA OrderlyLonger ==
    ASSUME NEW a, NEW b, OrderlyRules(a), OrderlyRules(b), NEW n \in Nat, n <= Len(a)
    PROVE  /\ OrderlyRules(a \o b)
           /\ n <= Len(a \o b)
           /\ \A i \in 1..n : (a \o b)[i] = a[i]
<1>1. Len(a) \in Nat /\ Len(b) \in Nat
  BY DEF OrderlyRules
<1> QED
  BY <1>1, OrderlyConcat

\* All rules are orderly, and the first six are where Bison's numbers have them.
LEMMA RulesOrderly ==
    /\ OrderlyRules(Rules)
    /\ Rules[1] = Rule("$accept", <<"CompUnit", "$end">>, "", "", <<1>>, 0)
    /\ 6 \in 1..Len(Rules)
    /\ Rules[6] = Rule("BlockItems", <<>>, "BLOCK_ITEMS", "Null", <<>>, 0)
    /\ \A i \in 1..6 : Rules[i].lhs # "BlockItem"
    /\ DOMAIN Rules = 1..Len(Rules) /\ Len(Rules) \in Nat
    /\ DOMAIN WrittenRules = 1..Len(WrittenRules) /\ Len(WrittenRules) \in Nat
    /\ Len(Rules) = Len(WrittenRules) + 1
    /\ \A i \in 1..Len(WrittenRules) : Rules[1 + i] = WrittenRules[i]
<1> DEFINE w2 == ProgramRules \o ItemRules
           w3 == w2 \o ConstRules
           w4 == w3 \o VarRules
           w5 == w4 \o StmtRules
           w6 == w5 \o OperandRules
           w7 == w6 \o ArithmeticRules
           w8 == w7 \o RelationRules
           w9 == w8 \o LogicRules
<1>1. w9 = WrittenRules
  BY DEF WrittenRules
<1>2. Len(ProgramRules) = 4 /\ Len(ItemRules) = 5
  BY DEF ProgramRules, ItemRules
<1>3. OrderlyRules(w2) /\ 5 <= Len(w2) /\ w2[4 + 1] = ItemRules[1]
      /\ \A i \in 1..4 : w2[i] = ProgramRules[i]
  <2>1. /\ OrderlyRules(w2)
        /\ Len(w2) = Len(ProgramRules) + Len(ItemRules)
        /\ \A i \in 1..Len(ProgramRules) : w2[i] = ProgramRules[i]
        /\ \A i \in 1..Len(ItemRules) : w2[Len(ProgramRules) + i] = ItemRules[i]
    BY ProgramRulesOrderly, ItemRulesOrderly, OrderlyConcat
  <2> HIDE DEF w2
  <2>2. 1 \in 1..Len(ItemRules)
    BY <1>2
  <2> QED
    BY <1>2, <2>1, <2>2
<1> DEFINE Begin(w) == OrderlyRules(w) /\ 5 <= Len(w) /\ \A i \in 1..5 : w[i] = w2[i]
<1> HIDE DEF w2
<1>4. Begin(w3)
  BY <1>3, ConstRulesOrderly, OrderlyLonger
<1> HIDE DEF w3
<1>5. Begin(w4)
  BY <1>4, VarRulesOrderly, OrderlyLonger
<1> HIDE DEF w4
<1>6. Begin(w5)
  BY <1>5, StmtRulesOrderly, OrderlyLonger
<1> HIDE DEF w5
<1>7. Begin(w6)
  BY <1>6, OperandRulesOrderly, OrderlyLonger
<1> HIDE DEF w6
<1>8. Begin(w7)
  BY <1>7, ArithmeticRulesOrderly, OrderlyLonger
<1> HIDE DEF w7
<1>9. Begin(w8)
  BY <1>8, RelationRulesOrderly, OrderlyLonger
<1> HIDE DEF w8
<1>10. Begin(WrittenRules)
  BY <1>1, <1>9, LogicRulesOrderly, OrderlyLonger
<1> DEFINE end == <<Rule("$accept", <<"CompUnit", "$end">>, "", "", <<1>>, 0)>>
<1>11. OrderlyRules(end)
  BY PlainRule2, Rules1 DEF Plain, Lists, LastPart
<1>12. Rules = end \o WrittenRules /\ Len(end) = 1 /\ Len(WrittenRules) \in Nat
  BY <1>10 DEF Rules, OrderlyRules
<1>13. end[1] = Rule("$accept", <<"CompUnit", "$end">>, "", "", <<1>>, 0)
  OBVIOUS
<1> HIDE DEF end
<1>14. /\ OrderlyRules(Rules) /\ Len(Rules) = 1 + Len(WrittenRules)
       /\ Rules[1] = end[1]
       /\ \A i \in 1..Len(WrittenRules) : Rules[1 + i] = WrittenRules[i]
  <2>1. /\ OrderlyRules(Rules)
        /\ Len(Rules) = Len(end) + Len(WrittenRules)
        /\ \A i \in 1..Len(end) : Rules[i] = end[i]
        /\ \A i \in 1..Len(WrittenRules) : Rules[Len(end) + i] = WrittenRules[i]
    <3>1. OrderlyRules(WrittenRules)
      BY <1>10
    <3> DEFINE rules == end \o WrittenRules
    <3>2. /\ OrderlyRules(rules)
          /\ Len(rules) = Len(end) + Len(WrittenRules)
          /\ \A i \in 1..Len(end) : rules[i] = end[i]
          /\ \A i \in 1..Len(WrittenRules) : rules[Len(end) + i] = WrittenRules[i]
      BY <1>11, <3>1, OrderlyConcat
    <3> HIDE DEF rules
    <3>3. rules = Rules
      BY <1>12 DEF rules
    <3> QED
      BY <3>2, <3>3
  <2> QED
    BY <1>12, <2>1
<1>15. /\ DOMAIN Rules = 1..Len(Rules) /\ Len(Rules) \in Nat
       /\ DOMAIN WrittenRules = 1..Len(WrittenRules)
  BY <1>10, <1>14 DEF OrderlyRules
<1>16. /\ Rules[1 + 5] = ItemRules[1]
       /\ \A i \in 1..4 : Rules[1 + i] = ProgramRules[i]
  BY <1>3, <1>10, <1>12, <1>14
<1>17. ItemRules[1] = Rule("BlockItems", <<>>, "BLOCK_ITEMS", "Null", <<>>, 0)
  BY DEF ItemRules
<1>18. \A i \in 1..4 : ProgramRules[i].lhs # "BlockItem"
  <2> SUFFICES ASSUME NEW i \in 1..4 PROVE ProgramRules[i].lhs # "BlockItem"
    OBVIOUS
  <2>1. i = 1 \/ i = 2 \/ i = 3 \/ i = 4
    OBVIOUS
  <2>2. ProgramRules[1].lhs # "BlockItem"
    BY DEF ProgramRules, Rule
  <2>3. ProgramRules[2].lhs # "BlockItem"
    BY DEF ProgramRules, Rule
  <2>4. ProgramRules[3].lhs # "BlockItem"
    BY DEF ProgramRules, Rule
  <2>5. ProgramRules[4].lhs # "BlockItem"
    BY DEF ProgramRules, Rule
  <2> QED
    BY <2>1, <2>2, <2>3, <2>4, <2>5
<1>19. ASSUME NEW i \in 1..6 PROVE Rules[i].lhs # "BlockItem"
  <2>1. i = 1 \/ i = 6 \/ (i - 1 \in 1..4 /\ i = 1 + (i - 1))
    OBVIOUS
  <2>2. CASE i = 1
    <3>1. Rules[1] = Rule("$accept", <<"CompUnit", "$end">>, "", "", <<1>>, 0)
      BY <1>13, <1>14
    <3>2. Rule("$accept", <<"CompUnit", "$end">>, "", "", <<1>>, 0).lhs # "BlockItem"
      BY DEF Rule
    <3> QED
      BY <2>2, <3>1, <3>2
  <2>3. CASE i = 6
    BY <1>16, <1>17, <2>3, RuleFields
  <2>4. CASE i - 1 \in 1..4 /\ i = 1 + (i - 1)
    BY <1>16, <1>18, <2>4
  <2> QED
    BY <2>1, <2>2, <2>3, <2>4
<1>20. Len(WrittenRules) \in Nat /\ 5 <= Len(WrittenRules)
  BY <1>10, <1>12
<1> QED
  <2>1. 6 \in 1..Len(Rules) /\ Rules[6] = ItemRules[1]
    BY <1>14, <1>16, <1>20
  <2>2. Rules[1] = Rule("$accept", <<"CompUnit", "$end">>, "", "", <<1>>, 0)
    BY <1>13, <1>14
  <2>3. Len(Rules) = Len(WrittenRules) + 1
    BY <1>14, <1>20
  <2> QED
    BY <1>14, <1>15, <1>17, <1>19, <1>20, <2>1, <2>2, <2>3

\* How the rules are numbered, and that each one is orderly.
LEMMA RulesShape ==
    /\ Len(Rules) \in Nat /\ DOMAIN Rules = 1..Len(Rules)
    /\ Len(WrittenRules) \in Nat /\ DOMAIN WrittenRules = 1..Len(WrittenRules)
    /\ Len(Rules) = Len(WrittenRules) + 1
    /\ \A i \in 1..Len(WrittenRules) : Rules[1 + i] = WrittenRules[i]
    /\ \A i \in 1..Len(Rules) : Orderly(Rules[i])
BY RulesOrderly DEF OrderlyRules

\* The first rule ends the program; the sixth is the empty list of items, and
\* the empty item comes after it.
LEMMA NumberedRules ==
    /\ Len(Rules[1].rhs) = 2 /\ Rules[1].rhs[2] = "$end" /\ Rules[1].lhs # "BlockItems"
    /\ 6 \in 1..Len(Rules)
    /\ Rules[6].lhs = "BlockItems" /\ Rules[6].rhs = <<>> /\ Len(Rules[6].rhs) = 0
    /\ \A i \in 1..6 : Rules[i].lhs # "BlockItem"
<1> DEFINE r == Rule("$accept", <<"CompUnit", "$end">>, "", "", <<1>>, 0)
           s == Rule("BlockItems", <<>>, "BLOCK_ITEMS", "Null", <<>>, 0)
<1>1. Len(r.rhs) = 2 /\ r.rhs[2] = "$end" /\ r.lhs # "BlockItems"
  BY DEF Rule
<1>2. s.lhs = "BlockItems" /\ s.rhs = <<>> /\ Len(s.rhs) = 0
  BY DEF Rule
<1> HIDE DEF r, s
<1>3. Rules[1] = r /\ Rules[6] = s
  BY RulesOrderly DEF r, s
<1>4. 6 \in 1..Len(Rules) /\ \A i \in 1..6 : Rules[i].lhs # "BlockItem"
  BY RulesOrderly
<1> QED
  BY <1>1, <1>2, <1>3, <1>4

\* Nonterminals is finite, has the left-hand sides, and no closing token.
LEMMA NonterminalFacts ==
    /\ Cardinality(Nonterminals) \in Nat
    /\ \A i \in 2..Len(Rules) : Rules[i].lhs \in Nonterminals
    /\ Nonterminals \cap ({"$end"} \cup LastPart) = {}
<1> DEFINE f == [i \in DOMAIN WrittenRules |-> WrittenRules[i].lhs]
<1>1. IsFiniteSet(DOMAIN WrittenRules)
  <2>1. IsFiniteSet(1..Len(WrittenRules))
    BY RulesShape, FS_Interval
  <2> QED
    BY <2>1, RulesShape
<1>2. f \in Surjection(DOMAIN WrittenRules, Nonterminals)
  BY DEF Surjection, Nonterminals
<1>3. Cardinality(Nonterminals) \in Nat
  BY <1>1, <1>2, FS_Surjection, FS_CardinalityType
<1>4. ASSUME NEW i \in 2..Len(Rules)
      PROVE  i - 1 \in DOMAIN WrittenRules /\ Rules[i] = WrittenRules[i-1]
  <2>1. i - 1 \in 1..Len(WrittenRules) /\ 1 + (i - 1) = i
    BY RulesShape
  <2> QED
    BY <2>1, RulesShape
<1>5. ASSUME NEW i \in 1..Len(WrittenRules)
      PROVE  WrittenRules[i].lhs \notin {"$end"} \cup LastPart
  <2>1. 1 + i \in 1..Len(Rules) /\ Rules[1 + i] = WrittenRules[i]
    BY RulesShape
  <2> QED
    BY <2>1, RulesShape DEF OrderlyRules, Orderly
<1> QED
  BY <1>3, <1>4, <1>5, RulesShape DEF Nonterminals

\* The rounds of the iteration that ends in LeftCorners.
CornerRounds(f) ==
    /\ f[0] = {<<A, A>> : A \in Nonterminals}
    /\ \A k \in 1..Cardinality(Nonterminals) : f[k] = Extended(f[k-1])
    /\ f[Cardinality(Nonterminals)] = LeftCorners

\* LeftCorners is reached in these rounds.
LEMMA CornerRoundsExist == \E f : CornerRounds(f)
<1> DEFINE D == SUBSET (Nonterminals \X Nonterminals)
           base == {<<A, A>> : A \in Nonterminals}
           step == [P \in D |-> Extended(P)]
           n == Cardinality(Nonterminals)
           Rounds(f) == f = [k \in 0..n |-> IF k = 0 THEN base ELSE UNION {Extended(P) : P \in {f[k-1]}}]
<1>1. base \in D /\ n \in Nat
  BY NonterminalFacts
<1>2. ASSUME NEW P \in D PROVE Extended(P) \in D
  BY DEF Extended, Begins
<1>3. step \in [D -> D]
  BY <1>2
<1> HIDE DEF D, base, step, n
<1>13. PICK g : IsIteration(g, D, base, step, n)
  BY <1>1, <1>3, IterationExists
<1>4. g \in [0..n -> D] /\ g[0] = base /\ \A k \in 1..n : g[k] = step[g[k-1]]
  BY <1>13 DEF IsIteration
<1>5. Rounds(g)
  <2>1. ASSUME NEW k \in 0..n
        PROVE  g[k] = IF k = 0 THEN base ELSE UNION {Extended(P) : P \in {g[k-1]}}
    <3>1. CASE k = 0
      BY <1>4, <3>1
    <3>2. CASE k # 0
      <4>1. k \in 1..n /\ k - 1 \in 0..n /\ g[k-1] \in D
        BY <1>1, <1>4, <3>2
      <4>2. g[k] = Extended(g[k-1])
        BY <1>4, <4>1 DEF step
      <4> QED
        BY <3>2, <4>2
    <3> QED
      BY <3>1, <3>2
  <2> QED
    BY <1>4, <2>1
<1> DEFINE round == CHOOSE f : Rounds(f)
<1>6. Rounds(round)
  BY <1>5
<1>7. LeftCorners = round[n]
  BY DEF LeftCorners, Iterate, base, n
<1> HIDE DEF round
<1>8. round[0] = base /\ \A k \in 1..n : round[k] = Extended(round[k-1])
  <2>1. round = [k \in 0..n |-> IF k = 0 THEN base ELSE UNION {Extended(P) : P \in {round[k-1]}}]
    BY <1>6
  <2>2. ASSUME NEW k \in 1..n PROVE round[k] = Extended(round[k-1])
    <3>1. k \in 0..n /\ k # 0
      BY <1>1
    <3>2. round[k] = UNION {Extended(P) : P \in {round[k-1]}}
      BY <2>1, <3>1
    <3> QED
      BY <3>2
  <2>3. 0 \in 0..n /\ round[0] = base
    BY <1>1, <2>1
  <2> QED
    BY <2>2, <2>3
<1> QED
  BY <1>7, <1>8 DEF CornerRounds, base, n

\* A pair of LeftCorners that is not <<A, A>> comes from another one.
LEMMA LeftCornersStep ==
    /\ LeftCorners \subseteq Nonterminals \X Nonterminals
    /\ \A pair \in LeftCorners :
          \/ pair[1] = pair[2]
          \/ \E i \in Useful : /\ <<pair[1], Rules[i].lhs>> \in LeftCorners
                               /\ Begins(Rules[i].lhs, Rules[i])
                               /\ Rules[i].rhs[1] = pair[2]
<1> DEFINE D == SUBSET (Nonterminals \X Nonterminals)
           base == {<<A, A>> : A \in Nonterminals}
           n == Cardinality(Nonterminals)
<1>1. base \in D /\ n \in Nat
  BY NonterminalFacts
<1>2. ASSUME NEW P \in D PROVE Extended(P) \in D
  BY DEF Extended, Begins
<1> HIDE DEF D, base, n
<1>13. PICK round : CornerRounds(round)
  BY CornerRoundsExist
<1>8. round[0] = base /\ \A k \in 1..n : round[k] = Extended(round[k-1])
  BY <1>13 DEF CornerRounds, base, n
<1>7. LeftCorners = round[n]
  BY <1>13 DEF CornerRounds, n
<1> DEFINE From(P, pair) ==
              \/ pair[1] = pair[2]
              \/ \E i \in Useful : /\ <<pair[1], Rules[i].lhs>> \in P
                                   /\ Begins(Rules[i].lhs, Rules[i])
                                   /\ Rules[i].rhs[1] = pair[2]
           S == {k \in Nat : k <= n => round[k] \in D /\ \A pair \in round[k] : From(round[k], pair)}
<1>9. 0 \in S
  <2>1. \A pair \in base : pair[1] = pair[2]
    BY DEF base
  <2> QED
    BY <1>1, <1>8, <2>1
<1>10. ASSUME NEW k \in Nat, k \in S PROVE k + 1 \in S
  <2> SUFFICES ASSUME k + 1 <= n
               PROVE  round[k+1] \in D /\ \A pair \in round[k+1] : From(round[k+1], pair)
    BY <1>10
  <2> DEFINE P == round[k]
             Q == round[k+1]
  <2>1. P \in D /\ \A pair \in P : From(P, pair)
    BY <1>1, <1>10
  <2>2. Q = Extended(P)
    <3>1. k + 1 \in 1..n /\ (k + 1) - 1 = k
      BY <1>1
    <3> QED
      BY <1>8, <3>1
  <2> HIDE DEF P, Q
  <2>3. Q \in D
    BY <1>2, <2>1, <2>2
  <2>4. ASSUME NEW pair \in Q PROVE From(Q, pair)
    <3>1. P \subseteq Q
      BY <2>2 DEF Extended
    <3>2. CASE pair \in P
      BY <2>1, <3>1, <3>2
    <3>3. CASE pair \notin P
      <4>1. PICK d \in P \X Useful : /\ Begins(d[1][2], Rules[d[2]])
                                     /\ pair = <<d[1][1], Rules[d[2]].rhs[1]>>
        BY <2>2, <3>3 DEF Extended
      <4>2. d[2] \in Useful /\ d[1] \in P /\ d[1] = <<d[1][1], d[1][2]>>
        BY <2>1, <4>1 DEF D
      <4>3. /\ d[1][2] = Rules[d[2]].lhs
            /\ Begins(Rules[d[2]].lhs, Rules[d[2]])
        BY <4>1 DEF Begins
      <4>4. <<pair[1], Rules[d[2]].lhs>> \in Q /\ Rules[d[2]].rhs[1] = pair[2]
        BY <3>1, <4>1, <4>2, <4>3
      <4> QED
        BY <4>2, <4>3, <4>4
    <3> QED
      BY <3>2, <3>3
  <2> QED
    BY <2>3, <2>4 DEF P, Q
<1> HIDE DEF S, From
<1>11. n \in S
  BY <1>1, <1>9, <1>10, SetInduction
<1>12. LeftCorners \in D /\ \A pair \in LeftCorners : From(LeftCorners, pair)
  BY <1>1, <1>7, <1>11 DEF S
<1> QED
  BY <1>12 DEF From, D

-----------------------------------------------------------------------------
\* The items of the automaton.
ItemSet == {it \in (1..Len(Rules)) \X Nat : it[2] <= Len(Rules[it[1]].rhs)}

\* The right-hand side of an item.
Rhs(it) == Rules[it[1]].rhs

\* The state is entered with the symbol X.
EnteredBy(state, X) == \A it \in state : it[2] >= 1 /\ Rhs(it)[it[2]] = X

\* The state has just been entered with one of Lists.
EndsList(state) == \E it \in state : it[2] >= 1 /\ Rhs(it)[it[2]] \in Lists

\* A symbol other than the end of the file leads to each state but the first.
Linked(ss) ==
    /\ ss \in Seq(SUBSET ItemSet) /\ Len(ss) >= 1
    /\ ss[1] = StartState
    /\ \A k \in 2..Len(ss) : ss[k] # {} /\ \E X : X # "$end" /\ EnteredBy(ss[k], X)

\* An item in a state: its rule was begun as many states below as its dot says,
\* and was followed in all states since.
Rooted(ss) ==
    \A k \in 1..Len(ss) : \A it \in ss[k] :
        it[2] < k /\ \A p \in 0..it[2] : <<it[1], p>> \in Items(ss[k - it[2] + p])

\* Above a list on the stack there is only what remains of the rules it is in:
\* nothing can be reduced from nothing there.
ListsLast(ss) ==
    \A m \in 1..Len(ss) : EndsList(ss[m]) =>
        \A k \in m..Len(ss) : \A it \in ss[k] :
            \A q \in it[2]+1..Len(Rhs(it)) : Rhs(it)[q] \in LastPart

\* What holds of the stack of states.
StackShape(ss) == Linked(ss) /\ Rooted(ss) /\ ListsLast(ss)

\* The token that has been read and is not on the stack yet.
Ahead == IF lookahead # <<>> /\ lookahead[1] # "$end" THEN 1 ELSE 0

\* A state of the stack ends an empty list.
ListOnStack == \E k \in 1..Len(states) : EndsList(states[k])

\* The inductive invariant.
ParserInv ==
    /\ ParserTypeOK
    /\ values \in Seq({values[k] : k \in 1..Len(values)})
    /\ StackShape(states)
    /\ Len(values) + Ahead <= Len(read) + (IF ListOnStack THEN 1 ELSE 0)
    /\ pc = "exhausted" => Len(states) = MaxDepth

-----------------------------------------------------------------------------
\* What Items adds to a state: rules at their beginning, each asked for by an
\* item of the state, and by an item of its own whose next symbol it derives.
LEMMA ItemsFacts ==
    ASSUME NEW state \in SUBSET ItemSet
    PROVE  /\ state \subseteq Items(state)
           /\ Items(state) \in SUBSET ItemSet
           /\ \A it \in Items(state) \ state :
                 /\ it = <<it[1], 0>>
                 /\ \E from \in state : AfterDot(from) \cap Nonterminals # {}
                 /\ \E from \in Items(state) : Rules[it[1]].lhs \in AfterDot(from)
<1>1. state \subseteq Items(state)
  BY DEF Items
<1>2. ASSUME NEW it \in Items(state), it \notin state
      PROVE  /\ it \in ItemSet
             /\ it = <<it[1], 0>>
             /\ \E from \in state : AfterDot(from) \cap Nonterminals # {}
             /\ \E from \in Items(state) : Rules[it[1]].lhs \in AfterDot(from)
  <2>1. PICK p \in Predicted : /\ \E from \in state : p[1] \in AfterDot(from)
                               /\ it = <<p[2], 0>>
    BY <1>2 DEF Items
  <2>2. PICK q \in LeftCorners \X Useful : /\ q[1][2] = Rules[q[2]].lhs
                                           /\ p = <<q[1][1], q[2]>>
    BY DEF Predicted
  <2>3. /\ q[1] \in LeftCorners /\ q[2] \in 1..Len(Rules) /\ q[2] = it[1]
        /\ p[1] = q[1][1] /\ p[1] \in Nonterminals
    BY <2>1, <2>2, LeftCornersStep, RulesShape DEF Useful
  <2>4. it \in ItemSet /\ it = <<it[1], 0>>
    <3>1. Len(Rules[q[2]].rhs) \in Nat
      BY <2>3, RulesShape DEF Orderly
    <3> QED
      BY <2>1, <2>3, <3>1 DEF ItemSet
  <2>5. \E from \in state : AfterDot(from) \cap Nonterminals # {}
    BY <2>1, <2>3
  <2>6. \E from \in Items(state) : Rules[it[1]].lhs \in AfterDot(from)
    <3>1. CASE q[1][1] = q[1][2]
      BY <1>1, <2>1, <2>2, <2>3, <3>1
    <3>2. CASE q[1][1] # q[1][2]
      <4>1. PICK i \in Useful : /\ <<q[1][1], Rules[i].lhs>> \in LeftCorners
                                /\ Begins(Rules[i].lhs, Rules[i])
                                /\ Rules[i].rhs[1] = q[1][2]
        BY <2>3, <3>2, LeftCornersStep
      <4>2. <<p[1], i>> \in Predicted
        <5> DEFINE r == <<<<q[1][1], Rules[i].lhs>>, i>>
        <5>1. r \in LeftCorners \X Useful /\ r[1][2] = Rules[r[2]].lhs
          BY <4>1
        <5>2. <<r[1][1], r[2]>> \in Predicted
          BY <5>1 DEF Predicted
        <5> QED
          BY <2>3, <5>2
      <4>3. <<i, 0>> \in Items(state)
        BY <2>1, <4>2 DEF Items
      <4>4. Rules[i].rhs[1] \in AfterDot(<<i, 0>>)
        BY <4>1 DEF AfterDot, Begins
      <4> QED
        BY <2>2, <2>3, <4>1, <4>3, <4>4
    <3> QED
      BY <3>1, <3>2
  <2> QED
    BY <2>4, <2>5, <2>6
<1> QED
  BY <1>1, <1>2

\* What Goto enters a state with: items past X, each of which was one before X.
LEMMA GotoFacts ==
    ASSUME NEW state \in SUBSET ItemSet, NEW X
    PROVE  /\ Goto(state, X) \in SUBSET ItemSet
           /\ \A it \in Goto(state, X) :
                 /\ it[2] >= 1 /\ Rhs(it)[it[2]] = X
                 /\ <<it[1], it[2] - 1>> \in Items(state)
           /\ \A it \in Items(state) : X \in AfterDot(it) => <<it[1], it[2] + 1>> \in Goto(state, X)
<1>1. ASSUME NEW it \in Goto(state, X)
      PROVE  /\ it \in ItemSet /\ it[2] >= 1 /\ Rhs(it)[it[2]] = X
             /\ <<it[1], it[2] - 1>> \in Items(state)
  <2>1. PICK from \in Items(state) : X \in AfterDot(from) /\ it = <<from[1], from[2] + 1>>
    BY DEF Goto
  <2>2. /\ from \in (1..Len(Rules)) \X Nat
        /\ from[2] < Len(Rules[from[1]].rhs)
        /\ X = Rules[from[1]].rhs[from[2] + 1]
    BY <2>1, ItemsFacts DEF AfterDot, ItemSet
  <2>3. from = <<from[1], from[2]>> /\ from[2] \in Nat /\ from[1] \in 1..Len(Rules)
    BY <2>2
  <2>4. Len(Rules[from[1]].rhs) \in Nat
    BY <2>3, RulesShape DEF Orderly
  <2>5. it \in ItemSet
    BY <2>1, <2>2, <2>3, <2>4 DEF ItemSet
  <2>6. <<it[1], it[2] - 1>> = from
    BY <2>1, <2>3
  <2> QED
    BY <2>1, <2>2, <2>3, <2>5, <2>6 DEF Rhs
<1>2. ASSUME NEW it \in Items(state), X \in AfterDot(it)
      PROVE  <<it[1], it[2] + 1>> \in Goto(state, X)
  BY <1>2 DEF Goto
<1> QED
  BY <1>1, <1>2

\* Only tokens that end a rule are still expected.
OnlyEnds(state) ==
    \A it \in state : \A q \in it[2]+1..Len(Rhs(it)) : Rhs(it)[q] \in LastPart

\* In such a state no nonterminal is next,
LEMMA OnlyEndsNext ==
    ASSUME NEW state \in SUBSET ItemSet, OnlyEnds(state), NEW it \in state
    PROVE  AfterDot(it) \cap Nonterminals = {}
<1>1. CASE it[2] < Len(Rhs(it))
  <2>1. it[2] \in Nat /\ Len(Rhs(it)) \in Nat
    BY RulesShape DEF ItemSet, Orderly, Rhs
  <2>2. it[2] + 1 \in it[2]+1..Len(Rhs(it))
    BY <1>1, <2>1
  <2>3. Rhs(it)[it[2] + 1] \in LastPart
    BY <2>2 DEF OnlyEnds
  <2> QED
    BY <2>3, NonterminalFacts DEF AfterDot, Rhs
<1>2. CASE ~(it[2] < Len(Rhs(it)))
  BY <1>2 DEF AfterDot, Rhs
<1> QED
  BY <1>1, <1>2

\* so that Items adds nothing to it.
LEMMA OnlyEndsItems ==
    ASSUME NEW state \in SUBSET ItemSet, OnlyEnds(state)
    PROVE  Items(state) = state
BY OnlyEndsNext, ItemsFacts

\* After a list only tokens are expected.
LEMMA AfterList ==
    ASSUME NEW state \in SUBSET ItemSet, NEW X, EnteredBy(state, X), EndsList(state)
    PROVE  OnlyEnds(state) /\ X \in Lists
<1>1. X \in Lists
  BY DEF EnteredBy, EndsList
<1>2. ASSUME NEW it \in state, NEW q \in it[2]+1..Len(Rhs(it))
      PROVE  Rhs(it)[q] \in LastPart
  <2>1. /\ it[1] \in 1..Len(Rules) /\ it[2] \in Nat /\ it[2] >= 1
        /\ it[2] <= Len(Rhs(it)) /\ Rhs(it)[it[2]] \in Lists
    BY <1>1 DEF EnteredBy, ItemSet, Rhs
  <2>2. Orderly(Rules[it[1]])
    BY <2>1, RulesShape
  <2>3. it[2] \in 1..Len(Rhs(it))
    BY <2>1, <2>2 DEF Orderly, Rhs
  <2> QED
    BY <2>1, <2>2, <2>3 DEF Orderly, Rhs
<1> QED
  BY <1>1, <1>2 DEF OnlyEnds

\* The stack of states keeps its shape when a state is pushed, on the whole of
\* it or on what a reduction leaves.
LEMMA PushShape ==
    ASSUME NEW ss, StackShape(ss), NEW m \in 1..Len(ss), NEW X, X # "$end",
           Goto(ss[m], X) # {}
    PROVE  /\ StackShape(Append(SubSeq(ss, 1, m), Goto(ss[m], X)))
           /\ Len(Append(SubSeq(ss, 1, m), Goto(ss[m], X))) = m + 1
           /\ \A k \in 1..m : Append(SubSeq(ss, 1, m), Goto(ss[m], X))[k] = ss[k]
<1> DEFINE top == Goto(ss[m], X)
           new == Append(SubSeq(ss, 1, m), top)
<1>1. ss \in Seq(SUBSET ItemSet) /\ Len(ss) \in Nat /\ m \in Nat /\ m <= Len(ss)
  BY DEF StackShape, Linked
<1>2. ss[m] \in SUBSET ItemSet
  BY <1>1
<1>3. top \in SUBSET ItemSet /\ EnteredBy(top, X)
  BY <1>2, GotoFacts DEF EnteredBy
<1>4. SubSeq(ss, 1, m) \in Seq(SUBSET ItemSet) /\ Len(SubSeq(ss, 1, m)) = m
      /\ \A k \in 1..m : SubSeq(ss, 1, m)[k] = ss[k]
  BY <1>1
<1> HIDE DEF top
<1>5. /\ new \in Seq(SUBSET ItemSet) /\ Len(new) = m + 1 /\ new[m+1] = top
      /\ \A k \in 1..m : new[k] = ss[k]
  BY <1>3, <1>4
<1> HIDE DEF new
<1>6. Linked(new)
  <2>1. ASSUME NEW k \in 2..m+1
        PROVE  new[k] # {} /\ \E Y : Y # "$end" /\ EnteredBy(new[k], Y)
    <3>1. CASE k = m + 1
      BY <1>3, <1>5, <3>1 DEF top
    <3>2. CASE k # m + 1
      <4>1. k \in 1..m /\ k \in 2..Len(ss)
        BY <1>1, <3>2
      <4> QED
        BY <1>5, <4>1 DEF StackShape, Linked
    <3> QED
      BY <3>1, <3>2
  <2>2. new[1] = StartState
    BY <1>5 DEF StackShape, Linked
  <2> QED
    BY <1>5, <2>1, <2>2 DEF Linked
<1>7. Rooted(new)
  <2> SUFFICES ASSUME NEW k \in 1..m+1, NEW it \in new[k]
               PROVE  it[2] < k /\ \A p \in 0..it[2] : <<it[1], p>> \in Items(new[k - it[2] + p])
    BY <1>5 DEF Rooted
  <2>0. it \in ItemSet /\ it[2] \in Nat
    BY <1>5 DEF ItemSet
  <2>1. CASE k # m + 1
    <3>1. k \in 1..m /\ k \in 1..Len(ss) /\ new[k] = ss[k]
      BY <1>1, <1>5, <2>1
    <3>2. it[2] < k /\ \A p \in 0..it[2] : <<it[1], p>> \in Items(ss[k - it[2] + p])
      BY <3>1 DEF StackShape, Rooted
    <3>3. ASSUME NEW p \in 0..it[2] PROVE new[k - it[2] + p] = ss[k - it[2] + p]
      <4>1. k - it[2] + p \in 1..m
        BY <2>0, <3>1, <3>2
      <4> QED
        BY <1>5, <4>1
    <3> QED
      BY <3>2, <3>3
  <2>2. CASE k = m + 1
    <3> DEFINE i == it[1]
               d == it[2] - 1
    <3>1. it \in top /\ it = <<i, d + 1>> /\ d \in Nat /\ <<i, d>> \in Items(ss[m])
      <4>1. it \in top
        BY <1>5, <2>2
      <4>2. it[2] >= 1 /\ <<it[1], it[2] - 1>> \in Items(ss[m])
        BY <1>2, <4>1, GotoFacts DEF top
      <4> QED
        BY <2>0, <4>1, <4>2 DEF ItemSet
    <3> HIDE DEF i, d
    <3>2. d < m /\ \A p \in 0..d : <<i, p>> \in Items(ss[m - d + p])
      <4>1. CASE <<i, d>> \in ss[m]
        BY <1>1, <4>1 DEF StackShape, Rooted
      <4>2. CASE <<i, d>> \notin ss[m]
        <5>1. d = 0
          BY <1>2, <3>1, <4>2, ItemsFacts
        <5> QED
          BY <1>1, <3>1, <5>1
      <4> QED
        BY <4>1, <4>2
    <3>3. it[1] = i /\ it[2] = d + 1
      BY <3>1
    <3>4. ASSUME NEW p \in 0..d+1 PROVE <<i, p>> \in Items(new[k - (d + 1) + p])
      <4>1. CASE p = d + 1
        <5>1. <<i, p>> \in new[m+1] /\ k - (d + 1) + p = m + 1
          BY <1>1, <1>5, <2>2, <3>1, <4>1
        <5>2. new[m+1] \in SUBSET ItemSet
          BY <1>3, <1>5
        <5> QED
          BY <5>1, <5>2, ItemsFacts
      <4>2. CASE p # d + 1
        <5>1. p \in 0..d
          BY <3>1, <4>2
        <5>2. k - (d + 1) + p = m - d + p /\ m - d + p \in 1..m
          BY <1>1, <2>2, <3>1, <3>2, <5>1
        <5> QED
          BY <1>5, <3>2, <5>1, <5>2
      <4> QED
        BY <4>1, <4>2
    <3> QED
      BY <1>1, <2>2, <3>1, <3>2, <3>3, <3>4
  <2> QED
    BY <2>1, <2>2
<1>8. ListsLast(new)
  <2> SUFFICES ASSUME NEW j \in 1..m+1, EndsList(new[j]), NEW k \in j..m+1
               PROVE  OnlyEnds(new[k])
    BY <1>5 DEF ListsLast, OnlyEnds
  <2>1. CASE k # m + 1
    <3>1. j \in 1..Len(ss) /\ k \in j..Len(ss) /\ new[j] = ss[j] /\ new[k] = ss[k]
      BY <1>1, <1>5, <2>1
    <3> QED
      BY <3>1 DEF StackShape, ListsLast, OnlyEnds
  <2>2. CASE k = m + 1 /\ j = m + 1
    BY <1>3, <1>5, <2>2, AfterList
  <2>3. CASE k = m + 1 /\ j # m + 1
    <3>1. j \in 1..Len(ss) /\ m \in j..Len(ss) /\ new[j] = ss[j]
      BY <1>1, <1>5, <2>3
    <3>2. OnlyEnds(ss[m])
      BY <3>1 DEF StackShape, ListsLast, OnlyEnds
    <3>3. Items(ss[m]) = ss[m]
      BY <1>2, <3>2, OnlyEndsItems
    <3>4. ASSUME NEW it \in top, NEW q \in it[2]+1..Len(Rhs(it))
          PROVE  Rhs(it)[q] \in LastPart
      <4> DEFINE from == <<it[1], it[2] - 1>>
      <4>1. from \in ss[m] /\ it[2] \in Nat /\ Len(Rhs(it)) \in Nat
        <5>1. it[1] \in 1..Len(Rules) /\ it[2] \in Nat
          BY <1>3 DEF ItemSet
        <5>2. Len(Rhs(it)) \in Nat
          BY <5>1, RulesShape DEF Orderly, Rhs
        <5>3. from \in Items(ss[m])
          BY <1>2, GotoFacts DEF top
        <5> QED
          BY <3>3, <5>1, <5>2, <5>3
      <4>2. from[2] = it[2] - 1 /\ Rhs(from) = Rhs(it)
        BY DEF Rhs
      <4> HIDE DEF from
      <4>3. q \in from[2]+1..Len(Rhs(from))
        BY <4>1, <4>2
      <4> QED
        BY <3>2, <4>1, <4>2, <4>3 DEF OnlyEnds
    <3> QED
      BY <1>5, <2>3, <3>4 DEF OnlyEnds
  <2> QED
    BY <2>1, <2>2, <2>3
<1> QED
  BY <1>5, <1>6, <1>7, <1>8 DEF StackShape, new, top

\* Where an empty BlockItem may be reduced, so may an empty list of them, the
\* rule that comes first.
LEMMA EmptyItemConflict ==
    ASSUME NEW state \in SUBSET ItemSet,
           state = StartState \/ \E X : EnteredBy(state, X),
           NEW i \in Complete(state), Len(Rules[i].rhs) = 0
    PROVE  /\ \E from \in state : AfterDot(from) \cap Nonterminals # {}
           /\ Rules[i].lhs \in Lists \/ \E j \in Complete(state) : j < i
<1>1. PICK it \in Items(state) : it[1] = i /\ AfterDot(it) = {}
  BY DEF Complete
<1>2. it \in ItemSet /\ i \in 1..Len(Rules) /\ it[2] = 0
  BY <1>1, ItemsFacts DEF ItemSet
<1>3. it \notin state
  <2>2. i # 1
    BY NumberedRules
  <2>3. it \notin StartState
    BY <1>1, <2>2 DEF StartState
  <2> QED
    BY <1>2, <2>3 DEF EnteredBy
<1>4. \E from \in state : AfterDot(from) \cap Nonterminals # {}
  BY <1>3, ItemsFacts
<1>5. ASSUME Rules[i].lhs \notin Lists PROVE \E j \in Complete(state) : j < i
  <2>1. Rules[i].lhs = "BlockItem"
    BY <1>2, <1>5, RulesShape DEF Orderly
  <2>2. PICK from \in Items(state) : "BlockItem" \in AfterDot(from)
    BY <1>1, <1>3, <2>1, ItemsFacts
  <2>3. /\ from \in ItemSet /\ from[2] + 1 \in 1..Len(Rhs(from))
        /\ Rhs(from)[from[2] + 1] = "BlockItem"
    <3>1. from \in ItemSet /\ from[2] < Len(Rhs(from)) /\ Rhs(from)[from[2] + 1] = "BlockItem"
      BY <2>2, ItemsFacts DEF AfterDot, Rhs
    <3> QED
      BY <3>1, RulesShape DEF ItemSet, Orderly, Rhs
  <2>4. from[2] = 0 /\ Rules[from[1]].lhs = "BlockItems" /\ from[1] \in 1..Len(Rules)
    BY <2>3, RulesShape DEF ItemSet, Orderly, Rhs
  <2>5. from \notin state
    <3>1. Rules[1].lhs # "BlockItems"
      BY NumberedRules
    <3> QED
      BY <2>4, <3>1 DEF EnteredBy, StartState
  <2>6. PICK p \in Predicted : /\ \E k \in state : p[1] \in AfterDot(k)
                               /\ from = <<p[2], 0>>
    BY <2>2, <2>5 DEF Items
  <2>7. PICK q \in LeftCorners \X Useful : /\ q[1][2] = Rules[q[2]].lhs
                                           /\ p = <<q[1][1], q[2]>>
    BY DEF Predicted
  <2>8. /\ q[2] \in Useful /\ Rules[q[2]].lhs = "BlockItems" /\ q[2] \in 2..Len(Rules)
        /\ q[1] \in LeftCorners /\ q[1][2] = "BlockItems" /\ p[1] = q[1][1]
    <3>1. q[2] \in Useful /\ q[2] = from[1]
      BY <2>6, <2>7
    <3>2. q[2] \in 1..Len(Rules) /\ q[2] # 1
      BY <2>4, <3>1, NumberedRules
    <3> QED
      BY <2>4, <2>7, <3>1, <3>2
  <2>9. 6 \in Useful
    <3>1. "BlockItems" \in Productive
      BY <2>8, NonterminalFacts DEF Useful
    <3>2. Range(Rules[6].rhs) = {}
      BY NumberedRules DEF Range
    <3> QED
      BY <3>1, <3>2, NumberedRules, RulesShape DEF Useful
  <2>10. <<p[1], 6>> \in Predicted
    <3> DEFINE r == <<q[1], 6>>
    <3>1. r \in LeftCorners \X Useful /\ r[1][2] = Rules[r[2]].lhs
      BY <2>8, <2>9, NumberedRules
    <3>2. <<r[1][1], r[2]>> \in Predicted
      BY <3>1 DEF Predicted
    <3> QED
      BY <2>8, <3>2
  <2>11. <<6, 0>> \in Items(state)
    BY <2>6, <2>10 DEF Items
  <2>12. AfterDot(<<6, 0>>) = {}
    BY NumberedRules DEF AfterDot
  <2>13. 6 \in Complete(state)
    <3> DEFINE end == <<6, 0>>
    <3>1. end \in Items(state) /\ AfterDot(end) = {} /\ end[1] = 6
      BY <2>11, <2>12
    <3> HIDE DEF end
    <3>2. end[1] \in Complete(state)
      BY <3>1 DEF Complete
    <3> QED
      BY <3>1, <3>2
  <2>14. 6 < i
    BY <1>2, <2>1, NumberedRules
  <2> QED
    BY <2>13, <2>14
<1> QED
  BY <1>4, <1>5

-----------------------------------------------------------------------------
\* A Push moves the parser between stacks of the right shape.
LEMMA PushStacks ==
    ASSUME ParserInv, pc = "parse", NEW X, X # "$end", NEW m \in 1..Len(states), NEW v,
           Goto(states[m], X) # {}, Push(X, SubSeq(states, 1, m), v)
    PROVE  /\ StackShape(states') /\ Len(states') = m + 1 /\ Len(values') = m
           /\ \A k \in 1..m : states'[k] = states[k]
           /\ states'[m+1] = Goto(states[m], X)
           /\ \A k \in DOMAIN states' : states'[k] # {}
           /\ values' \in Seq({values'[k] : k \in 1..Len(values')})
           /\ pc' \in {"parse", "exhausted"}
           /\ pc' = "exhausted" => Len(states') = MaxDepth
<1> DEFINE below == SubSeq(states, 1, m)
           S == {values[k] : k \in 1..Len(values)}
<1>1. /\ states \in Seq(SUBSET ItemSet) /\ Len(states) \in Nat
      /\ values \in Seq(S) /\ Len(values) \in Nat /\ Len(states) = Len(values) + 1
  BY DEF ParserInv, ParserTypeOK, StackShape, Linked
<1>2. Len(below) = m /\ Last(below) = states[m]
  <2>1. Len(below) = m /\ below[m] = states[m]
    BY <1>1
  <2> QED
    BY <2>1 DEF Last
<1>3. states' = Append(below, Goto(states[m], X))
  BY <1>2 DEF Push
<1>4. /\ StackShape(states') /\ Len(states') = m + 1
      /\ \A k \in 1..m : states'[k] = states[k]
  BY <1>3, PushShape DEF ParserInv
<1>5. states'[m+1] = Goto(states[m], X)
  <2>1. below \in Seq(SUBSET ItemSet)
    BY <1>1
  <2>2. Goto(states[m], X) \in SUBSET ItemSet
    <3>1. states[m] \in SUBSET ItemSet
      BY <1>1
    <3> QED
      BY <3>1, GotoFacts
  <2> HIDE DEF below
  <2> QED
    BY <1>2, <1>3, <2>1, <2>2
<1>6. \A k \in DOMAIN states' : states'[k] # {}
  <2>1. DOMAIN states' = 1..m+1
    BY <1>4 DEF StackShape, Linked
  <2>2. ASSUME NEW k \in 1..m PROVE states'[k] # {}
    <3>1. k \in DOMAIN states
      BY <1>1
    <3> QED
      BY <1>4, <3>1 DEF ParserInv, ParserTypeOK
  <2> QED
    BY <1>5, <2>1, <2>2
<1>7. Len(values') = m /\ values' \in Seq({values'[k] : k \in 1..Len(values')})
  <2> DEFINE kept == SubSeq(values, 1, m - 1)
             w == Len(nodes) + 1
  <2>1. m - 1 \in 0..Len(values)
    BY <1>1
  <2>2. kept \in Seq(S) /\ Len(kept) = m - 1
    <3>1. \A k \in 1..m-1 : k \in 1..Len(values)
      BY <1>1
    <3> QED
      BY <1>1, <2>1, <3>1
  <2>3. values' = Append(kept, w)
    BY <1>2 DEF Push
  <2> HIDE DEF kept, S, w
  <2>4. kept \in Seq(S \cup {w}) /\ w \in S \cup {w}
    BY <2>2, SeqMonotonic
  <2>5. values' \in Seq(S \cup {w}) /\ Len(values') = (m - 1) + 1
    BY <2>2, <2>3, <2>4
  <2> QED
    BY <2>5, IsASeq
<1>8. pc' \in {"parse", "exhausted"} /\ (pc' = "exhausted" => Len(states') = MaxDepth)
  BY <1>2, <1>4 DEF Push
<1> QED
  BY <1>4, <1>5, <1>6, <1>7, <1>8

\* The stacks begin with the start state alone.
LEMMA ParserInitial == Init => ParserInv
<1> SUFFICES ASSUME Init PROVE ParserInv
  OBVIOUS
<1>1. StartState \in SUBSET ItemSet
  BY RulesShape, NumberedRules DEF StartState, ItemSet
<1>2. ParserTypeOK
  <2>1. \A k \in DOMAIN <<StartState>> : <<StartState>>[k] # {}
    <3>1. StartState # {}
      BY DEF StartState
    <3> QED
      BY <3>1
  <2>2. <<>> \in Seq(Classes) /\ Len(<<>>) = 0 /\ Len(<<StartState>>) = 1
    OBVIOUS
  <2> QED
    BY <2>1, <2>2, BoundsAssumption DEF Init, ParserTypeOK
<1>3. Linked(states)
  BY <1>1 DEF Init, Linked
<1>4. Rooted(states)
  <2>1. \A it \in StartState : it[2] = 0 /\ it[1] = 1
    BY DEF StartState
  <2>2. <<1, 0>> \in Items(StartState)
    BY <1>1, ItemsFacts DEF StartState
  <2>3. Len(states) = 1 /\ states[1] = StartState
    BY DEF Init
  <2> SUFFICES ASSUME NEW k \in 1..Len(states), NEW it \in states[k]
               PROVE  it[2] < k /\ \A p \in 0..it[2] : <<it[1], p>> \in Items(states[k - it[2] + p])
    BY DEF Rooted
  <2>4. k = 1 /\ it[1] = 1 /\ it[2] = 0
    BY <2>1, <2>3
  <2>5. ASSUME NEW p \in 0..0 PROVE <<1, p>> \in Items(states[1 - 0 + p])
    <3>1. p = 0
      OBVIOUS
    <3> QED
      BY <2>2, <2>3, <3>1
  <2> QED
    BY <2>4, <2>5
<1>5. ListsLast(states)
  <2>1. ~EndsList(StartState)
    BY DEF EndsList, StartState
  <2> QED
    BY <2>1 DEF Init, ListsLast
<1>6. /\ values \in Seq({values[k] : k \in 1..Len(values)})
      /\ Len(values) = 0 /\ Len(read) = 0 /\ Ahead = 0 /\ pc # "exhausted"
  BY DEF Init, Ahead
<1> QED
  BY <1>2, <1>3, <1>4, <1>5, <1>6 DEF ParserInv, StackShape

\* Reading a token takes no place on the stacks yet; the end of the file none.
LEMMA LexKeeps == ParserInv /\ Lex => ParserInv'
<1> SUFFICES ASSUME ParserInv, Lex PROVE ParserInv'
  OBVIOUS
<1>1. /\ UNCHANGED <<states, values, pc>> /\ lookahead = <<>> /\ pc = "parse"
      /\ read \in Seq(Classes) /\ Len(read) \in Nat
      /\ ListOnStack' = ListOnStack
  BY DEF Lex, ParserInv, ParserTypeOK, ListOnStack
<1>2. CASE \E c \in Classes : /\ Len(read) < MaxTokens
                              /\ read' = Append(read, c)
                              /\ lookahead' = <<c>>
  <2>1. PICK c \in Classes : /\ Len(read) < MaxTokens
                             /\ read' = Append(read, c)
                             /\ lookahead' = <<c>>
    BY <1>2
  <2>2. read' \in Seq(Classes) /\ Len(read') = Len(read) + 1 /\ Len(read') <= MaxTokens
    BY <1>1, <2>1, BoundsAssumption
  <2>3. Ahead = 0 /\ Ahead' \in {0, 1}
    BY <1>1 DEF Ahead
  <2> QED
    BY <1>1, <2>1, <2>2, <2>3 DEF ParserInv, ParserTypeOK
<1>3. CASE lookahead' = <<"$end">> /\ UNCHANGED read
  <2>1. Ahead = 0 /\ Ahead' = 0
    BY <1>1, <1>3 DEF Ahead
  <2> QED
    BY <1>1, <1>3, <2>1 DEF ParserInv, ParserTypeOK
<1> QED
  BY <1>2, <1>3 DEF Lex

\* A shift: the token that was counted ahead is on the stacks.
LEMMA ShiftKeeps == ParserInv /\ Shift => ParserInv'
<1> SUFFICES ASSUME ParserInv, Shift PROVE ParserInv'
  OBVIOUS
<1> DEFINE X == lookahead[1]
           m == Len(states)
           v == Token(X)
<1>1. /\ states \in Seq(SUBSET ItemSet) /\ m \in Nat /\ m >= 1 /\ m = Len(values) + 1
      /\ values \in Seq({values[k] : k \in 1..Len(values)}) /\ Len(values) \in Nat
      /\ Len(read) \in Nat
  BY DEF ParserInv, ParserTypeOK, StackShape, Linked
<1>2. /\ X # "$end" /\ X \in UNION {AfterDot(item) : item \in Items(Last(states))}
      /\ pc = "parse" /\ lookahead # <<>> /\ lookahead' = <<>> /\ read' = read
      /\ Push(X, states, v)
  BY DEF Shift, Deciding, Shiftable
<1>3. Last(states) = states[m] /\ states[m] \in SUBSET ItemSet
  BY <1>1 DEF Last
<1>4. SubSeq(states, 1, m) = states
  BY <1>1, SubSeqFull
<1>5. Goto(states[m], X) # {}
  <2>1. PICK it \in Items(states[m]) : X \in AfterDot(it)
    BY <1>2, <1>3
  <2> QED
    BY <1>3, <2>1, GotoFacts
<1>6. Push(X, SubSeq(states, 1, m), v)
  BY <1>2, <1>4
<1>7. m \in 1..Len(states)
  BY <1>1
<1> HIDE DEF v
<1>8. /\ StackShape(states') /\ Len(states') = m + 1 /\ Len(values') = m
      /\ \A k \in 1..m : states'[k] = states[k]
      /\ \A k \in DOMAIN states' : states'[k] # {}
      /\ values' \in Seq({values'[k] : k \in 1..Len(values')})
      /\ pc' \in {"parse", "exhausted"}
      /\ pc' = "exhausted" => Len(states') = MaxDepth
  BY <1>2, <1>5, <1>6, <1>7, PushStacks
<1>9. ListOnStack => ListOnStack'
  <2> SUFFICES ASSUME NEW k \in 1..Len(states), EndsList(states[k])
               PROVE  \E j \in 1..Len(states') : EndsList(states'[j])
    BY DEF ListOnStack
  <2>1. k \in 1..Len(states') /\ states'[k] = states[k]
    BY <1>1, <1>8
  <2> QED
    BY <2>1
<1>10. Ahead = 1 /\ Ahead' = 0
  BY <1>2 DEF Ahead
<1>11. Len(values') + Ahead' <= Len(read') + (IF ListOnStack' THEN 1 ELSE 0)
  BY <1>1, <1>2, <1>8, <1>9, <1>10 DEF ParserInv
<1> QED
  BY <1>1, <1>2, <1>8, <1>11 DEF ParserInv, ParserTypeOK

\* A rule that is complete was begun as many states below the top as its
\* right-hand side is long, where its left-hand side was asked for.
LEMMA ReductionRoot ==
    ASSUME NEW ss, StackShape(ss), NEW i \in Complete(ss[Len(ss)])
    PROVE  /\ i \in 1..Len(Rules) /\ Len(Rules[i].rhs) \in Nat
           /\ Len(Rules[i].rhs) < Len(ss)
           /\ \A p \in 0..Len(Rules[i].rhs) :
                 <<i, p>> \in Items(ss[Len(ss) - Len(Rules[i].rhs) + p])
           /\ \E from \in Items(ss[Len(ss) - Len(Rules[i].rhs)]) :
                 Rules[i].lhs \in AfterDot(from)
<1> DEFINE K == Len(ss)
           n == Len(Rules[i].rhs)
<1>1. ss \in Seq(SUBSET ItemSet) /\ K \in Nat /\ K >= 1 /\ ss[1] = StartState
      /\ \A k \in 2..K : \E X : X # "$end" /\ EnteredBy(ss[k], X)
  BY DEF StackShape, Linked
<1>2. \A k \in 1..K : ss[k] \in SUBSET ItemSet
  BY <1>1
<1>3. PICK it \in Items(ss[K]) : it[1] = i /\ AfterDot(it) = {}
  BY DEF Complete
<1>4. it \in ItemSet /\ i \in 1..Len(Rules) /\ n \in Nat /\ it[2] = n /\ it = <<i, n>>
  <2>1. it \in ItemSet
    BY <1>1, <1>2, <1>3, ItemsFacts
  <2>2. i \in 1..Len(Rules) /\ it[2] \in Nat /\ it[2] <= n /\ it = <<i, it[2]>>
    BY <1>3, <2>1 DEF ItemSet
  <2>3. n \in Nat
    BY <2>2, RulesShape DEF Orderly
  <2>4. ~(it[2] < n)
    BY <1>3 DEF AfterDot
  <2> QED
    BY <2>1, <2>2, <2>3, <2>4
<1> HIDE DEF n, K
<1>5. n < K /\ \A p \in 0..n : <<i, p>> \in Items(ss[K - n + p])
  <2>1. CASE it \in ss[K]
    <3>1. it[2] < K /\ \A p \in 0..it[2] : <<it[1], p>> \in Items(ss[K - it[2] + p])
      BY <1>1, <2>1 DEF StackShape, Rooted, K
    <3> QED
      BY <1>3, <1>4, <3>1
  <2>2. CASE it \notin ss[K]
    <3>1. n = 0
      BY <1>1, <1>2, <1>3, <1>4, <2>2, ItemsFacts
    <3> QED
      BY <1>1, <1>3, <1>4, <3>1
  <2> QED
    BY <2>1, <2>2
<1>6. i # 1
  <2> SUFFICES ASSUME i = 1 PROVE FALSE
    OBVIOUS
  <2>1. n = 2 /\ Rhs(it)[2] = "$end"
    BY <1>3, NumberedRules DEF n, Rhs
  <2>2. it \in ss[K]
    BY <1>1, <1>2, <1>3, <1>4, <2>1, ItemsFacts
  <2>3. PICK X : X # "$end" /\ EnteredBy(ss[K], X)
    BY <1>1, <1>5, <2>1
  <2> QED
    BY <1>4, <2>1, <2>2, <2>3 DEF EnteredBy
<1>7. \E from \in Items(ss[K - n]) : Rules[i].lhs \in AfterDot(from)
  <2>1. K - n \in 1..K /\ <<i, 0>> \in Items(ss[K - n])
    <3>1. 0 \in 0..n /\ K - n + 0 = K - n
      BY <1>1, <1>4
    <3>2. <<i, 0>> \in Items(ss[K - n + 0])
      BY <1>5, <3>1
    <3> QED
      BY <1>1, <1>4, <1>5, <3>1, <3>2
  <2>2. <<i, 0>> \notin ss[K - n]
    <3>1. CASE K - n = 1
      BY <1>1, <1>6, <3>1 DEF StartState
    <3>2. CASE K - n # 1
      BY <1>1, <2>1, <3>2 DEF EnteredBy
    <3> QED
      BY <3>1, <3>2
  <2> DEFINE base == ss[K - n]
  <2>3. base \in SUBSET ItemSet /\ <<i, 0>> \in Items(base) \ base
    BY <1>2, <2>1, <2>2
  <2> HIDE DEF base
  <2>4. \E from \in Items(base) : Rules[<<i, 0>>[1]].lhs \in AfterDot(from)
    BY <2>3, ItemsFacts
  <2> QED
    BY <2>4 DEF base
<1> QED
  BY <1>4, <1>5, <1>7 DEF n, K

\* Only the empty list, where no list is on the stack, makes a stack longer, and
\* a rule with a list in it makes it shorter.
LEMMA ReductionCount ==
    ASSUME NEW ss, StackShape(ss), NEW i \in Chosen(Complete(ss[Len(ss)]))
    PROVE  /\ Len(Rules[i].rhs) = 0 =>
                 /\ Rules[i].lhs \in Lists
                 /\ \A k \in 1..Len(ss) : ~EndsList(ss[k])
           /\ (\E k \in Len(ss)-Len(Rules[i].rhs)+1..Len(ss) : EndsList(ss[k]))
                 => Len(Rules[i].rhs) >= 2
<1> DEFINE K == Len(ss)
           n == Len(Rules[i].rhs)
<1>1. ss \in Seq(SUBSET ItemSet) /\ K \in Nat /\ K >= 1 /\ ss[1] = StartState
      /\ \A k \in 2..K : \E X : X # "$end" /\ EnteredBy(ss[k], X)
  BY DEF StackShape, Linked
<1>2. \A k \in 1..K : ss[k] \in SUBSET ItemSet
  BY <1>1
<1>3. i \in Complete(ss[K]) /\ \A j \in Complete(ss[K]) : i <= j
  BY DEF Chosen
<1>4. /\ i \in 1..Len(Rules) /\ n \in Nat /\ n < K
      /\ \A p \in 0..n : <<i, p>> \in Items(ss[K - n + p])
  BY <1>3, ReductionRoot
<1>5. ASSUME n = 0
      PROVE  Rules[i].lhs \in Lists /\ \A k \in 1..K : ~EndsList(ss[k])
  <2> DEFINE top == ss[K]
  <2>1. top \in SUBSET ItemSet /\ i \in Complete(top)
        /\ (top = StartState \/ \E X : EnteredBy(top, X))
    BY <1>1, <1>2, <1>3
  <2>2. /\ \E from \in top : AfterDot(from) \cap Nonterminals # {}
        /\ Rules[i].lhs \in Lists \/ \E j \in Complete(top) : j < i
    <3> HIDE DEF top
    <3> QED
      BY <1>5, <2>1, EmptyItemConflict
  <2>3. Rules[i].lhs \in Lists
    <3>1. ASSUME NEW j \in Complete(top), j < i PROVE FALSE
      <4>1. j \in 1..Len(Rules)
        BY ReductionRoot
      <4> QED
        BY <1>3, <1>4, <3>1, <4>1, RulesShape
    <3> QED
      BY <2>2, <3>1
  <2>4. ASSUME NEW k \in 1..K, EndsList(ss[k]) PROVE FALSE
    <3>1. OnlyEnds(top)
      <4>1. K \in k..Len(ss)
        BY <1>1
      <4> QED
        BY <2>4, <4>1 DEF StackShape, ListsLast, OnlyEnds
    <3> HIDE DEF top
    <3> QED
      BY <2>1, <2>2, <3>1, OnlyEndsNext
  <2> QED
    BY <2>3, <2>4
<1>6. ASSUME NEW k \in K-n+1..K, EndsList(ss[k]) PROVE n >= 2
  <2> DEFINE p == k - K + n
  <2> HIDE DEF n, K
  <2>1. p \in 1..n /\ p \in 0..n /\ K - n + p = k /\ k \in 2..K /\ k \in 1..K /\ p # 0
    BY <1>1, <1>4
  <2> HIDE DEF p
  <2>2. <<i, p>> \in Items(ss[k])
    BY <1>4, <2>1
  <2>3. <<i, p>> \in ss[k]
    <3> DEFINE it == <<i, p>>
    <3>1. it \in Items(ss[k]) /\ it # <<it[1], 0>>
      BY <2>1, <2>2
    <3>2. ss[k] \in SUBSET ItemSet
      BY <1>2, <2>1
    <3> HIDE DEF it
    <3>3. it \in ss[k]
      BY <3>1, <3>2, ItemsFacts
    <3> QED
      BY <3>3 DEF it
  <2>4. PICK X : EnteredBy(ss[k], X)
    BY <1>1, <2>1
  <2>5. Rules[i].rhs[p] \in Lists
    BY <1>6, <2>3, <2>4 DEF EnteredBy, EndsList, Rhs
  <2> QED
    BY <1>4, <2>1, <2>5, RulesShape DEF Orderly, n
<1> QED
  BY <1>5, <1>6

\* A reduction leaves the room for one value, and takes more only for a list.
LEMMA ReduceKeeps == ParserInv /\ Reduce => ParserInv'
<1> SUFFICES ASSUME ParserInv, Reduce PROVE ParserInv'
  OBVIOUS
<1>1. PICK i \in Chosen(Complete(Last(states))) : ReduceBy(i)
  BY DEF Reduce
<1> DEFINE K == Len(states)
           X == Rules[i].lhs
           n == Len(Rules[i].rhs)
           m == K - n
           v == Build(Rules[i], SubSeq(values, m, Len(values)))
           Grown == IF ListOnStack THEN 1 ELSE 0
<1>2. /\ StackShape(states) /\ states \in Seq(SUBSET ItemSet) /\ K \in Nat /\ K >= 1
      /\ K = Len(values) + 1 /\ Len(values) \in Nat /\ Len(read) \in Nat
      /\ Len(values) + Ahead <= Len(read) + Grown
  BY DEF ParserInv, ParserTypeOK, StackShape, Linked
<1>3. /\ pc = "parse" /\ read' = read /\ lookahead' = lookahead
      /\ Ahead' = Ahead /\ Ahead \in {0, 1}
  BY DEF Reduce, Deciding, Ahead
<1>4. Last(states) = states[K] /\ i \in Chosen(Complete(states[K])) /\ i \in Complete(states[K])
  BY <1>1, <1>2 DEF Last, Chosen
<1>5. /\ i \in 1..Len(Rules) /\ n \in Nat /\ n < K
      /\ \E from \in Items(states[m]) : X \in AfterDot(from)
  BY <1>2, <1>4, ReductionRoot
<1>6. /\ n = 0 => X \in Lists /\ \A k \in 1..K : ~EndsList(states[k])
      /\ (\E k \in m+1..K : EndsList(states[k])) => n >= 2
  BY <1>2, <1>4, ReductionCount
<1>7. X # "$end"
  BY <1>5, RulesShape DEF Orderly
<1>8. Push(X, SubSeq(states, 1, m), v)
  <2>1. (Len(values) - n) + 1 = m
    BY <1>2, <1>5
  <2> QED
    BY <1>1, <2>1 DEF ReduceBy
<1> HIDE DEF n, K, v, X
<1>9. m \in 1..K /\ m \in Nat /\ m = Len(values) + 1 - n
  BY <1>2, <1>5
<1> HIDE DEF m
<1>10. states[m] \in SUBSET ItemSet
  BY <1>2, <1>9 DEF K
<1>11. Goto(states[m], X) # {}
  BY <1>5, <1>10, GotoFacts
<1>12. /\ StackShape(states') /\ Len(states') = m + 1 /\ Len(values') = m
       /\ \A k \in 1..m : states'[k] = states[k]
       /\ states'[m+1] = Goto(states[m], X)
       /\ \A k \in DOMAIN states' : states'[k] # {}
       /\ values' \in Seq({values'[k] : k \in 1..Len(values')})
       /\ pc' \in {"parse", "exhausted"}
       /\ pc' = "exhausted" => Len(states') = MaxDepth
  BY <1>3, <1>7, <1>8, <1>9, <1>11, PushStacks DEF K
<1>13. Len(values') + Ahead' <= Len(read') + (IF ListOnStack' THEN 1 ELSE 0)
  <2>1. ListOnStack <=> \E k \in 1..K : EndsList(states[k])
    BY DEF ListOnStack, K
  <2>2. CASE n = 0
    <3>1. ~ListOnStack
      BY <1>6, <2>1, <2>2
    <3>2. ListOnStack'
      <4>1. PICK it \in Goto(states[m], X) : TRUE
        BY <1>11
      <4>2. it[2] >= 1 /\ Rhs(it)[it[2]] = X
        BY <1>10, GotoFacts
      <4>3. EndsList(states'[m+1])
        BY <1>6, <1>12, <2>2, <4>1, <4>2 DEF EndsList
      <4>4. m + 1 \in 1..Len(states')
        BY <1>9, <1>12
      <4> QED
        BY <4>3, <4>4 DEF ListOnStack
    <3> QED
      BY <1>2, <1>3, <1>9, <1>12, <2>2, <3>1, <3>2
  <2>3. CASE n # 0 /\ (ListOnStack => ListOnStack')
    <3>1. n >= 1 /\ Len(values') <= Len(values)
      BY <1>2, <1>5, <1>9, <1>12, <2>3
    <3>2. Grown \in {0, 1} /\ (IF ListOnStack' THEN 1 ELSE 0) \in {0, 1}
          /\ Grown <= (IF ListOnStack' THEN 1 ELSE 0)
      BY <2>3
    <3> HIDE DEF Grown
    <3>3. Len(values') \in Nat
      BY <1>9, <1>12
    <3> QED
      BY <1>2, <1>3, <3>1, <3>2, <3>3
  <2>4. CASE n # 0 /\ ListOnStack /\ ~ListOnStack'
    <3>1. PICK k \in 1..K : EndsList(states[k])
      BY <2>1, <2>4
    <3>2. ~(k \in 1..m)
      <4> SUFFICES ASSUME k \in 1..m PROVE FALSE
        OBVIOUS
      <4>1. k \in 1..Len(states') /\ states'[k] = states[k]
        BY <1>9, <1>12
      <4>2. ListOnStack'
        BY <3>1, <4>1 DEF ListOnStack
      <4> QED
        BY <2>4, <4>2
    <3>3. k \in m+1..K
      BY <1>2, <1>9, <3>2
    <3>4. n >= 2
      BY <1>6, <3>1, <3>3
    <3> QED
      BY <1>2, <1>3, <1>5, <1>9, <1>12, <2>4, <3>4
  <2> QED
    BY <2>2, <2>3, <2>4
<1>14. ParserTypeOK'
  BY <1>2, <1>3, <1>9, <1>12 DEF ParserInv, ParserTypeOK
<1> QED
  BY <1>12, <1>13, <1>14 DEF ParserInv

\* Every step keeps the invariant.
LEMMA ParserNext == ParserInv /\ [Next \/ Returned]_vars => ParserInv'
<1> SUFFICES ASSUME ParserInv, [Next \/ Returned]_vars PROVE ParserInv'
  OBVIOUS
<1>1. CASE Lex
  BY <1>1, LexKeeps
<1>2. CASE Shift
  BY <1>2, ShiftKeeps
<1>3. CASE Reduce
  BY <1>3, ReduceKeeps
<1>4. CASE Error
  BY <1>4 DEF Error, ParserInv, ParserTypeOK, Ahead, ListOnStack
<1>5. CASE Accept
  BY <1>5 DEF Accept, ParserInv, ParserTypeOK, Ahead, ListOnStack
<1>6. CASE UNCHANGED vars
  BY <1>6 DEF vars, ParserInv, ParserTypeOK, Ahead, ListOnStack
<1> QED
  BY <1>1, <1>2, <1>3, <1>4, <1>5, <1>6 DEF Next, Returned

\* The inductive invariant holds in every reachable state: the stack of states
\* is a path of the automaton, its items are rooted where their rules began,
\* and a value that is not paid for by a token is the empty list.
THEOREM ParserInvariant == Spec => []ParserInv
BY ParserInitial, ParserNext, PTL DEF Spec

\* The stacks go together and no goto is ever undefined: every reduction that
\* yyparse makes finds its right-hand side on the stack, and below it a state
\* that expects its left-hand side.
THEOREM ParserTypeCorrect == Spec => []ParserTypeOK
<1>1. ParserInv => ParserTypeOK
  BY DEF ParserInv
<1> QED
  BY <1>1, ParserInvariant, PTL

\* The stacks never hold more than one entry that no token stands for, so that
\* only a program of MaxDepth - 2 tokens or more can exhaust them.
THEOREM ParserStackFits == Spec => []StackFits
<1>1. ParserInv => StackFits
  <2> SUFFICES ASSUME ParserInv PROVE StackFits
    OBVIOUS
  <2>1. /\ Len(values) \in Nat /\ Len(read) \in Nat /\ Ahead \in {0, 1}
        /\ Len(states) = Len(values) + 1
        /\ Len(values) + Ahead <= Len(read) + 1
    BY DEF ParserInv, ParserTypeOK, Ahead
  <2> QED
    BY <2>1, BoundsAssumption DEF ParserInv, StackFits
<1> QED
  BY <1>1, ParserInvariant, PTL

-----------------------------------------------------------------------------
(***************************************************************************)
(* The rules, one by one.                                                  *)
(***************************************************************************)
\* The n rules of part are those of whole behind the first m.
PartAt(whole, part, m, n) == \A i \in 1..n : whole[m + i] = part[i]

\* A part of a part.
LEMMA PartOfPart ==
    ASSUME NEW a, NEW b, NEW c, NEW m \in Nat, NEW n \in Nat, NEW k \in Nat, NEW l \in Nat,
           PartAt(a, b, m, n), PartAt(b, c, k, l), k + l <= n
    PROVE  PartAt(a, c, m + k, l)
<1> SUFFICES ASSUME NEW i \in 1..l PROVE a[(m + k) + i] = c[i]
  BY DEF PartAt
<1>1. k + i \in 1..n /\ (m + k) + i = m + (k + i)
  OBVIOUS
<1> QED
  BY <1>1 DEF PartAt

\* c is a and then b.
Joined(a, b, c) ==
    /\ OrderlyRules(c) /\ Len(c) = Len(a) + Len(b)
    /\ PartAt(c, a, 0, Len(a))
    /\ PartAt(c, b, Len(a), Len(b))

\* Two sequences of orderly rules, one behind the other.
LEMMA PartsJoin ==
    ASSUME NEW a, NEW b, OrderlyRules(a), OrderlyRules(b)
    PROVE  Joined(a, b, a \o b)
<1> DEFINE c == a \o b
<1>1. /\ OrderlyRules(c)
      /\ Len(c) = Len(a) + Len(b)
      /\ \A i \in 1..Len(a) : c[i] = a[i]
      /\ \A i \in 1..Len(b) : c[Len(a) + i] = b[i]
  BY OrderlyConcat
<1> HIDE DEF c
<1>2. Len(a) \in Nat /\ \A i \in 1..Len(a) : 0 + i = i
  BY DEF OrderlyRules
<1>3. PartAt(c, a, 0, Len(a)) /\ PartAt(c, b, Len(a), Len(b))
  BY <1>1, <1>2 DEF PartAt
<1>4. Joined(a, b, c)
  BY <1>1, <1>3 DEF Joined
<1> QED
  BY <1>4 DEF c

\* How many rules each part has.
LEMMA PartLengths ==
    /\ Len(ProgramRules) = 4 /\ OrderlyRules(ProgramRules)
    /\ Len(ItemRules) = 5 /\ OrderlyRules(ItemRules)
    /\ Len(ConstRules) = 9 /\ OrderlyRules(ConstRules)
    /\ Len(VarRules) = 5 /\ OrderlyRules(VarRules)
    /\ Len(StmtRules) = 3 /\ OrderlyRules(StmtRules)
    /\ Len(OperandRules) = 8 /\ OrderlyRules(OperandRules)
    /\ Len(ArithmeticRules) = 5 /\ OrderlyRules(ArithmeticRules)
    /\ Len(RelationRules) = 5 /\ OrderlyRules(RelationRules)
    /\ Len(LogicRules) = 4 /\ OrderlyRules(LogicRules)
BY ProgramRulesOrderly, ItemRulesOrderly, ConstRulesOrderly, VarRulesOrderly, StmtRulesOrderly,
   OperandRulesOrderly, ArithmeticRulesOrderly, RelationRulesOrderly, LogicRulesOrderly
   DEF ProgramRules, ItemRules, ConstRules, VarRules, StmtRules, OperandRules,
       ArithmeticRules, RelationRules, LogicRules

\* The rules of sysy.y by their numbers, which Bison gives them in their order.
LEMMA RuleNumbers ==
    /\ Len(Rules) = 49
    /\ PartAt(Rules, ProgramRules, 1, 4)
    /\ PartAt(Rules, ItemRules, 5, 5)
    /\ PartAt(Rules, ConstRules, 10, 9)
    /\ PartAt(Rules, VarRules, 19, 5)
    /\ PartAt(Rules, StmtRules, 24, 3)
    /\ PartAt(Rules, OperandRules, 27, 8)
    /\ PartAt(Rules, ArithmeticRules, 35, 5)
    /\ PartAt(Rules, RelationRules, 40, 5)
    /\ PartAt(Rules, LogicRules, 45, 4)
<1> DEFINE first == <<Rule("$accept", <<"CompUnit", "$end">>, "", "", <<1>>, 0)>>
           w2 == ProgramRules \o ItemRules
           w3 == w2 \o ConstRules
           w4 == w3 \o VarRules
           w5 == w4 \o StmtRules
           w6 == w5 \o OperandRules
           w7 == w6 \o ArithmeticRules
           w8 == w7 \o RelationRules
           w9 == w8 \o LogicRules
<1>1. w9 = WrittenRules /\ Rules = first \o w9
  BY DEF WrittenRules, Rules
<1>2. OrderlyRules(first) /\ Len(first) = 1
  BY PlainRule2, Rules1 DEF Plain, Lists, LastPart
<1> HIDE DEF first
<1>3. /\ OrderlyRules(w2) /\ Len(w2) = 9
      /\ PartAt(w2, ProgramRules, 0, 4) /\ PartAt(w2, ItemRules, 4, 5)
  <2>1. Joined(ProgramRules, ItemRules, w2)
    BY ItemRulesOrderly, ProgramRulesOrderly, PartsJoin
  <2> HIDE DEF w2
  <2> QED
    BY <2>1, PartLengths DEF Joined
<1> HIDE DEF w2
<1>4. /\ OrderlyRules(w3) /\ Len(w3) = 18
      /\ PartAt(w3, w2, 0, 9) /\ PartAt(w3, ConstRules, 9, 9)
  <2>1. Joined(w2, ConstRules, w3)
    BY <1>3, ConstRulesOrderly, PartsJoin
  <2> HIDE DEF w3
  <2> QED
    BY <1>3, <2>1, PartLengths DEF Joined
<1> HIDE DEF w3
<1>5. /\ OrderlyRules(w4) /\ Len(w4) = 23
      /\ PartAt(w4, w3, 0, 18) /\ PartAt(w4, VarRules, 18, 5)
  <2>1. Joined(w3, VarRules, w4)
    BY <1>4, VarRulesOrderly, PartsJoin
  <2> HIDE DEF w4
  <2> QED
    BY <1>4, <2>1, PartLengths DEF Joined
<1> HIDE DEF w4
<1>6. /\ OrderlyRules(w5) /\ Len(w5) = 26
      /\ PartAt(w5, w4, 0, 23) /\ PartAt(w5, StmtRules, 23, 3)
  <2>1. Joined(w4, StmtRules, w5)
    BY <1>5, StmtRulesOrderly, PartsJoin
  <2> HIDE DEF w5
  <2> QED
    BY <1>5, <2>1, PartLengths DEF Joined
<1> HIDE DEF w5
<1>7. /\ OrderlyRules(w6) /\ Len(w6) = 34
      /\ PartAt(w6, w5, 0, 26) /\ PartAt(w6, OperandRules, 26, 8)
  <2>1. Joined(w5, OperandRules, w6)
    BY <1>6, OperandRulesOrderly, PartsJoin
  <2> HIDE DEF w6
  <2> QED
    BY <1>6, <2>1, PartLengths DEF Joined
<1> HIDE DEF w6
<1>8. /\ OrderlyRules(w7) /\ Len(w7) = 39
      /\ PartAt(w7, w6, 0, 34) /\ PartAt(w7, ArithmeticRules, 34, 5)
  <2>1. Joined(w6, ArithmeticRules, w7)
    BY <1>7, ArithmeticRulesOrderly, PartsJoin
  <2> HIDE DEF w7
  <2> QED
    BY <1>7, <2>1, PartLengths DEF Joined
<1> HIDE DEF w7
<1>9. /\ OrderlyRules(w8) /\ Len(w8) = 44
      /\ PartAt(w8, w7, 0, 39) /\ PartAt(w8, RelationRules, 39, 5)
  <2>1. Joined(w7, RelationRules, w8)
    BY <1>8, RelationRulesOrderly, PartsJoin
  <2> HIDE DEF w8
  <2> QED
    BY <1>8, <2>1, PartLengths DEF Joined
<1> HIDE DEF w8
<1>10. /\ OrderlyRules(w9) /\ Len(w9) = 48
       /\ PartAt(w9, w8, 0, 44) /\ PartAt(w9, LogicRules, 44, 4)
  <2>1. Joined(w8, LogicRules, w9)
    BY <1>9, LogicRulesOrderly, PartsJoin
  <2> HIDE DEF w9
  <2> QED
    BY <1>9, <2>1, PartLengths DEF Joined
<1> HIDE DEF w9
<1>11. OrderlyRules(Rules) /\ Len(Rules) = 49 /\ PartAt(Rules, w9, 1, 48)
  <2>1. Joined(first, w9, Rules)
    BY <1>1, <1>2, <1>10, PartsJoin
  <2> QED
    BY <1>2, <1>10, <2>1 DEF Joined
<1>12. PartAt(Rules, LogicRules, 1 + 44, 4)
  BY <1>11, <1>10, PartOfPart
<1>13. PartAt(Rules, w8, 1 + 0, 44)
  BY <1>11, <1>10, PartOfPart
<1>14. PartAt(Rules, RelationRules, 1 + 39, 5)
  BY <1>13, <1>9, PartOfPart
<1>15. PartAt(Rules, w7, 1 + 0, 39)
  BY <1>13, <1>9, PartOfPart
<1>16. PartAt(Rules, ArithmeticRules, 1 + 34, 5)
  BY <1>15, <1>8, PartOfPart
<1>17. PartAt(Rules, w6, 1 + 0, 34)
  BY <1>15, <1>8, PartOfPart
<1>18. PartAt(Rules, OperandRules, 1 + 26, 8)
  BY <1>17, <1>7, PartOfPart
<1>19. PartAt(Rules, w5, 1 + 0, 26)
  BY <1>17, <1>7, PartOfPart
<1>20. PartAt(Rules, StmtRules, 1 + 23, 3)
  BY <1>19, <1>6, PartOfPart
<1>21. PartAt(Rules, w4, 1 + 0, 23)
  BY <1>19, <1>6, PartOfPart
<1>22. PartAt(Rules, VarRules, 1 + 18, 5)
  BY <1>21, <1>5, PartOfPart
<1>23. PartAt(Rules, w3, 1 + 0, 18)
  BY <1>21, <1>5, PartOfPart
<1>24. PartAt(Rules, ConstRules, 1 + 9, 9)
  BY <1>23, <1>4, PartOfPart
<1>25. PartAt(Rules, w2, 1 + 0, 9)
  BY <1>23, <1>4, PartOfPart
<1>26. PartAt(Rules, ItemRules, 1 + 4, 5)
  BY <1>25, <1>3, PartOfPart
<1>27. PartAt(Rules, ProgramRules, 1 + 0, 4)
  BY <1>25, <1>3, PartOfPart
<1> QED
  BY <1>11, <1>26, <1>24, <1>22, <1>20, <1>18, <1>16, <1>14, <1>12, <1>27

\* Tokens by names.
OpenBlock == "{"
CloseBlock == "}"
Semicolon == ";"
StrSemicolon == "str;"
StrComma == "str,"

\* What rule i is.
IsRule(i, l, s) == Rules[i].lhs = l /\ Rules[i].rhs = s

\* The rules 2 to 5 of the automaton.
LEMMA ProgramRulesAt ==
    /\ IsRule(2, "CompUnit", <<"FuncDef">>)
    /\ IsRule(3, "FuncDef", <<"FuncType", "IDENT", "(", ")", "Block">>)
    /\ IsRule(4, "FuncType", <<"INT">>)
    /\ IsRule(5, "Block", <<OpenBlock, "BlockItems", CloseBlock>>)
<1>1. PartAt(Rules, ProgramRules, 1, 4)
  BY RuleNumbers
<1>2. /\ Rules[2] = ProgramRules[1]
      /\ Rules[3] = ProgramRules[2]
      /\ Rules[4] = ProgramRules[3]
      /\ Rules[5] = ProgramRules[4]
  BY <1>1 DEF PartAt
<1>3. ProgramRules[1].lhs = "CompUnit" /\ ProgramRules[1].rhs = <<"FuncDef">>
  BY DEF ProgramRules, Rule
<1>4. ProgramRules[2].lhs = "FuncDef" /\ ProgramRules[2].rhs = <<"FuncType", "IDENT", "(", ")", "Block">>
  BY DEF ProgramRules, Rule
<1>5. ProgramRules[3].lhs = "FuncType" /\ ProgramRules[3].rhs = <<"INT">>
  BY DEF ProgramRules, Rule
<1>6. ProgramRules[4].lhs = "Block" /\ ProgramRules[4].rhs = <<OpenBlock, "BlockItems", CloseBlock>>
  BY DEF ProgramRules, Rule, OpenBlock, CloseBlock
<1> QED
  BY <1>2, <1>3, <1>4, <1>5, <1>6 DEF IsRule

\* The rules 6 to 10 of the automaton.
LEMMA ItemRulesAt ==
    /\ IsRule(6, "BlockItems", <<>>)
    /\ IsRule(7, "BlockItems", <<"BlockItem", "BlockItems">>)
    /\ IsRule(8, "BlockItem", <<"Decl">>)
    /\ IsRule(9, "BlockItem", <<"Stmt">>)
    /\ IsRule(10, "BlockItem", <<>>)
<1>1. PartAt(Rules, ItemRules, 5, 5)
  BY RuleNumbers
<1>2. /\ Rules[6] = ItemRules[1]
      /\ Rules[7] = ItemRules[2]
      /\ Rules[8] = ItemRules[3]
      /\ Rules[9] = ItemRules[4]
      /\ Rules[10] = ItemRules[5]
  BY <1>1 DEF PartAt
<1>3. ItemRules[1].lhs = "BlockItems" /\ ItemRules[1].rhs = <<>>
  BY DEF ItemRules, Rule
<1>4. ItemRules[2].lhs = "BlockItems" /\ ItemRules[2].rhs = <<"BlockItem", "BlockItems">>
  BY DEF ItemRules, Rule
<1>5. ItemRules[3].lhs = "BlockItem" /\ ItemRules[3].rhs = <<"Decl">>
  BY DEF ItemRules, Rule
<1>6. ItemRules[4].lhs = "BlockItem" /\ ItemRules[4].rhs = <<"Stmt">>
  BY DEF ItemRules, Rule
<1>7. ItemRules[5].lhs = "BlockItem" /\ ItemRules[5].rhs = <<>>
  BY DEF ItemRules, Rule
<1> QED
  BY <1>2, <1>3, <1>4, <1>5, <1>6, <1>7 DEF IsRule

\* The rules 11 to 19 of the automaton.
LEMMA ConstRulesAt ==
    /\ IsRule(11, "Decl", <<"ConstDecl">>)
    /\ IsRule(12, "Decl", <<"VarDecl">>)
    /\ IsRule(13, "ConstDecl", <<"CONST", "BType", "ConstDef", "ConstDefs", StrSemicolon>>)
    /\ IsRule(14, "BType", <<"INT">>)
    /\ IsRule(15, "ConstDefs", <<>>)
    /\ IsRule(16, "ConstDefs", <<StrComma, "ConstDef", "ConstDefs">>)
    /\ IsRule(17, "ConstDef", <<"IDENT", "str=", "ConstInitVal">>)
    /\ IsRule(18, "ConstInitVal", <<"ConstExp">>)
    /\ IsRule(19, "ConstExp", <<"Exp">>)
<1>1. PartAt(Rules, ConstRules, 10, 9)
  BY RuleNumbers
<1>2. /\ Rules[11] = ConstRules[1]
      /\ Rules[12] = ConstRules[2]
      /\ Rules[13] = ConstRules[3]
      /\ Rules[14] = ConstRules[4]
      /\ Rules[15] = ConstRules[5]
      /\ Rules[16] = ConstRules[6]
      /\ Rules[17] = ConstRules[7]
      /\ Rules[18] = ConstRules[8]
      /\ Rules[19] = ConstRules[9]
  BY <1>1 DEF PartAt
<1>3. ConstRules[1].lhs = "Decl" /\ ConstRules[1].rhs = <<"ConstDecl">>
  BY DEF ConstRules, Rule
<1>4. ConstRules[2].lhs = "Decl" /\ ConstRules[2].rhs = <<"VarDecl">>
  BY DEF ConstRules, Rule
<1>5. ConstRules[3].lhs = "ConstDecl" /\ ConstRules[3].rhs = <<"CONST", "BType", "ConstDef", "ConstDefs", StrSemicolon>>
  BY DEF ConstRules, Rule, StrSemicolon
<1>6. ConstRules[4].lhs = "BType" /\ ConstRules[4].rhs = <<"INT">>
  BY DEF ConstRules, Rule
<1>7. ConstRules[5].lhs = "ConstDefs" /\ ConstRules[5].rhs = <<>>
  BY DEF ConstRules, Rule
<1>8. ConstRules[6].lhs = "ConstDefs" /\ ConstRules[6].rhs = <<StrComma, "ConstDef", "ConstDefs">>
  BY DEF ConstRules, Rule, StrComma
<1>9. ConstRules[7].lhs = "ConstDef" /\ ConstRules[7].rhs = <<"IDENT", "str=", "ConstInitVal">>
  BY DEF ConstRules, Rule
<1>10. ConstRules[8].lhs = "ConstInitVal" /\ ConstRules[8].rhs = <<"ConstExp">>
  BY DEF ConstRules, Rule
<1>11. ConstRules[9].lhs = "ConstExp" /\ ConstRules[9].rhs = <<"Exp">>
  BY DEF ConstRules, Rule
<1> QED
  BY <1>2, <1>3, <1>4, <1>5, <1>6, <1>7, <1>8, <1>9, <1>10, <1>11 DEF IsRule

\* The rules 20 to 24 of the automaton.
LEMMA VarRulesAt ==
    /\ IsRule(20, "VarDecl", <<"BType", "VarDef", "VarDefs", StrSemicolon>>)
    /\ IsRule(21, "VarDefs", <<StrComma, "VarDef", "VarDefs">>)
    /\ IsRule(22, "VarDef", <<"IDENT">>)
    /\ IsRule(23, "VarDef", <<"IDENT", "str=", "InitVal">>)
    /\ IsRule(24, "InitVal", <<"Exp">>)
<1>1. PartAt(Rules, VarRules, 19, 5)
  BY RuleNumbers
<1>2. /\ Rules[20] = VarRules[1]
      /\ Rules[21] = VarRules[2]
      /\ Rules[22] = VarRules[3]
      /\ Rules[23] = VarRules[4]
      /\ Rules[24] = VarRules[5]
  BY <1>1 DEF PartAt
<1>3. VarRules[1].lhs = "VarDecl" /\ VarRules[1].rhs = <<"BType", "VarDef", "VarDefs", StrSemicolon>>
  BY DEF VarRules, Rule, StrSemicolon
<1>4. VarRules[2].lhs = "VarDefs" /\ VarRules[2].rhs = <<StrComma, "VarDef", "VarDefs">>
  BY DEF VarRules, Rule, StrComma
<1>5. VarRules[3].lhs = "VarDef" /\ VarRules[3].rhs = <<"IDENT">>
  BY DEF VarRules, Rule
<1>6. VarRules[4].lhs = "VarDef" /\ VarRules[4].rhs = <<"IDENT", "str=", "InitVal">>
  BY DEF VarRules, Rule
<1>7. VarRules[5].lhs = "InitVal" /\ VarRules[5].rhs = <<"Exp">>
  BY DEF VarRules, Rule
<1> QED
  BY <1>2, <1>3, <1>4, <1>5, <1>6, <1>7 DEF IsRule

\* The rules 25 to 27 of the automaton.
LEMMA StmtRulesAt ==
    /\ IsRule(25, "Stmt", <<"LVal", "str=", "Exp", StrSemicolon>>)
    /\ IsRule(26, "Stmt", <<"RETURN", "Exp", Semicolon>>)
    /\ IsRule(27, "Exp", <<"LOrExp">>)
<1>1. PartAt(Rules, StmtRules, 24, 3)
  BY RuleNumbers
<1>2. /\ Rules[25] = StmtRules[1]
      /\ Rules[26] = StmtRules[2]
      /\ Rules[27] = StmtRules[3]
  BY <1>1 DEF PartAt
<1>3. StmtRules[1].lhs = "Stmt" /\ StmtRules[1].rhs = <<"LVal", "str=", "Exp", StrSemicolon>>
  BY DEF StmtRules, Rule, StrSemicolon
<1>4. StmtRules[2].lhs = "Stmt" /\ StmtRules[2].rhs = <<"RETURN", "Exp", Semicolon>>
  BY DEF StmtRules, Rule, Semicolon
<1>5. StmtRules[3].lhs = "Exp" /\ StmtRules[3].rhs = <<"LOrExp">>
  BY DEF StmtRules, Rule
<1> QED
  BY <1>2, <1>3, <1>4, <1>5 DEF IsRule

\* The rules 28 to 35 of the automaton.
LEMMA OperandRulesAt ==
    /\ IsRule(28, "PrimaryExp", <<"(", "Exp", ")">>)
    /\ IsRule(29, "PrimaryExp", <<"Number">>)
    /\ IsRule(30, "PrimaryExp", <<"LVal">>)
    /\ IsRule(31, "LVal", <<"IDENT">>)
    /\ IsRule(32, "Number", <<"INT_CONST">>)
    /\ IsRule(33, "UnaryExp", <<"PrimaryExp">>)
    /\ IsRule(34, "UnaryExp", <<"UnaryOp", "UnaryExp">>)
    /\ IsRule(35, "UnaryOp", <<"OPT">>)
<1>1. PartAt(Rules, OperandRules, 27, 8)
  BY RuleNumbers
<1>2. /\ Rules[28] = OperandRules[1]
      /\ Rules[29] = OperandRules[2]
      /\ Rules[30] = OperandRules[3]
      /\ Rules[31] = OperandRules[4]
      /\ Rules[32] = OperandRules[5]
      /\ Rules[33] = OperandRules[6]
      /\ Rules[34] = OperandRules[7]
      /\ Rules[35] = OperandRules[8]
  BY <1>1 DEF PartAt
<1>3. OperandRules[1].lhs = "PrimaryExp" /\ OperandRules[1].rhs = <<"(", "Exp", ")">>
  BY DEF OperandRules, Rule
<1>4. OperandRules[2].lhs = "PrimaryExp" /\ OperandRules[2].rhs = <<"Number">>
  BY DEF OperandRules, Rule
<1>5. OperandRules[3].lhs = "PrimaryExp" /\ OperandRules[3].rhs = <<"LVal">>
  BY DEF OperandRules, Rule
<1>6. OperandRules[4].lhs = "LVal" /\ OperandRules[4].rhs = <<"IDENT">>
  BY DEF OperandRules, Rule
<1>7. OperandRules[5].lhs = "Number" /\ OperandRules[5].rhs = <<"INT_CONST">>
  BY DEF OperandRules, Rule
<1>8. OperandRules[6].lhs = "UnaryExp" /\ OperandRules[6].rhs = <<"PrimaryExp">>
  BY DEF OperandRules, Rule
<1>9. OperandRules[7].lhs = "UnaryExp" /\ OperandRules[7].rhs = <<"UnaryOp", "UnaryExp">>
  BY DEF OperandRules, Rule
<1>10. OperandRules[8].lhs = "UnaryOp" /\ OperandRules[8].rhs = <<"OPT">>
  BY DEF OperandRules, Rule
<1> QED
  BY <1>2, <1>3, <1>4, <1>5, <1>6, <1>7, <1>8, <1>9, <1>10 DEF IsRule

\* The rules 36 to 40 of the automaton.
LEMMA ArithmeticRulesAt ==
    /\ IsRule(36, "MulExp", <<"UnaryExp">>)
    /\ IsRule(37, "MulExp", <<"MulExp", "BinOp", "UnaryExp">>)
    /\ IsRule(38, "AddExp", <<"MulExp">>)
    /\ IsRule(39, "AddExp", <<"AddExp", "BinOp", "MulExp">>)
    /\ IsRule(40, "BinOp", <<"OPT">>)
<1>1. PartAt(Rules, ArithmeticRules, 35, 5)
  BY RuleNumbers
<1>2. /\ Rules[36] = ArithmeticRules[1]
      /\ Rules[37] = ArithmeticRules[2]
      /\ Rules[38] = ArithmeticRules[3]
      /\ Rules[39] = ArithmeticRules[4]
      /\ Rules[40] = ArithmeticRules[5]
  BY <1>1 DEF PartAt
<1>3. ArithmeticRules[1].lhs = "MulExp" /\ ArithmeticRules[1].rhs = <<"UnaryExp">>
  BY DEF ArithmeticRules, Rule
<1>4. ArithmeticRules[2].lhs = "MulExp" /\ ArithmeticRules[2].rhs = <<"MulExp", "BinOp", "UnaryExp">>
  BY DEF ArithmeticRules, Rule
<1>5. ArithmeticRules[3].lhs = "AddExp" /\ ArithmeticRules[3].rhs = <<"MulExp">>
  BY DEF ArithmeticRules, Rule
<1>6. ArithmeticRules[4].lhs = "AddExp" /\ ArithmeticRules[4].rhs = <<"AddExp", "BinOp", "MulExp">>
  BY DEF ArithmeticRules, Rule
<1>7. ArithmeticRules[5].lhs = "BinOp" /\ ArithmeticRules[5].rhs = <<"OPT">>
  BY DEF ArithmeticRules, Rule
<1> QED
  BY <1>2, <1>3, <1>4, <1>5, <1>6, <1>7 DEF IsRule

\* The rules 41 to 45 of the automaton.
LEMMA RelationRulesAt ==
    /\ IsRule(41, "RelExp", <<"AddExp">>)
    /\ IsRule(42, "RelExp", <<"RelExp", "CmpOp", "AddExp">>)
    /\ IsRule(43, "EqExp", <<"RelExp">>)
    /\ IsRule(44, "EqExp", <<"EqExp", "CmpOp", "RelExp">>)
    /\ IsRule(45, "CmpOp", <<"OPT">>)
<1>1. PartAt(Rules, RelationRules, 40, 5)
  BY RuleNumbers
<1>2. /\ Rules[41] = RelationRules[1]
      /\ Rules[42] = RelationRules[2]
      /\ Rules[43] = RelationRules[3]
      /\ Rules[44] = RelationRules[4]
      /\ Rules[45] = RelationRules[5]
  BY <1>1 DEF PartAt
<1>3. RelationRules[1].lhs = "RelExp" /\ RelationRules[1].rhs = <<"AddExp">>
  BY DEF RelationRules, Rule
<1>4. RelationRules[2].lhs = "RelExp" /\ RelationRules[2].rhs = <<"RelExp", "CmpOp", "AddExp">>
  BY DEF RelationRules, Rule
<1>5. RelationRules[3].lhs = "EqExp" /\ RelationRules[3].rhs = <<"RelExp">>
  BY DEF RelationRules, Rule
<1>6. RelationRules[4].lhs = "EqExp" /\ RelationRules[4].rhs = <<"EqExp", "CmpOp", "RelExp">>
  BY DEF RelationRules, Rule
<1>7. RelationRules[5].lhs = "CmpOp" /\ RelationRules[5].rhs = <<"OPT">>
  BY DEF RelationRules, Rule
<1> QED
  BY <1>2, <1>3, <1>4, <1>5, <1>6, <1>7 DEF IsRule

\* The rules 46 to 49 of the automaton.
LEMMA LogicRulesAt ==
    /\ IsRule(46, "LAndExp", <<"EqExp">>)
    /\ IsRule(47, "LAndExp", <<"LAndExp", "OPT", "EqExp">>)
    /\ IsRule(48, "LOrExp", <<"LAndExp">>)
    /\ IsRule(49, "LOrExp", <<"LOrExp", "OPT", "LAndExp">>)
<1>1. PartAt(Rules, LogicRules, 45, 4)
  BY RuleNumbers
<1>2. /\ Rules[46] = LogicRules[1]
      /\ Rules[47] = LogicRules[2]
      /\ Rules[48] = LogicRules[3]
      /\ Rules[49] = LogicRules[4]
  BY <1>1 DEF PartAt
<1>3. LogicRules[1].lhs = "LAndExp" /\ LogicRules[1].rhs = <<"EqExp">>
  BY DEF LogicRules, Rule
<1>4. LogicRules[2].lhs = "LAndExp" /\ LogicRules[2].rhs = <<"LAndExp", "OPT", "EqExp">>
  BY DEF LogicRules, Rule
<1>5. LogicRules[3].lhs = "LOrExp" /\ LogicRules[3].rhs = <<"LAndExp">>
  BY DEF LogicRules, Rule
<1>6. LogicRules[4].lhs = "LOrExp" /\ LogicRules[4].rhs = <<"LOrExp", "OPT", "LAndExp">>
  BY DEF LogicRules, Rule
<1> QED
  BY <1>2, <1>3, <1>4, <1>5, <1>6 DEF IsRule

\* The rules for each nonterminal by their numbers.
NamedRule(A, i) ==
    \/ A = "CompUnit" /\ i = 2
    \/ A = "FuncDef" /\ i = 3
    \/ A = "FuncType" /\ i = 4
    \/ A = "Block" /\ i = 5
    \/ A = "BlockItems" /\ i \in {6, 7}
    \/ A = "BlockItem" /\ i \in {8, 9, 10}
    \/ A = "Decl" /\ i \in {11, 12}
    \/ A = "ConstDecl" /\ i = 13
    \/ A = "BType" /\ i = 14
    \/ A = "ConstDefs" /\ i \in {15, 16}
    \/ A = "ConstDef" /\ i = 17
    \/ A = "ConstInitVal" /\ i = 18
    \/ A = "ConstExp" /\ i = 19
    \/ A = "VarDecl" /\ i = 20
    \/ A = "VarDefs" /\ i = 21
    \/ A = "VarDef" /\ i \in {22, 23}
    \/ A = "InitVal" /\ i = 24
    \/ A = "Stmt" /\ i \in {25, 26}
    \/ A = "Exp" /\ i = 27
    \/ A = "PrimaryExp" /\ i \in {28, 29, 30}
    \/ A = "LVal" /\ i = 31
    \/ A = "Number" /\ i = 32
    \/ A = "UnaryExp" /\ i \in {33, 34}
    \/ A = "UnaryOp" /\ i = 35
    \/ A = "MulExp" /\ i \in {36, 37}
    \/ A = "AddExp" /\ i \in {38, 39}
    \/ A = "BinOp" /\ i = 40
    \/ A = "RelExp" /\ i \in {41, 42}
    \/ A = "EqExp" /\ i \in {43, 44}
    \/ A = "CmpOp" /\ i = 45
    \/ A = "LAndExp" /\ i \in {46, 47}
    \/ A = "LOrExp" /\ i \in {48, 49}

\* A rule has one of these numbers, by its left-hand side.
LEMMA RuleByLhs ==
    ASSUME NEW i \in 2..49
    PROVE  NamedRule(Rules[i].lhs, i)
<1>1. CASE i \in 2..5
  <2>1. i = 2 \/ i = 3 \/ i = 4 \/ i = 5
    BY <1>1
  <2>2. NamedRule(Rules[2].lhs, 2)
    BY ProgramRulesAt DEF IsRule, NamedRule
  <2>3. NamedRule(Rules[3].lhs, 3)
    BY ProgramRulesAt DEF IsRule, NamedRule
  <2>4. NamedRule(Rules[4].lhs, 4)
    BY ProgramRulesAt DEF IsRule, NamedRule
  <2>5. NamedRule(Rules[5].lhs, 5)
    BY ProgramRulesAt DEF IsRule, NamedRule
  <2> QED
    BY <2>1, <2>2, <2>3, <2>4, <2>5
<1>2. CASE i \in 6..10
  <2>1. i = 6 \/ i = 7 \/ i = 8 \/ i = 9 \/ i = 10
    BY <1>2
  <2>2. NamedRule(Rules[6].lhs, 6)
    BY ItemRulesAt DEF IsRule, NamedRule
  <2>3. NamedRule(Rules[7].lhs, 7)
    BY ItemRulesAt DEF IsRule, NamedRule
  <2>4. NamedRule(Rules[8].lhs, 8)
    BY ItemRulesAt DEF IsRule, NamedRule
  <2>5. NamedRule(Rules[9].lhs, 9)
    BY ItemRulesAt DEF IsRule, NamedRule
  <2>6. NamedRule(Rules[10].lhs, 10)
    BY ItemRulesAt DEF IsRule, NamedRule
  <2> QED
    BY <2>1, <2>2, <2>3, <2>4, <2>5, <2>6
<1>3. CASE i \in 11..19
  <2>1. i = 11 \/ i = 12 \/ i = 13 \/ i = 14 \/ i = 15 \/ i = 16 \/ i = 17 \/ i = 18 \/ i = 19
    BY <1>3
  <2>2. NamedRule(Rules[11].lhs, 11)
    BY ConstRulesAt DEF IsRule, NamedRule
  <2>3. NamedRule(Rules[12].lhs, 12)
    BY ConstRulesAt DEF IsRule, NamedRule
  <2>4. NamedRule(Rules[13].lhs, 13)
    BY ConstRulesAt DEF IsRule, NamedRule
  <2>5. NamedRule(Rules[14].lhs, 14)
    BY ConstRulesAt DEF IsRule, NamedRule
  <2>6. NamedRule(Rules[15].lhs, 15)
    BY ConstRulesAt DEF IsRule, NamedRule
  <2>7. NamedRule(Rules[16].lhs, 16)
    BY ConstRulesAt DEF IsRule, NamedRule
  <2>8. NamedRule(Rules[17].lhs, 17)
    BY ConstRulesAt DEF IsRule, NamedRule
  <2>9. NamedRule(Rules[18].lhs, 18)
    BY ConstRulesAt DEF IsRule, NamedRule
  <2>10. NamedRule(Rules[19].lhs, 19)
    BY ConstRulesAt DEF IsRule, NamedRule
  <2> QED
    BY <2>1, <2>2, <2>3, <2>4, <2>5, <2>6, <2>7, <2>8, <2>9, <2>10
<1>4. CASE i \in 20..24
  <2>1. i = 20 \/ i = 21 \/ i = 22 \/ i = 23 \/ i = 24
    BY <1>4
  <2>2. NamedRule(Rules[20].lhs, 20)
    BY VarRulesAt DEF IsRule, NamedRule
  <2>3. NamedRule(Rules[21].lhs, 21)
    BY VarRulesAt DEF IsRule, NamedRule
  <2>4. NamedRule(Rules[22].lhs, 22)
    BY VarRulesAt DEF IsRule, NamedRule
  <2>5. NamedRule(Rules[23].lhs, 23)
    BY VarRulesAt DEF IsRule, NamedRule
  <2>6. NamedRule(Rules[24].lhs, 24)
    BY VarRulesAt DEF IsRule, NamedRule
  <2> QED
    BY <2>1, <2>2, <2>3, <2>4, <2>5, <2>6
<1>5. CASE i \in 25..27
  <2>1. i = 25 \/ i = 26 \/ i = 27
    BY <1>5
  <2>2. NamedRule(Rules[25].lhs, 25)
    BY StmtRulesAt DEF IsRule, NamedRule
  <2>3. NamedRule(Rules[26].lhs, 26)
    BY StmtRulesAt DEF IsRule, NamedRule
  <2>4. NamedRule(Rules[27].lhs, 27)
    BY StmtRulesAt DEF IsRule, NamedRule
  <2> QED
    BY <2>1, <2>2, <2>3, <2>4
<1>6. CASE i \in 28..35
  <2>1. i = 28 \/ i = 29 \/ i = 30 \/ i = 31 \/ i = 32 \/ i = 33 \/ i = 34 \/ i = 35
    BY <1>6
  <2>2. NamedRule(Rules[28].lhs, 28)
    BY OperandRulesAt DEF IsRule, NamedRule
  <2>3. NamedRule(Rules[29].lhs, 29)
    BY OperandRulesAt DEF IsRule, NamedRule
  <2>4. NamedRule(Rules[30].lhs, 30)
    BY OperandRulesAt DEF IsRule, NamedRule
  <2>5. NamedRule(Rules[31].lhs, 31)
    BY OperandRulesAt DEF IsRule, NamedRule
  <2>6. NamedRule(Rules[32].lhs, 32)
    BY OperandRulesAt DEF IsRule, NamedRule
  <2>7. NamedRule(Rules[33].lhs, 33)
    BY OperandRulesAt DEF IsRule, NamedRule
  <2>8. NamedRule(Rules[34].lhs, 34)
    BY OperandRulesAt DEF IsRule, NamedRule
  <2>9. NamedRule(Rules[35].lhs, 35)
    BY OperandRulesAt DEF IsRule, NamedRule
  <2> QED
    BY <2>1, <2>2, <2>3, <2>4, <2>5, <2>6, <2>7, <2>8, <2>9
<1>7. CASE i \in 36..40
  <2>1. i = 36 \/ i = 37 \/ i = 38 \/ i = 39 \/ i = 40
    BY <1>7
  <2>2. NamedRule(Rules[36].lhs, 36)
    BY ArithmeticRulesAt DEF IsRule, NamedRule
  <2>3. NamedRule(Rules[37].lhs, 37)
    BY ArithmeticRulesAt DEF IsRule, NamedRule
  <2>4. NamedRule(Rules[38].lhs, 38)
    BY ArithmeticRulesAt DEF IsRule, NamedRule
  <2>5. NamedRule(Rules[39].lhs, 39)
    BY ArithmeticRulesAt DEF IsRule, NamedRule
  <2>6. NamedRule(Rules[40].lhs, 40)
    BY ArithmeticRulesAt DEF IsRule, NamedRule
  <2> QED
    BY <2>1, <2>2, <2>3, <2>4, <2>5, <2>6
<1>8. CASE i \in 41..45
  <2>1. i = 41 \/ i = 42 \/ i = 43 \/ i = 44 \/ i = 45
    BY <1>8
  <2>2. NamedRule(Rules[41].lhs, 41)
    BY RelationRulesAt DEF IsRule, NamedRule
  <2>3. NamedRule(Rules[42].lhs, 42)
    BY RelationRulesAt DEF IsRule, NamedRule
  <2>4. NamedRule(Rules[43].lhs, 43)
    BY RelationRulesAt DEF IsRule, NamedRule
  <2>5. NamedRule(Rules[44].lhs, 44)
    BY RelationRulesAt DEF IsRule, NamedRule
  <2>6. NamedRule(Rules[45].lhs, 45)
    BY RelationRulesAt DEF IsRule, NamedRule
  <2> QED
    BY <2>1, <2>2, <2>3, <2>4, <2>5, <2>6
<1>9. CASE i \in 46..49
  <2>1. i = 46 \/ i = 47 \/ i = 48 \/ i = 49
    BY <1>9
  <2>2. NamedRule(Rules[46].lhs, 46)
    BY LogicRulesAt DEF IsRule, NamedRule
  <2>3. NamedRule(Rules[47].lhs, 47)
    BY LogicRulesAt DEF IsRule, NamedRule
  <2>4. NamedRule(Rules[48].lhs, 48)
    BY LogicRulesAt DEF IsRule, NamedRule
  <2>5. NamedRule(Rules[49].lhs, 49)
    BY LogicRulesAt DEF IsRule, NamedRule
  <2> QED
    BY <2>1, <2>2, <2>3, <2>4, <2>5
<1> QED
  BY <1>1, <1>2, <1>3, <1>4, <1>5, <1>6, <1>7, <1>8, <1>9

\* The nonterminals of the grammar.
Names == {
    "CompUnit", "FuncDef", "FuncType", "Block", "BlockItems", "BlockItem", "Decl", "ConstDecl",
    "BType", "ConstDefs", "ConstDef", "ConstInitVal", "ConstExp", "VarDecl", "VarDefs", "VarDef",
    "InitVal", "Stmt", "Exp", "PrimaryExp", "LVal", "Number", "UnaryExp", "UnaryOp",
    "MulExp", "AddExp", "BinOp", "RelExp", "EqExp", "CmpOp", "LAndExp", "LOrExp" }

\* They are those that have a rule.
LEMMA NonterminalNames == Nonterminals = Names
<1>1. ASSUME NEW A \in Nonterminals PROVE A \in Names
  <2>1. PICK i \in DOMAIN WrittenRules : A = WrittenRules[i].lhs
    BY DEF Nonterminals
  <2>2. i \in 1..48 /\ 1 + i \in 2..49 /\ WrittenRules[i] = Rules[1 + i]
    <3> DEFINE n == Len(WrittenRules)
    <3>1. n \in Nat /\ Len(Rules) = n + 1 /\ i \in 1..n /\ Rules[1 + i] = WrittenRules[i]
      BY RulesShape
    <3> HIDE DEF n
    <3>2. n + 1 = 49
      BY <3>1, RuleNumbers
    <3>3. n = 48
      BY <3>1, <3>2
    <3>4. i \in 1..48
      BY <3>1, <3>3
    <3>5. 1 + i \in 2..49
      BY <3>4
    <3> QED
      BY <3>1, <3>4, <3>5
  <2>3. NamedRule(A, 1 + i)
    BY <2>1, <2>2, RuleByLhs
  <2> QED
    BY <2>3 DEF NamedRule, Names
<1>2. ASSUME NEW i \in 2..49 PROVE Rules[i].lhs \in Nonterminals
  BY NonterminalFacts, RuleNumbers
<1>3. {"CompUnit", "FuncDef", "FuncType", "Block"} \subseteq Nonterminals
  <2>1. 2 \in 2..49 /\ 3 \in 2..49 /\ 4 \in 2..49 /\ 5 \in 2..49
    OBVIOUS
  <2> QED
    BY <1>2, <2>1, ProgramRulesAt DEF IsRule
<1>4. {"BlockItems", "BlockItem"} \subseteq Nonterminals
  <2>1. 6 \in 2..49 /\ 8 \in 2..49
    OBVIOUS
  <2> QED
    BY <1>2, <2>1, ItemRulesAt DEF IsRule
<1>5. {"Decl", "ConstDecl", "BType", "ConstDefs", "ConstDef", "ConstInitVal", "ConstExp"} \subseteq Nonterminals
  <2>1. 11 \in 2..49 /\ 13 \in 2..49 /\ 14 \in 2..49 /\ 15 \in 2..49 /\ 17 \in 2..49 /\ 18 \in 2..49 /\ 19 \in 2..49
    OBVIOUS
  <2> QED
    BY <1>2, <2>1, ConstRulesAt DEF IsRule
<1>6. {"VarDecl", "VarDefs", "VarDef", "InitVal"} \subseteq Nonterminals
  <2>1. 20 \in 2..49 /\ 21 \in 2..49 /\ 22 \in 2..49 /\ 24 \in 2..49
    OBVIOUS
  <2> QED
    BY <1>2, <2>1, VarRulesAt DEF IsRule
<1>7. {"Stmt", "Exp"} \subseteq Nonterminals
  <2>1. 25 \in 2..49 /\ 27 \in 2..49
    OBVIOUS
  <2> QED
    BY <1>2, <2>1, StmtRulesAt DEF IsRule
<1>8. {"PrimaryExp", "LVal", "Number", "UnaryExp", "UnaryOp"} \subseteq Nonterminals
  <2>1. 28 \in 2..49 /\ 31 \in 2..49 /\ 32 \in 2..49 /\ 33 \in 2..49 /\ 35 \in 2..49
    OBVIOUS
  <2> QED
    BY <1>2, <2>1, OperandRulesAt DEF IsRule
<1>9. {"MulExp", "AddExp", "BinOp"} \subseteq Nonterminals
  <2>1. 36 \in 2..49 /\ 38 \in 2..49 /\ 40 \in 2..49
    OBVIOUS
  <2> QED
    BY <1>2, <2>1, ArithmeticRulesAt DEF IsRule
<1>10. {"RelExp", "EqExp", "CmpOp"} \subseteq Nonterminals
  <2>1. 41 \in 2..49 /\ 43 \in 2..49 /\ 45 \in 2..49
    OBVIOUS
  <2> QED
    BY <1>2, <2>1, RelationRulesAt DEF IsRule
<1>11. {"LAndExp", "LOrExp"} \subseteq Nonterminals
  <2>1. 46 \in 2..49 /\ 48 \in 2..49
    OBVIOUS
  <2> QED
    BY <1>2, <2>1, LogicRulesAt DEF IsRule
<1> QED
  BY <1>1, <1>3, <1>4, <1>5, <1>6, <1>7, <1>8, <1>9, <1>10, <1>11 DEF Names

-----------------------------------------------------------------------------
(***************************************************************************)
(* The useful rules: those that derive something and can be reached.       *)
(***************************************************************************)
\* The tokens of the grammar.
Tokens == {
    "$end", "IDENT", "(", ")", "INT", OpenBlock, CloseBlock, "CONST", StrSemicolon,
    StrComma, "str=", "RETURN", Semicolon, "INT_CONST", "OPT" }

\* No token is a nonterminal.
LEMMA TokensUnnamed ==
    /\ "$end" \notin Names
    /\ "IDENT" \notin Names
    /\ "(" \notin Names
    /\ ")" \notin Names
    /\ "INT" \notin Names
    /\ OpenBlock \notin Names
    /\ CloseBlock \notin Names
    /\ "CONST" \notin Names
    /\ StrSemicolon \notin Names
    /\ StrComma \notin Names
    /\ "str=" \notin Names
    /\ "RETURN" \notin Names
    /\ Semicolon \notin Names
    /\ "INT_CONST" \notin Names
    /\ "OPT" \notin Names
BY DEF Names, OpenBlock, CloseBlock, Semicolon, StrSemicolon, StrComma

\* A rule needs the nonterminals in N, at most.
Needs(i, N) == Range(Rules[i].rhs) \cap Names \subseteq N

\* What the rules need.
LEMMA RuleNeeds ==
    /\ Needs(2, {"FuncDef"})
    /\ Needs(3, {"FuncType", "Block"})
    /\ Needs(4, {})
    /\ Needs(5, {"BlockItems"})
    /\ Needs(6, {})
    /\ Needs(7, {"BlockItem", "BlockItems"})
    /\ Needs(8, {"Decl"})
    /\ Needs(9, {"Stmt"})
    /\ Needs(10, {})
    /\ Needs(11, {"ConstDecl"})
    /\ Needs(13, {"BType", "ConstDef", "ConstDefs"})
    /\ Needs(14, {})
    /\ Needs(15, {})
    /\ Needs(16, {"ConstDef", "ConstDefs"})
    /\ Needs(17, {"ConstInitVal"})
    /\ Needs(18, {"ConstExp"})
    /\ Needs(19, {"Exp"})
    /\ Needs(22, {})
    /\ Needs(23, {"InitVal"})
    /\ Needs(24, {"Exp"})
    /\ Needs(25, {"LVal", "Exp"})
    /\ Needs(26, {"Exp"})
    /\ Needs(27, {"LOrExp"})
    /\ Needs(28, {"Exp"})
    /\ Needs(29, {"Number"})
    /\ Needs(30, {"LVal"})
    /\ Needs(31, {})
    /\ Needs(32, {})
    /\ Needs(33, {"PrimaryExp"})
    /\ Needs(34, {"UnaryOp", "UnaryExp"})
    /\ Needs(35, {})
    /\ Needs(36, {"UnaryExp"})
    /\ Needs(37, {"MulExp", "BinOp", "UnaryExp"})
    /\ Needs(38, {"MulExp"})
    /\ Needs(39, {"AddExp", "BinOp", "MulExp"})
    /\ Needs(40, {})
    /\ Needs(41, {"AddExp"})
    /\ Needs(42, {"RelExp", "CmpOp", "AddExp"})
    /\ Needs(43, {"RelExp"})
    /\ Needs(44, {"EqExp", "CmpOp", "RelExp"})
    /\ Needs(45, {})
    /\ Needs(46, {"EqExp"})
    /\ Needs(47, {"LAndExp", "EqExp"})
    /\ Needs(48, {"LAndExp"})
    /\ Needs(49, {"LOrExp", "LAndExp"})
<1>1. Needs(2, {"FuncDef"})
  <2>1. Rules[2].rhs = <<"FuncDef">>
    BY ProgramRulesAt DEF IsRule
  <2> QED
    BY <2>1 DEF Needs, Range
<1>2. Needs(3, {"FuncType", "Block"})
  <2>1. Rules[3].rhs = <<"FuncType", "IDENT", "(", ")", "Block">>
    BY ProgramRulesAt DEF IsRule
  <2> QED
    BY <2>1, TokensUnnamed DEF Needs, Range
<1>3. Needs(4, {})
  <2>1. Rules[4].rhs = <<"INT">>
    BY ProgramRulesAt DEF IsRule
  <2> QED
    BY <2>1, TokensUnnamed DEF Needs, Range
<1>4. Needs(5, {"BlockItems"})
  <2>1. Rules[5].rhs = <<OpenBlock, "BlockItems", CloseBlock>>
    BY ProgramRulesAt DEF IsRule
  <2> QED
    BY <2>1, TokensUnnamed DEF Needs, Range
<1>5. Needs(6, {})
  <2>1. Rules[6].rhs = <<>>
    BY ItemRulesAt DEF IsRule
  <2> QED
    BY <2>1 DEF Needs, Range
<1>6. Needs(7, {"BlockItem", "BlockItems"})
  <2>1. Rules[7].rhs = <<"BlockItem", "BlockItems">>
    BY ItemRulesAt DEF IsRule
  <2> QED
    BY <2>1 DEF Needs, Range
<1>7. Needs(8, {"Decl"})
  <2>1. Rules[8].rhs = <<"Decl">>
    BY ItemRulesAt DEF IsRule
  <2> QED
    BY <2>1 DEF Needs, Range
<1>8. Needs(9, {"Stmt"})
  <2>1. Rules[9].rhs = <<"Stmt">>
    BY ItemRulesAt DEF IsRule
  <2> QED
    BY <2>1 DEF Needs, Range
<1>9. Needs(10, {})
  <2>1. Rules[10].rhs = <<>>
    BY ItemRulesAt DEF IsRule
  <2> QED
    BY <2>1 DEF Needs, Range
<1>10. Needs(11, {"ConstDecl"})
  <2>1. Rules[11].rhs = <<"ConstDecl">>
    BY ConstRulesAt DEF IsRule
  <2> QED
    BY <2>1 DEF Needs, Range
<1>11. Needs(13, {"BType", "ConstDef", "ConstDefs"})
  <2>1. Rules[13].rhs = <<"CONST", "BType", "ConstDef", "ConstDefs", StrSemicolon>>
    BY ConstRulesAt DEF IsRule
  <2> QED
    BY <2>1, TokensUnnamed DEF Needs, Range
<1>12. Needs(14, {})
  <2>1. Rules[14].rhs = <<"INT">>
    BY ConstRulesAt DEF IsRule
  <2> QED
    BY <2>1, TokensUnnamed DEF Needs, Range
<1>13. Needs(15, {})
  <2>1. Rules[15].rhs = <<>>
    BY ConstRulesAt DEF IsRule
  <2> QED
    BY <2>1 DEF Needs, Range
<1>14. Needs(16, {"ConstDef", "ConstDefs"})
  <2>1. Rules[16].rhs = <<StrComma, "ConstDef", "ConstDefs">>
    BY ConstRulesAt DEF IsRule
  <2> QED
    BY <2>1, TokensUnnamed DEF Needs, Range
<1>15. Needs(17, {"ConstInitVal"})
  <2>1. Rules[17].rhs = <<"IDENT", "str=", "ConstInitVal">>
    BY ConstRulesAt DEF IsRule
  <2> QED
    BY <2>1, TokensUnnamed DEF Needs, Range
<1>16. Needs(18, {"ConstExp"})
  <2>1. Rules[18].rhs = <<"ConstExp">>
    BY ConstRulesAt DEF IsRule
  <2> QED
    BY <2>1 DEF Needs, Range
<1>17. Needs(19, {"Exp"})
  <2>1. Rules[19].rhs = <<"Exp">>
    BY ConstRulesAt DEF IsRule
  <2> QED
    BY <2>1 DEF Needs, Range
<1>18. Needs(22, {})
  <2>1. Rules[22].rhs = <<"IDENT">>
    BY VarRulesAt DEF IsRule
  <2> QED
    BY <2>1, TokensUnnamed DEF Needs, Range
<1>19. Needs(23, {"InitVal"})
  <2>1. Rules[23].rhs = <<"IDENT", "str=", "InitVal">>
    BY VarRulesAt DEF IsRule
  <2> QED
    BY <2>1, TokensUnnamed DEF Needs, Range
<1>20. Needs(24, {"Exp"})
  <2>1. Rules[24].rhs = <<"Exp">>
    BY VarRulesAt DEF IsRule
  <2> QED
    BY <2>1 DEF Needs, Range
<1>21. Needs(25, {"LVal", "Exp"})
  <2>1. Rules[25].rhs = <<"LVal", "str=", "Exp", StrSemicolon>>
    BY StmtRulesAt DEF IsRule
  <2> QED
    BY <2>1, TokensUnnamed DEF Needs, Range
<1>22. Needs(26, {"Exp"})
  <2>1. Rules[26].rhs = <<"RETURN", "Exp", Semicolon>>
    BY StmtRulesAt DEF IsRule
  <2> QED
    BY <2>1, TokensUnnamed DEF Needs, Range
<1>23. Needs(27, {"LOrExp"})
  <2>1. Rules[27].rhs = <<"LOrExp">>
    BY StmtRulesAt DEF IsRule
  <2> QED
    BY <2>1 DEF Needs, Range
<1>24. Needs(28, {"Exp"})
  <2>1. Rules[28].rhs = <<"(", "Exp", ")">>
    BY OperandRulesAt DEF IsRule
  <2> QED
    BY <2>1, TokensUnnamed DEF Needs, Range
<1>25. Needs(29, {"Number"})
  <2>1. Rules[29].rhs = <<"Number">>
    BY OperandRulesAt DEF IsRule
  <2> QED
    BY <2>1 DEF Needs, Range
<1>26. Needs(30, {"LVal"})
  <2>1. Rules[30].rhs = <<"LVal">>
    BY OperandRulesAt DEF IsRule
  <2> QED
    BY <2>1 DEF Needs, Range
<1>27. Needs(31, {})
  <2>1. Rules[31].rhs = <<"IDENT">>
    BY OperandRulesAt DEF IsRule
  <2> QED
    BY <2>1, TokensUnnamed DEF Needs, Range
<1>28. Needs(32, {})
  <2>1. Rules[32].rhs = <<"INT_CONST">>
    BY OperandRulesAt DEF IsRule
  <2> QED
    BY <2>1, TokensUnnamed DEF Needs, Range
<1>29. Needs(33, {"PrimaryExp"})
  <2>1. Rules[33].rhs = <<"PrimaryExp">>
    BY OperandRulesAt DEF IsRule
  <2> QED
    BY <2>1 DEF Needs, Range
<1>30. Needs(34, {"UnaryOp", "UnaryExp"})
  <2>1. Rules[34].rhs = <<"UnaryOp", "UnaryExp">>
    BY OperandRulesAt DEF IsRule
  <2> QED
    BY <2>1 DEF Needs, Range
<1>31. Needs(35, {})
  <2>1. Rules[35].rhs = <<"OPT">>
    BY OperandRulesAt DEF IsRule
  <2> QED
    BY <2>1, TokensUnnamed DEF Needs, Range
<1>32. Needs(36, {"UnaryExp"})
  <2>1. Rules[36].rhs = <<"UnaryExp">>
    BY ArithmeticRulesAt DEF IsRule
  <2> QED
    BY <2>1 DEF Needs, Range
<1>33. Needs(37, {"MulExp", "BinOp", "UnaryExp"})
  <2>1. Rules[37].rhs = <<"MulExp", "BinOp", "UnaryExp">>
    BY ArithmeticRulesAt DEF IsRule
  <2> QED
    BY <2>1 DEF Needs, Range
<1>34. Needs(38, {"MulExp"})
  <2>1. Rules[38].rhs = <<"MulExp">>
    BY ArithmeticRulesAt DEF IsRule
  <2> QED
    BY <2>1 DEF Needs, Range
<1>35. Needs(39, {"AddExp", "BinOp", "MulExp"})
  <2>1. Rules[39].rhs = <<"AddExp", "BinOp", "MulExp">>
    BY ArithmeticRulesAt DEF IsRule
  <2> QED
    BY <2>1 DEF Needs, Range
<1>36. Needs(40, {})
  <2>1. Rules[40].rhs = <<"OPT">>
    BY ArithmeticRulesAt DEF IsRule
  <2> QED
    BY <2>1, TokensUnnamed DEF Needs, Range
<1>37. Needs(41, {"AddExp"})
  <2>1. Rules[41].rhs = <<"AddExp">>
    BY RelationRulesAt DEF IsRule
  <2> QED
    BY <2>1 DEF Needs, Range
<1>38. Needs(42, {"RelExp", "CmpOp", "AddExp"})
  <2>1. Rules[42].rhs = <<"RelExp", "CmpOp", "AddExp">>
    BY RelationRulesAt DEF IsRule
  <2> QED
    BY <2>1 DEF Needs, Range
<1>39. Needs(43, {"RelExp"})
  <2>1. Rules[43].rhs = <<"RelExp">>
    BY RelationRulesAt DEF IsRule
  <2> QED
    BY <2>1 DEF Needs, Range
<1>40. Needs(44, {"EqExp", "CmpOp", "RelExp"})
  <2>1. Rules[44].rhs = <<"EqExp", "CmpOp", "RelExp">>
    BY RelationRulesAt DEF IsRule
  <2> QED
    BY <2>1 DEF Needs, Range
<1>41. Needs(45, {})
  <2>1. Rules[45].rhs = <<"OPT">>
    BY RelationRulesAt DEF IsRule
  <2> QED
    BY <2>1, TokensUnnamed DEF Needs, Range
<1>42. Needs(46, {"EqExp"})
  <2>1. Rules[46].rhs = <<"EqExp">>
    BY LogicRulesAt DEF IsRule
  <2> QED
    BY <2>1 DEF Needs, Range
<1>43. Needs(47, {"LAndExp", "EqExp"})
  <2>1. Rules[47].rhs = <<"LAndExp", "OPT", "EqExp">>
    BY LogicRulesAt DEF IsRule
  <2> QED
    BY <2>1, TokensUnnamed DEF Needs, Range
<1>44. Needs(48, {"LAndExp"})
  <2>1. Rules[48].rhs = <<"LAndExp">>
    BY LogicRulesAt DEF IsRule
  <2> QED
    BY <2>1 DEF Needs, Range
<1>45. Needs(49, {"LOrExp", "LAndExp"})
  <2>1. Rules[49].rhs = <<"LOrExp", "OPT", "LAndExp">>
    BY LogicRulesAt DEF IsRule
  <2> QED
    BY <2>1, TokensUnnamed DEF Needs, Range
<1> QED
  BY <1>1, <1>2, <1>3, <1>4, <1>5, <1>6, <1>7, <1>8, <1>9, <1>10, <1>11, <1>12, <1>13, <1>14, <1>15, <1>16, <1>17, <1>18, <1>19, <1>20, <1>21, <1>22, <1>23, <1>24, <1>25, <1>26, <1>27, <1>28, <1>29, <1>30, <1>31, <1>32, <1>33, <1>34, <1>35, <1>36, <1>37, <1>38, <1>39, <1>40, <1>41, <1>42, <1>43, <1>44, <1>45

\* A rule derives its left-hand side from what it needs.
LEMMA RuleDerives ==
    ASSUME NEW P, NEW N, NEW i \in 2..49, Needs(i, N), N \subseteq P
    PROVE  Rules[i].lhs \in Derivable(P)
<1> DEFINE n == Len(WrittenRules)
<1>1. n \in Nat /\ Len(Rules) = n + 1
  BY RulesShape
<1>2. DOMAIN WrittenRules = 1..n
  BY RulesShape
<1>3. \A k \in 1..n : Rules[1 + k] = WrittenRules[k]
  BY RulesShape
<1> HIDE DEF n
<1>4. n + 1 = 49
  BY <1>1, RuleNumbers
<1>5. n = 48
  BY <1>1, <1>4
<1>6. i - 1 \in 1..n /\ 1 + (i - 1) = i
  BY <1>5
<1>7. Rules[i] = WrittenRules[i-1] /\ i - 1 \in DOMAIN WrittenRules
  BY <1>2, <1>3, <1>6
<1>8. Rules[i] \in Range(WrittenRules)
  BY <1>7 DEF Range
<1> QED
  BY <1>8, NonterminalNames DEF Derivable, Needs

\* The rounds of the iteration that ends in Productive.
DerivedRounds(f) ==
    /\ f[0] = {}
    /\ \A k \in 1..Cardinality(Nonterminals) : f[k] = Derivable(f[k-1])
    /\ f[Cardinality(Nonterminals)] = Productive

\* Derivable gives nonterminals.
LEMMA DerivableNames == \A P : Derivable(P) \in SUBSET Names
<1> SUFFICES ASSUME NEW P, NEW rule \in Range(WrittenRules) PROVE rule.lhs \in Names
  BY DEF Derivable
<1>1. PICK i \in DOMAIN WrittenRules : rule = WrittenRules[i]
  BY DEF Range
<1> QED
  BY <1>1, NonterminalNames DEF Nonterminals

\* Productive is reached in these rounds.
LEMMA DerivedRoundsExist == \E f : DerivedRounds(f)
<1> DEFINE D == SUBSET Names
           step == [P \in D |-> Derivable(P)]
           n == Cardinality(Nonterminals)
           Rounds(f) == f = [k \in 0..n |-> IF k = 0 THEN {} ELSE UNION {Derivable(P) : P \in {f[k-1]}}]
<1>1. {} \in D /\ n \in Nat
  BY NonterminalFacts
<1>2. step \in [D -> D]
  BY DerivableNames
<1> HIDE DEF D, step, n
<1>3. PICK g : IsIteration(g, D, {}, step, n)
  BY <1>1, <1>2, IterationExists
<1>4. g \in [0..n -> D] /\ g[0] = {} /\ \A k \in 1..n : g[k] = step[g[k-1]]
  BY <1>3 DEF IsIteration
<1>5. Rounds(g)
  <2>1. ASSUME NEW k \in 0..n
        PROVE  g[k] = IF k = 0 THEN {} ELSE UNION {Derivable(P) : P \in {g[k-1]}}
    <3>1. CASE k = 0
      BY <1>4, <3>1
    <3>2. CASE k # 0
      <4>1. k \in 1..n /\ k - 1 \in 0..n /\ g[k-1] \in D
        BY <1>1, <1>4, <3>2
      <4>2. g[k] = Derivable(g[k-1])
        BY <1>4, <4>1 DEF step
      <4> QED
        BY <3>2, <4>2
    <3> QED
      BY <3>1, <3>2
  <2> QED
    BY <1>4, <2>1
<1> DEFINE round == CHOOSE f : Rounds(f)
<1>6. Rounds(round)
  BY <1>5
<1>7. Productive = round[n]
  BY DEF Productive, Iterate, n
<1> HIDE DEF round
<1>8. round[0] = {} /\ \A k \in 1..n : round[k] = Derivable(round[k-1])
  <2>1. round = [k \in 0..n |-> IF k = 0 THEN {} ELSE UNION {Derivable(P) : P \in {round[k-1]}}]
    BY <1>6
  <2>2. ASSUME NEW k \in 1..n PROVE round[k] = Derivable(round[k-1])
    <3>1. k \in 0..n /\ k # 0
      BY <1>1
    <3>2. round[k] = UNION {Derivable(P) : P \in {round[k-1]}}
      BY <2>1, <3>1
    <3> QED
      BY <3>2
  <2>3. 0 \in 0..n /\ round[0] = {}
    BY <1>1, <2>1
  <2> QED
    BY <2>2, <2>3
<1> QED
  BY <1>7, <1>8 DEF DerivedRounds, n

\* What k rounds derive.
Ground(P, k) ==
    /\ k >= 1 => {"FuncType", "BlockItems", "BlockItem", "BType", "ConstDefs", "VarDef",
                "LVal", "Number", "UnaryOp", "BinOp", "CmpOp"} \subseteq P
    /\ k >= 2 => {"Block", "PrimaryExp"} \subseteq P
    /\ k >= 3 => {"FuncDef", "UnaryExp"} \subseteq P
    /\ k >= 4 => {"CompUnit", "MulExp"} \subseteq P
    /\ k >= 5 => {"AddExp"} \subseteq P
    /\ k >= 6 => {"RelExp"} \subseteq P
    /\ k >= 7 => {"EqExp"} \subseteq P
    /\ k >= 8 => {"LAndExp"} \subseteq P
    /\ k >= 9 => {"LOrExp"} \subseteq P
    /\ k >= 10 => {"Exp"} \subseteq P
    /\ k >= 11 => {"ConstExp", "InitVal", "Stmt"} \subseteq P
    /\ k >= 12 => {"ConstInitVal"} \subseteq P
    /\ k >= 13 => {"ConstDef"} \subseteq P
    /\ k >= 14 => {"ConstDecl"} \subseteq P
    /\ k >= 15 => {"Decl"} \subseteq P

\* Each round derives the next nonterminals.
LEMMA GroundStep ==
    ASSUME NEW P, NEW k \in Nat, Ground(P, k)
    PROVE  Ground(Derivable(P), k + 1)
<1>1. ASSUME k + 1 >= 1
      PROVE  {"FuncType", "BlockItems", "BlockItem", "BType", "ConstDefs", "VarDef",
              "LVal", "Number", "UnaryOp", "BinOp", "CmpOp"} \subseteq Derivable(P)
  <2>2a. Needs(4, {}) /\ {} \subseteq P
    BY RuleNeeds
  <2>2b. Rules[4].lhs \in Derivable(P)
    BY <2>2a, RuleDerives
  <2>2. "FuncType" \in Derivable(P)
    BY <2>2b, ProgramRulesAt DEF IsRule
  <2>3a. Needs(6, {}) /\ {} \subseteq P
    BY RuleNeeds
  <2>3b. Rules[6].lhs \in Derivable(P)
    BY <2>3a, RuleDerives
  <2>3. "BlockItems" \in Derivable(P)
    BY <2>3b, ItemRulesAt DEF IsRule
  <2>4a. Needs(10, {}) /\ {} \subseteq P
    BY RuleNeeds
  <2>4b. Rules[10].lhs \in Derivable(P)
    BY <2>4a, RuleDerives
  <2>4. "BlockItem" \in Derivable(P)
    BY <2>4b, ItemRulesAt DEF IsRule
  <2>5a. Needs(14, {}) /\ {} \subseteq P
    BY RuleNeeds
  <2>5b. Rules[14].lhs \in Derivable(P)
    BY <2>5a, RuleDerives
  <2>5. "BType" \in Derivable(P)
    BY <2>5b, ConstRulesAt DEF IsRule
  <2>6a. Needs(15, {}) /\ {} \subseteq P
    BY RuleNeeds
  <2>6b. Rules[15].lhs \in Derivable(P)
    BY <2>6a, RuleDerives
  <2>6. "ConstDefs" \in Derivable(P)
    BY <2>6b, ConstRulesAt DEF IsRule
  <2>7a. Needs(22, {}) /\ {} \subseteq P
    BY RuleNeeds
  <2>7b. Rules[22].lhs \in Derivable(P)
    BY <2>7a, RuleDerives
  <2>7. "VarDef" \in Derivable(P)
    BY <2>7b, VarRulesAt DEF IsRule
  <2>8a. Needs(31, {}) /\ {} \subseteq P
    BY RuleNeeds
  <2>8b. Rules[31].lhs \in Derivable(P)
    BY <2>8a, RuleDerives
  <2>8. "LVal" \in Derivable(P)
    BY <2>8b, OperandRulesAt DEF IsRule
  <2>9a. Needs(32, {}) /\ {} \subseteq P
    BY RuleNeeds
  <2>9b. Rules[32].lhs \in Derivable(P)
    BY <2>9a, RuleDerives
  <2>9. "Number" \in Derivable(P)
    BY <2>9b, OperandRulesAt DEF IsRule
  <2>10a. Needs(35, {}) /\ {} \subseteq P
    BY RuleNeeds
  <2>10b. Rules[35].lhs \in Derivable(P)
    BY <2>10a, RuleDerives
  <2>10. "UnaryOp" \in Derivable(P)
    BY <2>10b, OperandRulesAt DEF IsRule
  <2>11a. Needs(40, {}) /\ {} \subseteq P
    BY RuleNeeds
  <2>11b. Rules[40].lhs \in Derivable(P)
    BY <2>11a, RuleDerives
  <2>11. "BinOp" \in Derivable(P)
    BY <2>11b, ArithmeticRulesAt DEF IsRule
  <2>12a. Needs(45, {}) /\ {} \subseteq P
    BY RuleNeeds
  <2>12b. Rules[45].lhs \in Derivable(P)
    BY <2>12a, RuleDerives
  <2>12. "CmpOp" \in Derivable(P)
    BY <2>12b, RelationRulesAt DEF IsRule
  <2> QED
    BY <2>2, <2>3, <2>4, <2>5, <2>6, <2>7, <2>8, <2>9, <2>10, <2>11, <2>12
<1>2. ASSUME k + 1 >= 2 PROVE {"Block", "PrimaryExp"} \subseteq Derivable(P)
  <2>1. k >= 1
    BY <1>2
  <2>2a. Needs(5, {"BlockItems"}) /\ {"BlockItems"} \subseteq P
    BY <2>1, RuleNeeds DEF Ground
  <2>2b. Rules[5].lhs \in Derivable(P)
    BY <2>2a, RuleDerives
  <2>2. "Block" \in Derivable(P)
    BY <2>2b, ProgramRulesAt DEF IsRule
  <2>3a. Needs(29, {"Number"}) /\ {"Number"} \subseteq P
    BY <2>1, RuleNeeds DEF Ground
  <2>3b. Rules[29].lhs \in Derivable(P)
    BY <2>3a, RuleDerives
  <2>3. "PrimaryExp" \in Derivable(P)
    BY <2>3b, OperandRulesAt DEF IsRule
  <2> QED
    BY <2>2, <2>3
<1>3. ASSUME k + 1 >= 3 PROVE {"FuncDef", "UnaryExp"} \subseteq Derivable(P)
  <2>1. k >= 2 /\ k >= 1
    BY <1>3
  <2>2a. Needs(3, {"FuncType", "Block"}) /\ {"FuncType", "Block"} \subseteq P
    BY <2>1, RuleNeeds DEF Ground
  <2>2b. Rules[3].lhs \in Derivable(P)
    BY <2>2a, RuleDerives
  <2>2. "FuncDef" \in Derivable(P)
    BY <2>2b, ProgramRulesAt DEF IsRule
  <2>3a. Needs(33, {"PrimaryExp"}) /\ {"PrimaryExp"} \subseteq P
    BY <2>1, RuleNeeds DEF Ground
  <2>3b. Rules[33].lhs \in Derivable(P)
    BY <2>3a, RuleDerives
  <2>3. "UnaryExp" \in Derivable(P)
    BY <2>3b, OperandRulesAt DEF IsRule
  <2> QED
    BY <2>2, <2>3
<1>4. ASSUME k + 1 >= 4 PROVE {"CompUnit", "MulExp"} \subseteq Derivable(P)
  <2>1. k >= 3
    BY <1>4
  <2>2a. Needs(2, {"FuncDef"}) /\ {"FuncDef"} \subseteq P
    BY <2>1, RuleNeeds DEF Ground
  <2>2b. Rules[2].lhs \in Derivable(P)
    BY <2>2a, RuleDerives
  <2>2. "CompUnit" \in Derivable(P)
    BY <2>2b, ProgramRulesAt DEF IsRule
  <2>3a. Needs(36, {"UnaryExp"}) /\ {"UnaryExp"} \subseteq P
    BY <2>1, RuleNeeds DEF Ground
  <2>3b. Rules[36].lhs \in Derivable(P)
    BY <2>3a, RuleDerives
  <2>3. "MulExp" \in Derivable(P)
    BY <2>3b, ArithmeticRulesAt DEF IsRule
  <2> QED
    BY <2>2, <2>3
<1>5. ASSUME k + 1 >= 5 PROVE {"AddExp"} \subseteq Derivable(P)
  <2>1. k >= 4
    BY <1>5
  <2>2a. Needs(38, {"MulExp"}) /\ {"MulExp"} \subseteq P
    BY <2>1, RuleNeeds DEF Ground
  <2>2b. Rules[38].lhs \in Derivable(P)
    BY <2>2a, RuleDerives
  <2>2. "AddExp" \in Derivable(P)
    BY <2>2b, ArithmeticRulesAt DEF IsRule
  <2> QED
    BY <2>2
<1>6. ASSUME k + 1 >= 6 PROVE {"RelExp"} \subseteq Derivable(P)
  <2>1. k >= 5
    BY <1>6
  <2>2a. Needs(41, {"AddExp"}) /\ {"AddExp"} \subseteq P
    BY <2>1, RuleNeeds DEF Ground
  <2>2b. Rules[41].lhs \in Derivable(P)
    BY <2>2a, RuleDerives
  <2>2. "RelExp" \in Derivable(P)
    BY <2>2b, RelationRulesAt DEF IsRule
  <2> QED
    BY <2>2
<1>7. ASSUME k + 1 >= 7 PROVE {"EqExp"} \subseteq Derivable(P)
  <2>1. k >= 6
    BY <1>7
  <2>2a. Needs(43, {"RelExp"}) /\ {"RelExp"} \subseteq P
    BY <2>1, RuleNeeds DEF Ground
  <2>2b. Rules[43].lhs \in Derivable(P)
    BY <2>2a, RuleDerives
  <2>2. "EqExp" \in Derivable(P)
    BY <2>2b, RelationRulesAt DEF IsRule
  <2> QED
    BY <2>2
<1>8. ASSUME k + 1 >= 8 PROVE {"LAndExp"} \subseteq Derivable(P)
  <2>1. k >= 7
    BY <1>8
  <2>2a. Needs(46, {"EqExp"}) /\ {"EqExp"} \subseteq P
    BY <2>1, RuleNeeds DEF Ground
  <2>2b. Rules[46].lhs \in Derivable(P)
    BY <2>2a, RuleDerives
  <2>2. "LAndExp" \in Derivable(P)
    BY <2>2b, LogicRulesAt DEF IsRule
  <2> QED
    BY <2>2
<1>9. ASSUME k + 1 >= 9 PROVE {"LOrExp"} \subseteq Derivable(P)
  <2>1. k >= 8
    BY <1>9
  <2>2a. Needs(48, {"LAndExp"}) /\ {"LAndExp"} \subseteq P
    BY <2>1, RuleNeeds DEF Ground
  <2>2b. Rules[48].lhs \in Derivable(P)
    BY <2>2a, RuleDerives
  <2>2. "LOrExp" \in Derivable(P)
    BY <2>2b, LogicRulesAt DEF IsRule
  <2> QED
    BY <2>2
<1>10. ASSUME k + 1 >= 10 PROVE {"Exp"} \subseteq Derivable(P)
  <2>1. k >= 9
    BY <1>10
  <2>2a. Needs(27, {"LOrExp"}) /\ {"LOrExp"} \subseteq P
    BY <2>1, RuleNeeds DEF Ground
  <2>2b. Rules[27].lhs \in Derivable(P)
    BY <2>2a, RuleDerives
  <2>2. "Exp" \in Derivable(P)
    BY <2>2b, StmtRulesAt DEF IsRule
  <2> QED
    BY <2>2
<1>11. ASSUME k + 1 >= 11 PROVE {"ConstExp", "InitVal", "Stmt"} \subseteq Derivable(P)
  <2>1. k >= 10 /\ k >= 1
    BY <1>11
  <2>2a. Needs(19, {"Exp"}) /\ {"Exp"} \subseteq P
    BY <2>1, RuleNeeds DEF Ground
  <2>2b. Rules[19].lhs \in Derivable(P)
    BY <2>2a, RuleDerives
  <2>2. "ConstExp" \in Derivable(P)
    BY <2>2b, ConstRulesAt DEF IsRule
  <2>3a. Needs(24, {"Exp"}) /\ {"Exp"} \subseteq P
    BY <2>1, RuleNeeds DEF Ground
  <2>3b. Rules[24].lhs \in Derivable(P)
    BY <2>3a, RuleDerives
  <2>3. "InitVal" \in Derivable(P)
    BY <2>3b, VarRulesAt DEF IsRule
  <2>4a. Needs(25, {"LVal", "Exp"}) /\ {"LVal", "Exp"} \subseteq P
    BY <2>1, RuleNeeds DEF Ground
  <2>4b. Rules[25].lhs \in Derivable(P)
    BY <2>4a, RuleDerives
  <2>4. "Stmt" \in Derivable(P)
    BY <2>4b, StmtRulesAt DEF IsRule
  <2> QED
    BY <2>2, <2>3, <2>4
<1>12. ASSUME k + 1 >= 12 PROVE {"ConstInitVal"} \subseteq Derivable(P)
  <2>1. k >= 11
    BY <1>12
  <2>2a. Needs(18, {"ConstExp"}) /\ {"ConstExp"} \subseteq P
    BY <2>1, RuleNeeds DEF Ground
  <2>2b. Rules[18].lhs \in Derivable(P)
    BY <2>2a, RuleDerives
  <2>2. "ConstInitVal" \in Derivable(P)
    BY <2>2b, ConstRulesAt DEF IsRule
  <2> QED
    BY <2>2
<1>13. ASSUME k + 1 >= 13 PROVE {"ConstDef"} \subseteq Derivable(P)
  <2>1. k >= 12
    BY <1>13
  <2>2a. Needs(17, {"ConstInitVal"}) /\ {"ConstInitVal"} \subseteq P
    BY <2>1, RuleNeeds DEF Ground
  <2>2b. Rules[17].lhs \in Derivable(P)
    BY <2>2a, RuleDerives
  <2>2. "ConstDef" \in Derivable(P)
    BY <2>2b, ConstRulesAt DEF IsRule
  <2> QED
    BY <2>2
<1>14. ASSUME k + 1 >= 14 PROVE {"ConstDecl"} \subseteq Derivable(P)
  <2>1. k >= 13 /\ k >= 1
    BY <1>14
  <2>2a. Needs(13, {"BType", "ConstDef", "ConstDefs"}) /\ {"BType", "ConstDef", "ConstDefs"} \subseteq P
    BY <2>1, RuleNeeds DEF Ground
  <2>2b. Rules[13].lhs \in Derivable(P)
    BY <2>2a, RuleDerives
  <2>2. "ConstDecl" \in Derivable(P)
    BY <2>2b, ConstRulesAt DEF IsRule
  <2> QED
    BY <2>2
<1>15. ASSUME k + 1 >= 15 PROVE {"Decl"} \subseteq Derivable(P)
  <2>1. k >= 14
    BY <1>15
  <2>2a. Needs(11, {"ConstDecl"}) /\ {"ConstDecl"} \subseteq P
    BY <2>1, RuleNeeds DEF Ground
  <2>2b. Rules[11].lhs \in Derivable(P)
    BY <2>2a, RuleDerives
  <2>2. "Decl" \in Derivable(P)
    BY <2>2b, ConstRulesAt DEF IsRule
  <2> QED
    BY <2>2
<1> QED
  BY <1>1, <1>2, <1>3, <1>4, <1>5, <1>6, <1>7, <1>8, <1>9, <1>10, <1>11, <1>12, <1>13, <1>14, <1>15 DEF Ground

\* There are as many rounds as it takes: one for each nonterminal.
LEMMA RoundsEnough == Cardinality(Nonterminals) \in Nat /\ Cardinality(Nonterminals) >= 15
<1> DEFINE f == <<"CompUnit", "FuncDef", "FuncType", "Block", "BlockItems", "BlockItem", "Decl",
                  "Stmt", "Exp", "PrimaryExp", "LVal", "Number", "UnaryExp", "UnaryOp", "MulExp">>
           n == 15
<1>1. /\ f[1] = "CompUnit" /\ f[2] = "FuncDef" /\ f[3] = "FuncType" /\ f[4] = "Block"
      /\ f[5] = "BlockItems" /\ f[6] = "BlockItem" /\ f[7] = "Decl" /\ f[8] = "Stmt"
      /\ f[9] = "Exp" /\ f[10] = "PrimaryExp" /\ f[11] = "LVal" /\ f[12] = "Number"
      /\ f[13] = "UnaryExp" /\ f[14] = "UnaryOp" /\ f[15] = "MulExp"
      /\ DOMAIN f = 1..15 /\ f = [k \in 1..15 |-> f[k]]
  OBVIOUS
<1> HIDE DEF f
<1>2. \A k \in 1..15 : f[k] \in Names
  BY <1>1 DEF Names
<1>3. ASSUME NEW k \in 1..15, NEW l \in 1..15, f[k] = f[l] PROVE k = l
  BY <1>1, <1>3
<1>4. f \in [1..15 -> Nonterminals]
  BY <1>1, <1>2, NonterminalNames
<1>5. f \in Injection(1..15, Nonterminals)
  BY <1>3, <1>4 DEF Injection, IsInjective
<1>6. IsFiniteSet(Nonterminals) /\ Cardinality(Nonterminals) \in Nat
  <2>1. IsFiniteSet(1..Len(WrittenRules))
    BY RulesShape, FS_Interval
  <2>2. IsFiniteSet(DOMAIN WrittenRules)
    BY <2>1, RulesShape
  <2> DEFINE g == [i \in DOMAIN WrittenRules |-> WrittenRules[i].lhs]
  <2>3. g \in Surjection(DOMAIN WrittenRules, Nonterminals)
    BY DEF Surjection, Nonterminals
  <2> QED
    BY <2>2, <2>3, FS_Surjection, FS_CardinalityType
<1>7. Cardinality(1..15) <= Cardinality(Nonterminals)
  BY <1>5, <1>6, FS_Injection
<1>8. Cardinality(1..15) = 15
  <2>1. \A b \in Nat : b >= 1 => Cardinality(1..b) = b
    BY FS_Interval
  <2>2. 15 \in Nat /\ 15 >= 1
    OBVIOUS
  <2> QED
    BY <2>1, <2>2
<1> QED
  BY <1>6, <1>7, <1>8

\* The nonterminals that a text can be derived from: all but those of variable
\* declarations, whose list has no last element.
LEMMA ProductiveNames == Productive = Names \ {"VarDecl", "VarDefs"}
<1> DEFINE n == Cardinality(Nonterminals)
           D == Names \ {"VarDecl", "VarDefs"}
<1>1. PICK f : DerivedRounds(f)
  BY DerivedRoundsExist
<1>2. n \in Nat /\ n >= 15
  BY RoundsEnough
<1>3. f[0] = {} /\ \A k \in 1..n : f[k] = Derivable(f[k-1])
  BY <1>1 DEF DerivedRounds
<1>4. f[n] = Productive
  BY <1>1 DEF DerivedRounds
<1> HIDE DEF n, D
<1>5. ASSUME NEW P, P \subseteq D PROVE Derivable(P) \subseteq D
  <2>1. ASSUME NEW rule \in Range(WrittenRules), Range(rule.rhs) \cap Names \subseteq D
        PROVE  rule.lhs # "VarDecl" /\ rule.lhs # "VarDefs"
    <3>1. PICK j \in 1..Len(WrittenRules) : rule = WrittenRules[j]
      BY RulesShape DEF Range
    <3>2. Rules[1 + j] = rule /\ 1 + j \in 2..Len(Rules)
      BY <3>1, RulesShape
    <3>3. 1 + j \in 2..49
      BY <3>2, RuleNumbers
    <3> DEFINE i == 1 + j
    <3>4. i \in 2..49 /\ Rules[i] = rule
      BY <3>2, <3>3
    <3> HIDE DEF i
    <3>5. NamedRule(rule.lhs, i)
      BY <3>4, RuleByLhs
    <3>6. Rules[20].rhs[3] = "VarDefs" /\ 3 \in DOMAIN Rules[20].rhs
      BY VarRulesAt DEF IsRule
    <3>7. Rules[21].rhs[3] = "VarDefs" /\ 3 \in DOMAIN Rules[21].rhs
      BY VarRulesAt DEF IsRule
    <3>8. "VarDefs" \in Range(Rules[20].rhs) /\ "VarDefs" \in Range(Rules[21].rhs)
      BY <3>6, <3>7 DEF Range
    <3>9. "VarDefs" \notin D /\ "VarDefs" \in Names
      BY DEF D, Names
    <3>10. i # 20 /\ i # 21
      BY <2>1, <3>4, <3>8, <3>9
    <3> QED
      BY <3>5, <3>10 DEF NamedRule
  <2>2. Derivable(P) \subseteq Names
    BY DerivableNames
  <2> QED
    BY <1>5, <2>1, <2>2, NonterminalNames DEF Derivable, D
<1> DEFINE S == {k \in Nat : k <= n => f[k] \subseteq D /\ Ground(f[k], k)}
<1>6. 0 \in S
  BY <1>3 DEF Ground
<1>7. ASSUME NEW k \in Nat, k \in S PROVE k + 1 \in S
  <2> SUFFICES ASSUME k + 1 <= n PROVE f[k+1] \subseteq D /\ Ground(f[k+1], k + 1)
    OBVIOUS
  <2>1. f[k] \subseteq D /\ Ground(f[k], k)
    BY <1>2, <1>7
  <2>2. f[k+1] = Derivable(f[k])
    <3>1. k + 1 \in 1..n /\ (k + 1) - 1 = k
      BY <1>2
    <3> QED
      BY <1>3, <3>1
  <2> QED
    BY <1>5, <2>1, <2>2, GroundStep
<1> HIDE DEF S
<1>8. n \in S
  BY <1>2, <1>6, <1>7, SetInduction
<1>9. Productive \subseteq D /\ Ground(Productive, n)
  BY <1>2, <1>4, <1>8 DEF S
<1>10. n >= 1 /\ n >= 2 /\ n >= 3 /\ n >= 4 /\ n >= 5 /\ n >= 6 /\ n >= 7 /\ n >= 8 /\ n >= 9
       /\ n >= 10 /\ n >= 11 /\ n >= 12 /\ n >= 13 /\ n >= 14 /\ n >= 15
  BY <1>2
<1>11. D \subseteq Productive
  BY <1>9, <1>10 DEF Ground, D, Names
<1> QED
  BY <1>9, <1>11 DEF D

\* So that the rule of VarDecl and what leads to it are dropped, and no other.
LEMMA UsefulRules ==
    /\ Useful \subseteq 1..49
    /\ \A i \in 1..49 : i \in Useful <=> i \notin {12, 20, 21}
<1>1. DOMAIN Rules = 1..49
  BY RulesShape, RuleNumbers
<1> DEFINE Fine(i) == (Range(Rules[i].rhs) \cup {Rules[i].lhs}) \cap Names \subseteq Productive
<1>2. ASSUME NEW i \in 1..49 PROVE i \in Useful <=> Fine(i)
  BY <1>1, NonterminalNames DEF Useful
<1>3. ASSUME NEW i, NEW N, Needs(i, N), N \subseteq Productive, Rules[i].lhs \in Productive
      PROVE  Fine(i)
  BY <1>3 DEF Needs
<1> HIDE DEF Fine
<1>4. Fine(2)
  <2>1. Needs(2, {"FuncDef"}) /\ {"FuncDef"} \subseteq Productive
    BY RuleNeeds, ProductiveNames DEF Names
  <2>2. Rules[2].lhs \in Productive
    BY ProgramRulesAt, ProductiveNames DEF IsRule, Names
  <2> QED
    BY <1>3, <2>1, <2>2
<1>5. Fine(3)
  <2>1. Needs(3, {"FuncType", "Block"}) /\ {"FuncType", "Block"} \subseteq Productive
    BY RuleNeeds, ProductiveNames DEF Names
  <2>2. Rules[3].lhs \in Productive
    BY ProgramRulesAt, ProductiveNames DEF IsRule, Names
  <2> QED
    BY <1>3, <2>1, <2>2
<1>6. Fine(4)
  <2>1. Needs(4, {}) /\ {} \subseteq Productive
    BY RuleNeeds, ProductiveNames DEF Names
  <2>2. Rules[4].lhs \in Productive
    BY ProgramRulesAt, ProductiveNames DEF IsRule, Names
  <2> QED
    BY <1>3, <2>1, <2>2
<1>7. Fine(5)
  <2>1. Needs(5, {"BlockItems"}) /\ {"BlockItems"} \subseteq Productive
    BY RuleNeeds, ProductiveNames DEF Names
  <2>2. Rules[5].lhs \in Productive
    BY ProgramRulesAt, ProductiveNames DEF IsRule, Names
  <2> QED
    BY <1>3, <2>1, <2>2
<1>8. Fine(6)
  <2>1. Needs(6, {}) /\ {} \subseteq Productive
    BY RuleNeeds, ProductiveNames DEF Names
  <2>2. Rules[6].lhs \in Productive
    BY ItemRulesAt, ProductiveNames DEF IsRule, Names
  <2> QED
    BY <1>3, <2>1, <2>2
<1>9. Fine(7)
  <2>1. Needs(7, {"BlockItem", "BlockItems"}) /\ {"BlockItem", "BlockItems"} \subseteq Productive
    BY RuleNeeds, ProductiveNames DEF Names
  <2>2. Rules[7].lhs \in Productive
    BY ItemRulesAt, ProductiveNames DEF IsRule, Names
  <2> QED
    BY <1>3, <2>1, <2>2
<1>10. Fine(8)
  <2>1. Needs(8, {"Decl"}) /\ {"Decl"} \subseteq Productive
    BY RuleNeeds, ProductiveNames DEF Names
  <2>2. Rules[8].lhs \in Productive
    BY ItemRulesAt, ProductiveNames DEF IsRule, Names
  <2> QED
    BY <1>3, <2>1, <2>2
<1>11. Fine(9)
  <2>1. Needs(9, {"Stmt"}) /\ {"Stmt"} \subseteq Productive
    BY RuleNeeds, ProductiveNames DEF Names
  <2>2. Rules[9].lhs \in Productive
    BY ItemRulesAt, ProductiveNames DEF IsRule, Names
  <2> QED
    BY <1>3, <2>1, <2>2
<1>12. Fine(10)
  <2>1. Needs(10, {}) /\ {} \subseteq Productive
    BY RuleNeeds, ProductiveNames DEF Names
  <2>2. Rules[10].lhs \in Productive
    BY ItemRulesAt, ProductiveNames DEF IsRule, Names
  <2> QED
    BY <1>3, <2>1, <2>2
<1>13. Fine(11)
  <2>1. Needs(11, {"ConstDecl"}) /\ {"ConstDecl"} \subseteq Productive
    BY RuleNeeds, ProductiveNames DEF Names
  <2>2. Rules[11].lhs \in Productive
    BY ConstRulesAt, ProductiveNames DEF IsRule, Names
  <2> QED
    BY <1>3, <2>1, <2>2
<1>14. Fine(13)
  <2>1. Needs(13, {"BType", "ConstDef", "ConstDefs"}) /\ {"BType", "ConstDef", "ConstDefs"} \subseteq Productive
    BY RuleNeeds, ProductiveNames DEF Names
  <2>2. Rules[13].lhs \in Productive
    BY ConstRulesAt, ProductiveNames DEF IsRule, Names
  <2> QED
    BY <1>3, <2>1, <2>2
<1>15. Fine(14)
  <2>1. Needs(14, {}) /\ {} \subseteq Productive
    BY RuleNeeds, ProductiveNames DEF Names
  <2>2. Rules[14].lhs \in Productive
    BY ConstRulesAt, ProductiveNames DEF IsRule, Names
  <2> QED
    BY <1>3, <2>1, <2>2
<1>16. Fine(15)
  <2>1. Needs(15, {}) /\ {} \subseteq Productive
    BY RuleNeeds, ProductiveNames DEF Names
  <2>2. Rules[15].lhs \in Productive
    BY ConstRulesAt, ProductiveNames DEF IsRule, Names
  <2> QED
    BY <1>3, <2>1, <2>2
<1>17. Fine(16)
  <2>1. Needs(16, {"ConstDef", "ConstDefs"}) /\ {"ConstDef", "ConstDefs"} \subseteq Productive
    BY RuleNeeds, ProductiveNames DEF Names
  <2>2. Rules[16].lhs \in Productive
    BY ConstRulesAt, ProductiveNames DEF IsRule, Names
  <2> QED
    BY <1>3, <2>1, <2>2
<1>18. Fine(17)
  <2>1. Needs(17, {"ConstInitVal"}) /\ {"ConstInitVal"} \subseteq Productive
    BY RuleNeeds, ProductiveNames DEF Names
  <2>2. Rules[17].lhs \in Productive
    BY ConstRulesAt, ProductiveNames DEF IsRule, Names
  <2> QED
    BY <1>3, <2>1, <2>2
<1>19. Fine(18)
  <2>1. Needs(18, {"ConstExp"}) /\ {"ConstExp"} \subseteq Productive
    BY RuleNeeds, ProductiveNames DEF Names
  <2>2. Rules[18].lhs \in Productive
    BY ConstRulesAt, ProductiveNames DEF IsRule, Names
  <2> QED
    BY <1>3, <2>1, <2>2
<1>20. Fine(19)
  <2>1. Needs(19, {"Exp"}) /\ {"Exp"} \subseteq Productive
    BY RuleNeeds, ProductiveNames DEF Names
  <2>2. Rules[19].lhs \in Productive
    BY ConstRulesAt, ProductiveNames DEF IsRule, Names
  <2> QED
    BY <1>3, <2>1, <2>2
<1>21. Fine(22)
  <2>1. Needs(22, {}) /\ {} \subseteq Productive
    BY RuleNeeds, ProductiveNames DEF Names
  <2>2. Rules[22].lhs \in Productive
    BY VarRulesAt, ProductiveNames DEF IsRule, Names
  <2> QED
    BY <1>3, <2>1, <2>2
<1>22. Fine(23)
  <2>1. Needs(23, {"InitVal"}) /\ {"InitVal"} \subseteq Productive
    BY RuleNeeds, ProductiveNames DEF Names
  <2>2. Rules[23].lhs \in Productive
    BY VarRulesAt, ProductiveNames DEF IsRule, Names
  <2> QED
    BY <1>3, <2>1, <2>2
<1>23. Fine(24)
  <2>1. Needs(24, {"Exp"}) /\ {"Exp"} \subseteq Productive
    BY RuleNeeds, ProductiveNames DEF Names
  <2>2. Rules[24].lhs \in Productive
    BY VarRulesAt, ProductiveNames DEF IsRule, Names
  <2> QED
    BY <1>3, <2>1, <2>2
<1>24. Fine(25)
  <2>1. Needs(25, {"LVal", "Exp"}) /\ {"LVal", "Exp"} \subseteq Productive
    BY RuleNeeds, ProductiveNames DEF Names
  <2>2. Rules[25].lhs \in Productive
    BY StmtRulesAt, ProductiveNames DEF IsRule, Names
  <2> QED
    BY <1>3, <2>1, <2>2
<1>25. Fine(26)
  <2>1. Needs(26, {"Exp"}) /\ {"Exp"} \subseteq Productive
    BY RuleNeeds, ProductiveNames DEF Names
  <2>2. Rules[26].lhs \in Productive
    BY StmtRulesAt, ProductiveNames DEF IsRule, Names
  <2> QED
    BY <1>3, <2>1, <2>2
<1>26. Fine(27)
  <2>1. Needs(27, {"LOrExp"}) /\ {"LOrExp"} \subseteq Productive
    BY RuleNeeds, ProductiveNames DEF Names
  <2>2. Rules[27].lhs \in Productive
    BY StmtRulesAt, ProductiveNames DEF IsRule, Names
  <2> QED
    BY <1>3, <2>1, <2>2
<1>27. Fine(28)
  <2>1. Needs(28, {"Exp"}) /\ {"Exp"} \subseteq Productive
    BY RuleNeeds, ProductiveNames DEF Names
  <2>2. Rules[28].lhs \in Productive
    BY OperandRulesAt, ProductiveNames DEF IsRule, Names
  <2> QED
    BY <1>3, <2>1, <2>2
<1>28. Fine(29)
  <2>1. Needs(29, {"Number"}) /\ {"Number"} \subseteq Productive
    BY RuleNeeds, ProductiveNames DEF Names
  <2>2. Rules[29].lhs \in Productive
    BY OperandRulesAt, ProductiveNames DEF IsRule, Names
  <2> QED
    BY <1>3, <2>1, <2>2
<1>29. Fine(30)
  <2>1. Needs(30, {"LVal"}) /\ {"LVal"} \subseteq Productive
    BY RuleNeeds, ProductiveNames DEF Names
  <2>2. Rules[30].lhs \in Productive
    BY OperandRulesAt, ProductiveNames DEF IsRule, Names
  <2> QED
    BY <1>3, <2>1, <2>2
<1>30. Fine(31)
  <2>1. Needs(31, {}) /\ {} \subseteq Productive
    BY RuleNeeds, ProductiveNames DEF Names
  <2>2. Rules[31].lhs \in Productive
    BY OperandRulesAt, ProductiveNames DEF IsRule, Names
  <2> QED
    BY <1>3, <2>1, <2>2
<1>31. Fine(32)
  <2>1. Needs(32, {}) /\ {} \subseteq Productive
    BY RuleNeeds, ProductiveNames DEF Names
  <2>2. Rules[32].lhs \in Productive
    BY OperandRulesAt, ProductiveNames DEF IsRule, Names
  <2> QED
    BY <1>3, <2>1, <2>2
<1>32. Fine(33)
  <2>1. Needs(33, {"PrimaryExp"}) /\ {"PrimaryExp"} \subseteq Productive
    BY RuleNeeds, ProductiveNames DEF Names
  <2>2. Rules[33].lhs \in Productive
    BY OperandRulesAt, ProductiveNames DEF IsRule, Names
  <2> QED
    BY <1>3, <2>1, <2>2
<1>33. Fine(34)
  <2>1. Needs(34, {"UnaryOp", "UnaryExp"}) /\ {"UnaryOp", "UnaryExp"} \subseteq Productive
    BY RuleNeeds, ProductiveNames DEF Names
  <2>2. Rules[34].lhs \in Productive
    BY OperandRulesAt, ProductiveNames DEF IsRule, Names
  <2> QED
    BY <1>3, <2>1, <2>2
<1>34. Fine(35)
  <2>1. Needs(35, {}) /\ {} \subseteq Productive
    BY RuleNeeds, ProductiveNames DEF Names
  <2>2. Rules[35].lhs \in Productive
    BY OperandRulesAt, ProductiveNames DEF IsRule, Names
  <2> QED
    BY <1>3, <2>1, <2>2
<1>35. Fine(36)
  <2>1. Needs(36, {"UnaryExp"}) /\ {"UnaryExp"} \subseteq Productive
    BY RuleNeeds, ProductiveNames DEF Names
  <2>2. Rules[36].lhs \in Productive
    BY ArithmeticRulesAt, ProductiveNames DEF IsRule, Names
  <2> QED
    BY <1>3, <2>1, <2>2
<1>36. Fine(37)
  <2>1. Needs(37, {"MulExp", "BinOp", "UnaryExp"}) /\ {"MulExp", "BinOp", "UnaryExp"} \subseteq Productive
    BY RuleNeeds, ProductiveNames DEF Names
  <2>2. Rules[37].lhs \in Productive
    BY ArithmeticRulesAt, ProductiveNames DEF IsRule, Names
  <2> QED
    BY <1>3, <2>1, <2>2
<1>37. Fine(38)
  <2>1. Needs(38, {"MulExp"}) /\ {"MulExp"} \subseteq Productive
    BY RuleNeeds, ProductiveNames DEF Names
  <2>2. Rules[38].lhs \in Productive
    BY ArithmeticRulesAt, ProductiveNames DEF IsRule, Names
  <2> QED
    BY <1>3, <2>1, <2>2
<1>38. Fine(39)
  <2>1. Needs(39, {"AddExp", "BinOp", "MulExp"}) /\ {"AddExp", "BinOp", "MulExp"} \subseteq Productive
    BY RuleNeeds, ProductiveNames DEF Names
  <2>2. Rules[39].lhs \in Productive
    BY ArithmeticRulesAt, ProductiveNames DEF IsRule, Names
  <2> QED
    BY <1>3, <2>1, <2>2
<1>39. Fine(40)
  <2>1. Needs(40, {}) /\ {} \subseteq Productive
    BY RuleNeeds, ProductiveNames DEF Names
  <2>2. Rules[40].lhs \in Productive
    BY ArithmeticRulesAt, ProductiveNames DEF IsRule, Names
  <2> QED
    BY <1>3, <2>1, <2>2
<1>40. Fine(41)
  <2>1. Needs(41, {"AddExp"}) /\ {"AddExp"} \subseteq Productive
    BY RuleNeeds, ProductiveNames DEF Names
  <2>2. Rules[41].lhs \in Productive
    BY RelationRulesAt, ProductiveNames DEF IsRule, Names
  <2> QED
    BY <1>3, <2>1, <2>2
<1>41. Fine(42)
  <2>1. Needs(42, {"RelExp", "CmpOp", "AddExp"}) /\ {"RelExp", "CmpOp", "AddExp"} \subseteq Productive
    BY RuleNeeds, ProductiveNames DEF Names
  <2>2. Rules[42].lhs \in Productive
    BY RelationRulesAt, ProductiveNames DEF IsRule, Names
  <2> QED
    BY <1>3, <2>1, <2>2
<1>42. Fine(43)
  <2>1. Needs(43, {"RelExp"}) /\ {"RelExp"} \subseteq Productive
    BY RuleNeeds, ProductiveNames DEF Names
  <2>2. Rules[43].lhs \in Productive
    BY RelationRulesAt, ProductiveNames DEF IsRule, Names
  <2> QED
    BY <1>3, <2>1, <2>2
<1>43. Fine(44)
  <2>1. Needs(44, {"EqExp", "CmpOp", "RelExp"}) /\ {"EqExp", "CmpOp", "RelExp"} \subseteq Productive
    BY RuleNeeds, ProductiveNames DEF Names
  <2>2. Rules[44].lhs \in Productive
    BY RelationRulesAt, ProductiveNames DEF IsRule, Names
  <2> QED
    BY <1>3, <2>1, <2>2
<1>44. Fine(45)
  <2>1. Needs(45, {}) /\ {} \subseteq Productive
    BY RuleNeeds, ProductiveNames DEF Names
  <2>2. Rules[45].lhs \in Productive
    BY RelationRulesAt, ProductiveNames DEF IsRule, Names
  <2> QED
    BY <1>3, <2>1, <2>2
<1>45. Fine(46)
  <2>1. Needs(46, {"EqExp"}) /\ {"EqExp"} \subseteq Productive
    BY RuleNeeds, ProductiveNames DEF Names
  <2>2. Rules[46].lhs \in Productive
    BY LogicRulesAt, ProductiveNames DEF IsRule, Names
  <2> QED
    BY <1>3, <2>1, <2>2
<1>46. Fine(47)
  <2>1. Needs(47, {"LAndExp", "EqExp"}) /\ {"LAndExp", "EqExp"} \subseteq Productive
    BY RuleNeeds, ProductiveNames DEF Names
  <2>2. Rules[47].lhs \in Productive
    BY LogicRulesAt, ProductiveNames DEF IsRule, Names
  <2> QED
    BY <1>3, <2>1, <2>2
<1>47. Fine(48)
  <2>1. Needs(48, {"LAndExp"}) /\ {"LAndExp"} \subseteq Productive
    BY RuleNeeds, ProductiveNames DEF Names
  <2>2. Rules[48].lhs \in Productive
    BY LogicRulesAt, ProductiveNames DEF IsRule, Names
  <2> QED
    BY <1>3, <2>1, <2>2
<1>48. Fine(49)
  <2>1. Needs(49, {"LOrExp", "LAndExp"}) /\ {"LOrExp", "LAndExp"} \subseteq Productive
    BY RuleNeeds, ProductiveNames DEF Names
  <2>2. Rules[49].lhs \in Productive
    BY LogicRulesAt, ProductiveNames DEF IsRule, Names
  <2> QED
    BY <1>3, <2>1, <2>2
<1>70. Fine(1)
  <2>1. Rules[1] = Rule("$accept", <<"CompUnit", "$end">>, "", "", <<1>>, 0)
    BY RulesOrderly
  <2> DEFINE r == Rule("$accept", <<"CompUnit", "$end">>, "", "", <<1>>, 0)
  <2>5. r.lhs = "$accept" /\ r.rhs = <<"CompUnit", "$end">>
    BY DEF Rule
  <2> HIDE DEF r
  <2>2. Rules[1].lhs = "$accept" /\ Rules[1].rhs = <<"CompUnit", "$end">>
    BY <2>1, <2>5 DEF r
  <2>3. Range(Rules[1].rhs) = {"CompUnit", "$end"}
    BY <2>2 DEF Range
  <2>4. "CompUnit" \in Productive /\ "$end" \notin Names /\ "$accept" \notin Names
    BY ProductiveNames DEF Names
  <2> QED
    BY <2>2, <2>3, <2>4 DEF Fine
<1>71. ~Fine(12) /\ ~Fine(20) /\ ~Fine(21)
  <2>1. "VarDecl" \in Range(Rules[12].rhs)
    <3>1. Rules[12].rhs = <<"VarDecl">>
      BY ConstRulesAt DEF IsRule
    <3> QED
      BY <3>1 DEF Range
  <2>2. Rules[20].lhs = "VarDecl" /\ Rules[21].lhs = "VarDefs"
    BY VarRulesAt DEF IsRule
  <2>3. {"VarDecl", "VarDefs"} \subseteq Names \ Productive
    BY ProductiveNames DEF Names
  <2> QED
    BY <2>1, <2>2, <2>3 DEF Fine
<1>72. ASSUME NEW i \in 1..10 PROVE Fine(i) <=> i \notin {12, 20, 21}
  <2>1. i = 1 \/ i = 2 \/ i = 3 \/ i = 4 \/ i = 5 \/ i = 6 \/ i = 7 \/ i = 8 \/ i = 9 \/ i = 10
    OBVIOUS
  <2> QED
    BY <2>1, <1>4, <1>5, <1>6, <1>7, <1>8, <1>9, <1>10, <1>11, <1>12, <1>70, <1>71
<1>73. ASSUME NEW i \in 11..19 PROVE Fine(i) <=> i \notin {12, 20, 21}
  <2>1. i = 11 \/ i = 12 \/ i = 13 \/ i = 14 \/ i = 15 \/ i = 16 \/ i = 17 \/ i = 18 \/ i = 19
    OBVIOUS
  <2> QED
    BY <2>1, <1>13, <1>14, <1>15, <1>16, <1>17, <1>18, <1>19, <1>20, <1>71
<1>74. ASSUME NEW i \in 20..24 PROVE Fine(i) <=> i \notin {12, 20, 21}
  <2>1. i = 20 \/ i = 21 \/ i = 22 \/ i = 23 \/ i = 24
    OBVIOUS
  <2> QED
    BY <2>1, <1>21, <1>22, <1>23, <1>71
<1>75. ASSUME NEW i \in 25..35 PROVE Fine(i) <=> i \notin {12, 20, 21}
  <2>1. i = 25 \/ i = 26 \/ i = 27 \/ i = 28 \/ i = 29 \/ i = 30 \/ i = 31 \/ i = 32 \/ i = 33 \/ i = 34 \/ i = 35
    OBVIOUS
  <2> QED
    BY <2>1, <1>24, <1>25, <1>26, <1>27, <1>28, <1>29, <1>30, <1>31, <1>32, <1>33, <1>34, <1>71
<1>76. ASSUME NEW i \in 36..49 PROVE Fine(i) <=> i \notin {12, 20, 21}
  <2>1. i = 36 \/ i = 37 \/ i = 38 \/ i = 39 \/ i = 40 \/ i = 41 \/ i = 42 \/ i = 43 \/ i = 44 \/ i = 45 \/ i = 46 \/ i = 47 \/ i = 48 \/ i = 49
    OBVIOUS
  <2> QED
    BY <2>1, <1>35, <1>36, <1>37, <1>38, <1>39, <1>40, <1>41, <1>42, <1>43, <1>44, <1>45, <1>46, <1>47, <1>48, <1>71
<1>80. \A i \in 1..49 : i \in 1..10 \/ i \in 11..19 \/ i \in 20..24 \/ i \in 25..35 \/ i \in 36..49
  OBVIOUS
<1>81. ASSUME NEW i \in 1..49 PROVE i \in Useful <=> i \notin {12, 20, 21}
  BY <1>2, <1>72, <1>73, <1>74, <1>75, <1>76, <1>80
<1>82. Useful \subseteq 1..49
  BY <1>1 DEF Useful
<1> QED
  BY <1>81, <1>82

-----------------------------------------------------------------------------
(***************************************************************************)
(* The rules that a nonterminal may begin with, and the items of a state.  *)
(***************************************************************************)
\* The rule that ends the program.
LEMMA AcceptRule == IsRule(1, "$accept", <<"CompUnit", "$end">>)
<1> DEFINE r == Rule("$accept", <<"CompUnit", "$end">>, "", "", <<1>>, 0)
<1>1. r.lhs = "$accept" /\ r.rhs = <<"CompUnit", "$end">>
  BY DEF Rule
<1> HIDE DEF r
<1>2. Rules[1] = r
  BY RulesOrderly DEF r
<1> QED
  BY <1>1, <1>2 DEF IsRule

\* The first symbol of rule i is X.
FirstIs(i, X) == Len(Rules[i].rhs) > 0 /\ Rules[i].rhs[1] = X

\* The first symbols of the rules.
LEMMA RuleFirsts ==
    /\ Rules[6].rhs = <<>> /\ Rules[10].rhs = <<>> /\ Rules[15].rhs = <<>>
    /\ FirstIs(1, "CompUnit")
    /\ FirstIs(2, "FuncDef")
    /\ FirstIs(3, "FuncType")
    /\ FirstIs(4, "INT")
    /\ FirstIs(5, OpenBlock)
    /\ FirstIs(7, "BlockItem")
    /\ FirstIs(8, "Decl")
    /\ FirstIs(9, "Stmt")
    /\ FirstIs(11, "ConstDecl")
    /\ FirstIs(12, "VarDecl")
    /\ FirstIs(13, "CONST")
    /\ FirstIs(14, "INT")
    /\ FirstIs(16, StrComma)
    /\ FirstIs(17, "IDENT")
    /\ FirstIs(18, "ConstExp")
    /\ FirstIs(19, "Exp")
    /\ FirstIs(20, "BType")
    /\ FirstIs(21, StrComma)
    /\ FirstIs(22, "IDENT")
    /\ FirstIs(23, "IDENT")
    /\ FirstIs(24, "Exp")
    /\ FirstIs(25, "LVal")
    /\ FirstIs(26, "RETURN")
    /\ FirstIs(27, "LOrExp")
    /\ FirstIs(28, "(")
    /\ FirstIs(29, "Number")
    /\ FirstIs(30, "LVal")
    /\ FirstIs(31, "IDENT")
    /\ FirstIs(32, "INT_CONST")
    /\ FirstIs(33, "PrimaryExp")
    /\ FirstIs(34, "UnaryOp")
    /\ FirstIs(35, "OPT")
    /\ FirstIs(36, "UnaryExp")
    /\ FirstIs(37, "MulExp")
    /\ FirstIs(38, "MulExp")
    /\ FirstIs(39, "AddExp")
    /\ FirstIs(40, "OPT")
    /\ FirstIs(41, "AddExp")
    /\ FirstIs(42, "RelExp")
    /\ FirstIs(43, "RelExp")
    /\ FirstIs(44, "EqExp")
    /\ FirstIs(45, "OPT")
    /\ FirstIs(46, "EqExp")
    /\ FirstIs(47, "LAndExp")
    /\ FirstIs(48, "LAndExp")
    /\ FirstIs(49, "LOrExp")
<1>1. Rules[6].rhs = <<>> /\ Rules[10].rhs = <<>> /\ Rules[15].rhs = <<>>
  BY ItemRulesAt, ConstRulesAt DEF IsRule
<1>2. FirstIs(1, "CompUnit")
  BY AcceptRule DEF IsRule, FirstIs
<1>3. /\ FirstIs(2, "FuncDef")
      /\ FirstIs(3, "FuncType")
      /\ FirstIs(4, "INT")
      /\ FirstIs(5, OpenBlock)
  <2>2. Rules[2].rhs = <<"FuncDef">>
    BY ProgramRulesAt DEF IsRule
  <2>3. Rules[3].rhs = <<"FuncType", "IDENT", "(", ")", "Block">>
    BY ProgramRulesAt DEF IsRule
  <2>4. Rules[4].rhs = <<"INT">>
    BY ProgramRulesAt DEF IsRule
  <2>5. Rules[5].rhs = <<OpenBlock, "BlockItems", CloseBlock>>
    BY ProgramRulesAt DEF IsRule
  <2> QED
    BY <2>2, <2>3, <2>4, <2>5 DEF FirstIs
<1>4. /\ FirstIs(7, "BlockItem")
      /\ FirstIs(8, "Decl")
      /\ FirstIs(9, "Stmt")
  <2>7. Rules[7].rhs = <<"BlockItem", "BlockItems">>
    BY ItemRulesAt DEF IsRule
  <2>8. Rules[8].rhs = <<"Decl">>
    BY ItemRulesAt DEF IsRule
  <2>9. Rules[9].rhs = <<"Stmt">>
    BY ItemRulesAt DEF IsRule
  <2> QED
    BY <2>7, <2>8, <2>9 DEF FirstIs
<1>5. /\ FirstIs(11, "ConstDecl")
      /\ FirstIs(12, "VarDecl")
      /\ FirstIs(13, "CONST")
      /\ FirstIs(14, "INT")
      /\ FirstIs(16, StrComma)
      /\ FirstIs(17, "IDENT")
      /\ FirstIs(18, "ConstExp")
      /\ FirstIs(19, "Exp")
  <2>11. Rules[11].rhs = <<"ConstDecl">>
    BY ConstRulesAt DEF IsRule
  <2>12. Rules[12].rhs = <<"VarDecl">>
    BY ConstRulesAt DEF IsRule
  <2>13. Rules[13].rhs = <<"CONST", "BType", "ConstDef", "ConstDefs", StrSemicolon>>
    BY ConstRulesAt DEF IsRule
  <2>14. Rules[14].rhs = <<"INT">>
    BY ConstRulesAt DEF IsRule
  <2>16. Rules[16].rhs = <<StrComma, "ConstDef", "ConstDefs">>
    BY ConstRulesAt DEF IsRule
  <2>17. Rules[17].rhs = <<"IDENT", "str=", "ConstInitVal">>
    BY ConstRulesAt DEF IsRule
  <2>18. Rules[18].rhs = <<"ConstExp">>
    BY ConstRulesAt DEF IsRule
  <2>19. Rules[19].rhs = <<"Exp">>
    BY ConstRulesAt DEF IsRule
  <2> QED
    BY <2>11, <2>12, <2>13, <2>14, <2>16, <2>17, <2>18, <2>19 DEF FirstIs
<1>6. /\ FirstIs(20, "BType")
      /\ FirstIs(21, StrComma)
      /\ FirstIs(22, "IDENT")
      /\ FirstIs(23, "IDENT")
      /\ FirstIs(24, "Exp")
  <2>20. Rules[20].rhs = <<"BType", "VarDef", "VarDefs", StrSemicolon>>
    BY VarRulesAt DEF IsRule
  <2>21. Rules[21].rhs = <<StrComma, "VarDef", "VarDefs">>
    BY VarRulesAt DEF IsRule
  <2>22. Rules[22].rhs = <<"IDENT">>
    BY VarRulesAt DEF IsRule
  <2>23. Rules[23].rhs = <<"IDENT", "str=", "InitVal">>
    BY VarRulesAt DEF IsRule
  <2>24. Rules[24].rhs = <<"Exp">>
    BY VarRulesAt DEF IsRule
  <2> QED
    BY <2>20, <2>21, <2>22, <2>23, <2>24 DEF FirstIs
<1>7. /\ FirstIs(25, "LVal")
      /\ FirstIs(26, "RETURN")
      /\ FirstIs(27, "LOrExp")
  <2>25. Rules[25].rhs = <<"LVal", "str=", "Exp", StrSemicolon>>
    BY StmtRulesAt DEF IsRule
  <2>26. Rules[26].rhs = <<"RETURN", "Exp", Semicolon>>
    BY StmtRulesAt DEF IsRule
  <2>27. Rules[27].rhs = <<"LOrExp">>
    BY StmtRulesAt DEF IsRule
  <2> QED
    BY <2>25, <2>26, <2>27 DEF FirstIs
<1>8. /\ FirstIs(28, "(")
      /\ FirstIs(29, "Number")
      /\ FirstIs(30, "LVal")
      /\ FirstIs(31, "IDENT")
      /\ FirstIs(32, "INT_CONST")
      /\ FirstIs(33, "PrimaryExp")
      /\ FirstIs(34, "UnaryOp")
      /\ FirstIs(35, "OPT")
  <2>28. Rules[28].rhs = <<"(", "Exp", ")">>
    BY OperandRulesAt DEF IsRule
  <2>29. Rules[29].rhs = <<"Number">>
    BY OperandRulesAt DEF IsRule
  <2>30. Rules[30].rhs = <<"LVal">>
    BY OperandRulesAt DEF IsRule
  <2>31. Rules[31].rhs = <<"IDENT">>
    BY OperandRulesAt DEF IsRule
  <2>32. Rules[32].rhs = <<"INT_CONST">>
    BY OperandRulesAt DEF IsRule
  <2>33. Rules[33].rhs = <<"PrimaryExp">>
    BY OperandRulesAt DEF IsRule
  <2>34. Rules[34].rhs = <<"UnaryOp", "UnaryExp">>
    BY OperandRulesAt DEF IsRule
  <2>35. Rules[35].rhs = <<"OPT">>
    BY OperandRulesAt DEF IsRule
  <2> QED
    BY <2>28, <2>29, <2>30, <2>31, <2>32, <2>33, <2>34, <2>35 DEF FirstIs
<1>9. /\ FirstIs(36, "UnaryExp")
      /\ FirstIs(37, "MulExp")
      /\ FirstIs(38, "MulExp")
      /\ FirstIs(39, "AddExp")
      /\ FirstIs(40, "OPT")
  <2>36. Rules[36].rhs = <<"UnaryExp">>
    BY ArithmeticRulesAt DEF IsRule
  <2>37. Rules[37].rhs = <<"MulExp", "BinOp", "UnaryExp">>
    BY ArithmeticRulesAt DEF IsRule
  <2>38. Rules[38].rhs = <<"MulExp">>
    BY ArithmeticRulesAt DEF IsRule
  <2>39. Rules[39].rhs = <<"AddExp", "BinOp", "MulExp">>
    BY ArithmeticRulesAt DEF IsRule
  <2>40. Rules[40].rhs = <<"OPT">>
    BY ArithmeticRulesAt DEF IsRule
  <2> QED
    BY <2>36, <2>37, <2>38, <2>39, <2>40 DEF FirstIs
<1>10. /\ FirstIs(41, "AddExp")
       /\ FirstIs(42, "RelExp")
       /\ FirstIs(43, "RelExp")
       /\ FirstIs(44, "EqExp")
       /\ FirstIs(45, "OPT")
  <2>41. Rules[41].rhs = <<"AddExp">>
    BY RelationRulesAt DEF IsRule
  <2>42. Rules[42].rhs = <<"RelExp", "CmpOp", "AddExp">>
    BY RelationRulesAt DEF IsRule
  <2>43. Rules[43].rhs = <<"RelExp">>
    BY RelationRulesAt DEF IsRule
  <2>44. Rules[44].rhs = <<"EqExp", "CmpOp", "RelExp">>
    BY RelationRulesAt DEF IsRule
  <2>45. Rules[45].rhs = <<"OPT">>
    BY RelationRulesAt DEF IsRule
  <2> QED
    BY <2>41, <2>42, <2>43, <2>44, <2>45 DEF FirstIs
<1>11. /\ FirstIs(46, "EqExp")
       /\ FirstIs(47, "LAndExp")
       /\ FirstIs(48, "LAndExp")
       /\ FirstIs(49, "LOrExp")
  <2>46. Rules[46].rhs = <<"EqExp">>
    BY LogicRulesAt DEF IsRule
  <2>47. Rules[47].rhs = <<"LAndExp", "OPT", "EqExp">>
    BY LogicRulesAt DEF IsRule
  <2>48. Rules[48].rhs = <<"LAndExp">>
    BY LogicRulesAt DEF IsRule
  <2>49. Rules[49].rhs = <<"LOrExp", "OPT", "LAndExp">>
    BY LogicRulesAt DEF IsRule
  <2> QED
    BY <2>46, <2>47, <2>48, <2>49 DEF FirstIs
<1> QED
  BY <1>1, <1>2, <1>3, <1>4, <1>5, <1>6, <1>7, <1>8, <1>9, <1>10, <1>11

\* The rules that an expansion of A may begin with.
Begun(A) == {i \in Useful : <<A, Rules[i].lhs>> \in LeftCorners}

\* These are the pairs of Predicted.
LEMMA PredictedBegun == \A A, i : <<A, i>> \in Predicted <=> i \in Begun(A)
<1> SUFFICES ASSUME NEW A, NEW i PROVE <<A, i>> \in Predicted <=> i \in Begun(A)
  OBVIOUS
<1>1. ASSUME <<A, i>> \in Predicted PROVE i \in Begun(A)
  <2>1. PICK p \in LeftCorners \X Useful : p[1][2] = Rules[p[2]].lhs /\ <<A, i>> = <<p[1][1], p[2]>>
    BY <1>1 DEF Predicted
  <2>2. p[1] \in LeftCorners /\ p[2] \in Useful /\ p[1][1] = A /\ p[2] = i
    BY <2>1
  <2>3. p[1] = <<A, Rules[i].lhs>>
    BY <2>1, <2>2, LeftCornersStep
  <2> QED
    BY <2>2, <2>3 DEF Begun
<1>2. ASSUME i \in Begun(A) PROVE <<A, i>> \in Predicted
  <2> DEFINE p == <<<<A, Rules[i].lhs>>, i>>
  <2>1. p \in LeftCorners \X Useful /\ p[1][2] = Rules[p[2]].lhs /\ <<A, i>> = <<p[1][1], p[2]>>
    BY <1>2 DEF Begun
  <2> QED
    BY <2>1 DEF Predicted
<1> QED
  BY <1>1, <1>2

\* A set that has A and is closed under the first symbols of the useful rules has
\* whatever A may begin with.
LEMMA CornersIn ==
    ASSUME NEW A, NEW S, A \in S,
           \A i \in Useful : Begins(Rules[i].lhs, Rules[i]) /\ Rules[i].lhs \in S
                                => Rules[i].rhs[1] \in S
    PROVE  \A B : <<A, B>> \in LeftCorners => B \in S
<1> DEFINE n == Cardinality(Nonterminals)
<1>1. PICK f : CornerRounds(f)
  BY CornerRoundsExist
<1>2. /\ f[0] = {<<B, B>> : B \in Nonterminals}
      /\ \A k \in 1..n : f[k] = Extended(f[k-1])
      /\ f[n] = LeftCorners
  BY <1>1 DEF CornerRounds
<1>3. n \in Nat
  BY RoundsEnough
<1> HIDE DEF n
<1> DEFINE Fine(pair) == /\ pair \in Nonterminals \X Nonterminals
                         /\ pair[1] = A => pair[2] \in S
           T == {k \in Nat : k <= n => \A pair \in f[k] : Fine(pair)}
<1>4. 0 \in T
  <2>1. ASSUME NEW pair \in f[0] PROVE Fine(pair)
    BY <1>2
  <2> QED
    BY <2>1
<1>5. ASSUME NEW k \in Nat, k \in T PROVE k + 1 \in T
  <2> SUFFICES ASSUME k + 1 <= n, NEW pair \in f[k+1] PROVE Fine(pair)
    OBVIOUS
  <2>8. k <= n
    BY <1>3
  <2>1. \A d \in f[k] : Fine(d)
    BY <1>5, <2>8
  <2>2. f[k+1] = Extended(f[k])
    <3>1. k + 1 \in 1..n /\ (k + 1) - 1 = k
      BY <1>3
    <3> QED
      BY <1>2, <3>1
  <2>3. CASE pair \in f[k]
    BY <2>1, <2>3
  <2>4. CASE pair \notin f[k]
    <3>1. PICK d \in f[k] \X Useful : /\ Begins(d[1][2], Rules[d[2]])
                                      /\ pair = <<d[1][1], Rules[d[2]].rhs[1]>>
      BY <2>2, <2>4 DEF Extended
    <3>2. d[1] \in f[k] /\ d[2] \in Useful
      BY <3>1
    <3>3. d[1][2] = Rules[d[2]].lhs /\ Rules[d[2]].rhs[1] \in Nonterminals
      BY <3>1 DEF Begins
    <3>4. d[1][1] \in Nonterminals /\ (d[1][1] = A => Rules[d[2]].lhs \in S)
      BY <2>1, <3>2, <3>3
    <3>5. Begins(Rules[d[2]].lhs, Rules[d[2]])
      BY <3>1, <3>3
    <3>6. d[1][1] = A => Rules[d[2]].rhs[1] \in S
      BY <3>2, <3>4, <3>5
    <3>7. pair[1] = d[1][1] /\ pair[2] = Rules[d[2]].rhs[1] /\ pair \in Nonterminals \X Nonterminals
      BY <3>1, <3>3, <3>4
    <3> QED
      BY <3>6, <3>7
  <2> QED
    BY <2>3, <2>4
<1> HIDE DEF T
<1>6. n \in T
  BY <1>3, <1>4, <1>5, SetInduction
<1>8. n <= n
  BY <1>3
<1>7. \A pair \in LeftCorners : Fine(pair)
  BY <1>2, <1>6, <1>8 DEF T
<1> QED
  BY <1>7

\* From the k-th round on, A may begin with B.
Within(A, B, k) ==
    \A f : CornerRounds(f) => \A m \in k..Cardinality(Nonterminals) : <<A, B>> \in f[m]

\* A begins with itself,
LEMMA WithinSelf == ASSUME NEW A \in Names PROVE Within(A, A, 0)
<1> DEFINE n == Cardinality(Nonterminals)
<1> SUFFICES ASSUME NEW f, CornerRounds(f) PROVE \A m \in 0..n : <<A, A>> \in f[m]
  BY DEF Within
<1>1. /\ f[0] = {<<B, B>> : B \in Nonterminals}
      /\ \A k \in 1..n : f[k] = Extended(f[k-1])
  BY DEF CornerRounds
<1>2. n \in Nat
  BY RoundsEnough
<1> HIDE DEF n
<1> DEFINE S == {m \in Nat : m <= n => <<A, A>> \in f[m]}
<1>3. 0 \in S
  BY <1>1, NonterminalNames
<1>4. ASSUME NEW m \in Nat, m \in S PROVE m + 1 \in S
  <2> SUFFICES ASSUME m + 1 <= n PROVE <<A, A>> \in f[m+1]
    OBVIOUS
  <2>1. m + 1 \in 1..n /\ (m + 1) - 1 = m /\ <<A, A>> \in f[m]
    BY <1>2, <1>4
  <2>2. f[m+1] = Extended(f[m])
    BY <1>1, <2>1
  <2> QED
    BY <2>1, <2>2 DEF Extended
<1> HIDE DEF S
<1>5. Nat \subseteq S
  BY <1>3, <1>4, SetInduction
<1>6. ASSUME NEW m \in 0..n PROVE <<A, A>> \in f[m]
  <2>1. m \in S /\ m <= n
    BY <1>2, <1>5
  <2> QED
    BY <2>1 DEF S
<1> QED
  BY <1>6

\* and one round later with what a rule for B begins with.
LEMMA WithinStep ==
    ASSUME NEW A, NEW B, NEW C \in Names, NEW k \in Nat, Within(A, B, k),
           NEW i \in Useful, Rules[i].lhs = B, FirstIs(i, C)
    PROVE  Within(A, C, k + 1)
<1> DEFINE n == Cardinality(Nonterminals)
<1> SUFFICES ASSUME NEW f, CornerRounds(f), NEW m \in k+1..n PROVE <<A, C>> \in f[m]
  BY DEF Within
<1>1. n \in Nat
  BY RoundsEnough
<1>2. m - 1 \in k..n /\ m \in 1..n
  BY <1>1
<1>3. <<A, B>> \in f[m-1]
  BY <1>2 DEF Within
<1>4. f[m] = Extended(f[m-1])
  BY <1>2 DEF CornerRounds
<1>5. Begins(B, Rules[i]) /\ Rules[i].rhs[1] = C
  BY NonterminalNames DEF Begins, FirstIs
<1> DEFINE d == <<<<A, B>>, i>>
<1>6. d \in f[m-1] \X Useful /\ Begins(d[1][2], Rules[d[2]])
  BY <1>3, <1>5
<1>7. <<d[1][1], Rules[d[2]].rhs[1]>> \in Extended(f[m-1])
  BY <1>6 DEF Extended
<1> QED
  BY <1>4, <1>5, <1>7

\* There are rounds enough for what the first fifteen find.
LEMMA WithinCorner ==
    ASSUME NEW A, NEW B, NEW k \in 0..15, Within(A, B, k)
    PROVE  <<A, B>> \in LeftCorners
<1>1. PICK f : CornerRounds(f)
  BY CornerRoundsExist
<1>2. Cardinality(Nonterminals) \in k..Cardinality(Nonterminals)
  BY RoundsEnough
<1>3. <<A, B>> \in f[Cardinality(Nonterminals)]
  BY <1>1, <1>2 DEF Within
<1> QED
  BY <1>1, <1>3 DEF CornerRounds

\* What a program may begin with.
LEMMA BegunCompUnit == Begun("CompUnit") = {2, 3, 4}
<1> DEFINE S == {"CompUnit", "FuncDef", "FuncType"}
           R == {2, 3, 4}
<1>1. "CompUnit" \in S /\ "CompUnit" \in Names
  BY DEF Names
<1>2. ASSUME NEW i \in Useful PROVE Rules[i].lhs \in S <=> i \in R
  <2>1. i \in 1..49 /\ i \notin {12, 20, 21}
    BY UsefulRules
  <2>2. CASE i = 1
    BY <2>2, AcceptRule DEF IsRule
  <2>3. CASE i # 1
    <3>1. i \in 2..49 /\ NamedRule(Rules[i].lhs, i)
      BY <2>1, <2>3, RuleByLhs
    <3> QED
      BY <2>1, <3>1 DEF NamedRule
  <2> QED
    BY <2>2, <2>3
<1>3. ASSUME NEW i \in Useful, i \in R, Begins(Rules[i].lhs, Rules[i]) PROVE Rules[i].rhs[1] \in S
  <2>1. Rules[i].rhs[1] \in Names /\ Len(Rules[i].rhs) > 0
    BY <1>3, NonterminalNames DEF Begins
  <2>2. i # 4
    <3>1. FirstIs(4, "INT") /\ "INT" \notin Names
      BY RuleFirsts, TokensUnnamed
    <3> QED
      BY <2>1, <3>1 DEF FirstIs
  <2>3. /\ FirstIs(2, "FuncDef")
       /\ FirstIs(3, "FuncType")
    BY RuleFirsts
  <2> QED
    BY <1>3, <2>2, <2>3 DEF FirstIs
<1>4. \A B : <<"CompUnit", B>> \in LeftCorners => B \in S
  <2>1. \A i \in Useful : Begins(Rules[i].lhs, Rules[i]) /\ Rules[i].lhs \in S => Rules[i].rhs[1] \in S
    BY <1>2, <1>3
  <2> HIDE DEF S, R
  <2> QED
    BY <1>1, <2>1, CornersIn
<1>5. \A B \in S : <<"CompUnit", B>> \in LeftCorners
  <2>1. Within("CompUnit", "CompUnit", 0)
    BY <1>1, WithinSelf
  <2>2. Within("CompUnit", "FuncDef", 1)
    <3>1. 2 \in Useful /\ Rules[2].lhs = "CompUnit"
      BY UsefulRules, ProgramRulesAt DEF IsRule
    <3>2. FirstIs(2, "FuncDef") /\ "FuncDef" \in Names
      BY RuleFirsts DEF Names
    <3>3. 0 \in Nat /\ 0 + 1 = 1
      OBVIOUS
    <3>4. Within("CompUnit", "FuncDef", 0 + 1)
      BY <2>1, <3>1, <3>2, <3>3, WithinStep
    <3> QED
      BY <3>3, <3>4
  <2>3. Within("CompUnit", "FuncType", 2)
    <3>1. 3 \in Useful /\ Rules[3].lhs = "FuncDef"
      BY UsefulRules, ProgramRulesAt DEF IsRule
    <3>2. FirstIs(3, "FuncType") /\ "FuncType" \in Names
      BY RuleFirsts DEF Names
    <3>3. 1 \in Nat /\ 1 + 1 = 2
      OBVIOUS
    <3>4. Within("CompUnit", "FuncType", 1 + 1)
      BY <2>2, <3>1, <3>2, <3>3, WithinStep
    <3> QED
      BY <3>3, <3>4
  <2> QED
    BY <2>1, <2>2, <2>3, WithinCorner
<1>6. R \subseteq Useful
  BY UsefulRules
<1> HIDE DEF S, R
<1>7. Begun("CompUnit") = R
  BY <1>2, <1>4, <1>5, <1>6 DEF Begun
<1> QED
  BY <1>7 DEF R

\* What a block begins with.
LEMMA BegunBlock == Begun("Block") = {5}
<1> DEFINE S == {"Block"}
           R == {5}
<1>1. "Block" \in S /\ "Block" \in Names
  BY DEF Names
<1>2. ASSUME NEW i \in Useful PROVE Rules[i].lhs \in S <=> i \in R
  <2>1. i \in 1..49 /\ i \notin {12, 20, 21}
    BY UsefulRules
  <2>2. CASE i = 1
    BY <2>2, AcceptRule DEF IsRule
  <2>3. CASE i # 1
    <3>1. i \in 2..49 /\ NamedRule(Rules[i].lhs, i)
      BY <2>1, <2>3, RuleByLhs
    <3> QED
      BY <2>1, <3>1 DEF NamedRule
  <2> QED
    BY <2>2, <2>3
<1>3. ASSUME NEW i \in Useful, i \in R, Begins(Rules[i].lhs, Rules[i]) PROVE Rules[i].rhs[1] \in S
  <2>1. Rules[i].rhs[1] \in Names /\ Len(Rules[i].rhs) > 0
    BY <1>3, NonterminalNames DEF Begins
  <2>2. i # 5
    <3>1. FirstIs(5, OpenBlock) /\ OpenBlock \notin Names
      BY RuleFirsts, TokensUnnamed
    <3> QED
      BY <2>1, <3>1 DEF FirstIs
  <2> QED
    BY <1>3, <2>2 DEF FirstIs
<1>4. \A B : <<"Block", B>> \in LeftCorners => B \in S
  <2>1. \A i \in Useful : Begins(Rules[i].lhs, Rules[i]) /\ Rules[i].lhs \in S => Rules[i].rhs[1] \in S
    BY <1>2, <1>3
  <2> HIDE DEF S, R
  <2> QED
    BY <1>1, <2>1, CornersIn
<1>5. \A B \in S : <<"Block", B>> \in LeftCorners
  <2>1. Within("Block", "Block", 0)
    BY <1>1, WithinSelf
  <2> QED
    BY <2>1, WithinCorner
<1>6. R \subseteq Useful
  BY UsefulRules
<1> HIDE DEF S, R
<1>7. Begun("Block") = R
  BY <1>2, <1>4, <1>5, <1>6 DEF Begun
<1> QED
  BY <1>7 DEF R

\* What a list of items may begin with.
LEMMA BegunBlockItems == Begun("BlockItems") = {6, 7, 8, 9, 10, 11, 13, 25, 26, 31}
<1> DEFINE S == {"BlockItems", "BlockItem", "Decl", "Stmt", "ConstDecl", "LVal"}
           R == {6, 7, 8, 9, 10, 11, 13, 25, 26, 31}
<1>1. "BlockItems" \in S /\ "BlockItems" \in Names
  BY DEF Names
<1>2. ASSUME NEW i \in Useful PROVE Rules[i].lhs \in S <=> i \in R
  <2>1. i \in 1..49 /\ i \notin {12, 20, 21}
    BY UsefulRules
  <2>2. CASE i = 1
    BY <2>2, AcceptRule DEF IsRule
  <2>3. CASE i # 1
    <3>1. i \in 2..49 /\ NamedRule(Rules[i].lhs, i)
      BY <2>1, <2>3, RuleByLhs
    <3> QED
      BY <2>1, <3>1 DEF NamedRule
  <2> QED
    BY <2>2, <2>3
<1>3. ASSUME NEW i \in Useful, i \in R, Begins(Rules[i].lhs, Rules[i]) PROVE Rules[i].rhs[1] \in S
  <2>1. Rules[i].rhs[1] \in Names /\ Len(Rules[i].rhs) > 0
    BY <1>3, NonterminalNames DEF Begins
  <2>2. i # 6
    <3>1. Len(Rules[6].rhs) = 0
      BY RuleFirsts
    <3> QED
      BY <2>1, <3>1 DEF FirstIs
  <2>3. i # 10
    <3>1. Len(Rules[10].rhs) = 0
      BY RuleFirsts
    <3> QED
      BY <2>1, <3>1 DEF FirstIs
  <2>4. i # 13
    <3>1. FirstIs(13, "CONST") /\ "CONST" \notin Names
      BY RuleFirsts, TokensUnnamed
    <3> QED
      BY <2>1, <3>1 DEF FirstIs
  <2>5. i # 26
    <3>1. FirstIs(26, "RETURN") /\ "RETURN" \notin Names
      BY RuleFirsts, TokensUnnamed
    <3> QED
      BY <2>1, <3>1 DEF FirstIs
  <2>6. i # 31
    <3>1. FirstIs(31, "IDENT") /\ "IDENT" \notin Names
      BY RuleFirsts, TokensUnnamed
    <3> QED
      BY <2>1, <3>1 DEF FirstIs
  <2>7. /\ FirstIs(7, "BlockItem")
       /\ FirstIs(8, "Decl")
       /\ FirstIs(9, "Stmt")
       /\ FirstIs(11, "ConstDecl")
       /\ FirstIs(25, "LVal")
    BY RuleFirsts
  <2> QED
    BY <1>3, <2>2, <2>3, <2>4, <2>5, <2>6, <2>7 DEF FirstIs
<1>4. \A B : <<"BlockItems", B>> \in LeftCorners => B \in S
  <2>1. \A i \in Useful : Begins(Rules[i].lhs, Rules[i]) /\ Rules[i].lhs \in S => Rules[i].rhs[1] \in S
    BY <1>2, <1>3
  <2> HIDE DEF S, R
  <2> QED
    BY <1>1, <2>1, CornersIn
<1>5. \A B \in S : <<"BlockItems", B>> \in LeftCorners
  <2>1. Within("BlockItems", "BlockItems", 0)
    BY <1>1, WithinSelf
  <2>2. Within("BlockItems", "BlockItem", 1)
    <3>1. 7 \in Useful /\ Rules[7].lhs = "BlockItems"
      BY UsefulRules, ItemRulesAt DEF IsRule
    <3>2. FirstIs(7, "BlockItem") /\ "BlockItem" \in Names
      BY RuleFirsts DEF Names
    <3>3. 0 \in Nat /\ 0 + 1 = 1
      OBVIOUS
    <3>4. Within("BlockItems", "BlockItem", 0 + 1)
      BY <2>1, <3>1, <3>2, <3>3, WithinStep
    <3> QED
      BY <3>3, <3>4
  <2>3. Within("BlockItems", "Decl", 2)
    <3>1. 8 \in Useful /\ Rules[8].lhs = "BlockItem"
      BY UsefulRules, ItemRulesAt DEF IsRule
    <3>2. FirstIs(8, "Decl") /\ "Decl" \in Names
      BY RuleFirsts DEF Names
    <3>3. 1 \in Nat /\ 1 + 1 = 2
      OBVIOUS
    <3>4. Within("BlockItems", "Decl", 1 + 1)
      BY <2>2, <3>1, <3>2, <3>3, WithinStep
    <3> QED
      BY <3>3, <3>4
  <2>4. Within("BlockItems", "Stmt", 2)
    <3>1. 9 \in Useful /\ Rules[9].lhs = "BlockItem"
      BY UsefulRules, ItemRulesAt DEF IsRule
    <3>2. FirstIs(9, "Stmt") /\ "Stmt" \in Names
      BY RuleFirsts DEF Names
    <3>3. 1 \in Nat /\ 1 + 1 = 2
      OBVIOUS
    <3>4. Within("BlockItems", "Stmt", 1 + 1)
      BY <2>2, <3>1, <3>2, <3>3, WithinStep
    <3> QED
      BY <3>3, <3>4
  <2>5. Within("BlockItems", "ConstDecl", 3)
    <3>1. 11 \in Useful /\ Rules[11].lhs = "Decl"
      BY UsefulRules, ConstRulesAt DEF IsRule
    <3>2. FirstIs(11, "ConstDecl") /\ "ConstDecl" \in Names
      BY RuleFirsts DEF Names
    <3>3. 2 \in Nat /\ 2 + 1 = 3
      OBVIOUS
    <3>4. Within("BlockItems", "ConstDecl", 2 + 1)
      BY <2>3, <3>1, <3>2, <3>3, WithinStep
    <3> QED
      BY <3>3, <3>4
  <2>6. Within("BlockItems", "LVal", 3)
    <3>1. 25 \in Useful /\ Rules[25].lhs = "Stmt"
      BY UsefulRules, StmtRulesAt DEF IsRule
    <3>2. FirstIs(25, "LVal") /\ "LVal" \in Names
      BY RuleFirsts DEF Names
    <3>3. 2 \in Nat /\ 2 + 1 = 3
      OBVIOUS
    <3>4. Within("BlockItems", "LVal", 2 + 1)
      BY <2>4, <3>1, <3>2, <3>3, WithinStep
    <3> QED
      BY <3>3, <3>4
  <2> QED
    BY <2>1, <2>2, <2>3, <2>4, <2>5, <2>6, WithinCorner
<1>6. R \subseteq Useful
  BY UsefulRules
<1> HIDE DEF S, R
<1>7. Begun("BlockItems") = R
  BY <1>2, <1>4, <1>5, <1>6 DEF Begun
<1> QED
  BY <1>7 DEF R

\* What an expression may begin with.
LEMMA BegunExp == Begun("Exp") = {27, 28, 29, 30, 31, 32, 33, 34, 35, 36, 37, 38, 39, 41, 42, 43, 44, 46, 47, 48,
    49}
<1> DEFINE S == {"Exp", "LOrExp", "LAndExp", "EqExp", "RelExp", "AddExp", "MulExp", "UnaryExp",
                 "PrimaryExp", "UnaryOp", "Number", "LVal"}
           R == {27, 28, 29, 30, 31, 32, 33, 34, 35, 36, 37, 38, 39, 41, 42, 43, 44, 46, 47, 48,
                 49}
<1>1. "Exp" \in S /\ "Exp" \in Names
  BY DEF Names
<1>2. ASSUME NEW i \in Useful PROVE Rules[i].lhs \in S <=> i \in R
  <2>1. i \in 1..49 /\ i \notin {12, 20, 21}
    BY UsefulRules
  <2>2. CASE i = 1
    BY <2>2, AcceptRule DEF IsRule
  <2>3. CASE i # 1
    <3>1. i \in 2..49 /\ NamedRule(Rules[i].lhs, i)
      BY <2>1, <2>3, RuleByLhs
    <3> QED
      BY <2>1, <3>1 DEF NamedRule
  <2> QED
    BY <2>2, <2>3
<1>3. ASSUME NEW i \in Useful, i \in R, Begins(Rules[i].lhs, Rules[i]) PROVE Rules[i].rhs[1] \in S
  <2>1. Rules[i].rhs[1] \in Names /\ Len(Rules[i].rhs) > 0
    BY <1>3, NonterminalNames DEF Begins
  <2>2. i # 28
    <3>1. FirstIs(28, "(") /\ "(" \notin Names
      BY RuleFirsts, TokensUnnamed
    <3> QED
      BY <2>1, <3>1 DEF FirstIs
  <2>3. i # 31
    <3>1. FirstIs(31, "IDENT") /\ "IDENT" \notin Names
      BY RuleFirsts, TokensUnnamed
    <3> QED
      BY <2>1, <3>1 DEF FirstIs
  <2>4. i # 32
    <3>1. FirstIs(32, "INT_CONST") /\ "INT_CONST" \notin Names
      BY RuleFirsts, TokensUnnamed
    <3> QED
      BY <2>1, <3>1 DEF FirstIs
  <2>5. i # 35
    <3>1. FirstIs(35, "OPT") /\ "OPT" \notin Names
      BY RuleFirsts, TokensUnnamed
    <3> QED
      BY <2>1, <3>1 DEF FirstIs
  <2>6. /\ FirstIs(27, "LOrExp")
       /\ FirstIs(29, "Number")
       /\ FirstIs(30, "LVal")
       /\ FirstIs(33, "PrimaryExp")
       /\ FirstIs(34, "UnaryOp")
       /\ FirstIs(36, "UnaryExp")
       /\ FirstIs(37, "MulExp")
       /\ FirstIs(38, "MulExp")
       /\ FirstIs(39, "AddExp")
       /\ FirstIs(41, "AddExp")
       /\ FirstIs(42, "RelExp")
       /\ FirstIs(43, "RelExp")
       /\ FirstIs(44, "EqExp")
       /\ FirstIs(46, "EqExp")
       /\ FirstIs(47, "LAndExp")
       /\ FirstIs(48, "LAndExp")
       /\ FirstIs(49, "LOrExp")
    BY RuleFirsts
  <2>7. /\ Rules[27].rhs[1] \in S
       /\ Rules[29].rhs[1] \in S
       /\ Rules[30].rhs[1] \in S
       /\ Rules[33].rhs[1] \in S
       /\ Rules[34].rhs[1] \in S
       /\ Rules[36].rhs[1] \in S
       /\ Rules[37].rhs[1] \in S
       /\ Rules[38].rhs[1] \in S
       /\ Rules[39].rhs[1] \in S
       /\ Rules[41].rhs[1] \in S
       /\ Rules[42].rhs[1] \in S
       /\ Rules[43].rhs[1] \in S
       /\ Rules[44].rhs[1] \in S
       /\ Rules[46].rhs[1] \in S
       /\ Rules[47].rhs[1] \in S
       /\ Rules[48].rhs[1] \in S
       /\ Rules[49].rhs[1] \in S
    BY <2>6 DEF FirstIs
  <2> QED
    BY <1>3, <2>2, <2>3, <2>4, <2>5, <2>7
<1>4. \A B : <<"Exp", B>> \in LeftCorners => B \in S
  <2>1. \A i \in Useful : Begins(Rules[i].lhs, Rules[i]) /\ Rules[i].lhs \in S => Rules[i].rhs[1] \in S
    BY <1>2, <1>3
  <2> HIDE DEF S, R
  <2> QED
    BY <1>1, <2>1, CornersIn
<1>5. \A B \in S : <<"Exp", B>> \in LeftCorners
  <2>1. Within("Exp", "Exp", 0)
    BY <1>1, WithinSelf
  <2>2. Within("Exp", "LOrExp", 1)
    <3>1. 27 \in Useful /\ Rules[27].lhs = "Exp"
      BY UsefulRules, StmtRulesAt DEF IsRule
    <3>2. FirstIs(27, "LOrExp") /\ "LOrExp" \in Names
      BY RuleFirsts DEF Names
    <3>3. 0 \in Nat /\ 0 + 1 = 1
      OBVIOUS
    <3>4. Within("Exp", "LOrExp", 0 + 1)
      BY <2>1, <3>1, <3>2, <3>3, WithinStep
    <3> QED
      BY <3>3, <3>4
  <2>3. Within("Exp", "LAndExp", 2)
    <3>1. 48 \in Useful /\ Rules[48].lhs = "LOrExp"
      BY UsefulRules, LogicRulesAt DEF IsRule
    <3>2. FirstIs(48, "LAndExp") /\ "LAndExp" \in Names
      BY RuleFirsts DEF Names
    <3>3. 1 \in Nat /\ 1 + 1 = 2
      OBVIOUS
    <3>4. Within("Exp", "LAndExp", 1 + 1)
      BY <2>2, <3>1, <3>2, <3>3, WithinStep
    <3> QED
      BY <3>3, <3>4
  <2>4. Within("Exp", "EqExp", 3)
    <3>1. 46 \in Useful /\ Rules[46].lhs = "LAndExp"
      BY UsefulRules, LogicRulesAt DEF IsRule
    <3>2. FirstIs(46, "EqExp") /\ "EqExp" \in Names
      BY RuleFirsts DEF Names
    <3>3. 2 \in Nat /\ 2 + 1 = 3
      OBVIOUS
    <3>4. Within("Exp", "EqExp", 2 + 1)
      BY <2>3, <3>1, <3>2, <3>3, WithinStep
    <3> QED
      BY <3>3, <3>4
  <2>5. Within("Exp", "RelExp", 4)
    <3>1. 43 \in Useful /\ Rules[43].lhs = "EqExp"
      BY UsefulRules, RelationRulesAt DEF IsRule
    <3>2. FirstIs(43, "RelExp") /\ "RelExp" \in Names
      BY RuleFirsts DEF Names
    <3>3. 3 \in Nat /\ 3 + 1 = 4
      OBVIOUS
    <3>4. Within("Exp", "RelExp", 3 + 1)
      BY <2>4, <3>1, <3>2, <3>3, WithinStep
    <3> QED
      BY <3>3, <3>4
  <2>6. Within("Exp", "AddExp", 5)
    <3>1. 41 \in Useful /\ Rules[41].lhs = "RelExp"
      BY UsefulRules, RelationRulesAt DEF IsRule
    <3>2. FirstIs(41, "AddExp") /\ "AddExp" \in Names
      BY RuleFirsts DEF Names
    <3>3. 4 \in Nat /\ 4 + 1 = 5
      OBVIOUS
    <3>4. Within("Exp", "AddExp", 4 + 1)
      BY <2>5, <3>1, <3>2, <3>3, WithinStep
    <3> QED
      BY <3>3, <3>4
  <2>7. Within("Exp", "MulExp", 6)
    <3>1. 38 \in Useful /\ Rules[38].lhs = "AddExp"
      BY UsefulRules, ArithmeticRulesAt DEF IsRule
    <3>2. FirstIs(38, "MulExp") /\ "MulExp" \in Names
      BY RuleFirsts DEF Names
    <3>3. 5 \in Nat /\ 5 + 1 = 6
      OBVIOUS
    <3>4. Within("Exp", "MulExp", 5 + 1)
      BY <2>6, <3>1, <3>2, <3>3, WithinStep
    <3> QED
      BY <3>3, <3>4
  <2>8. Within("Exp", "UnaryExp", 7)
    <3>1. 36 \in Useful /\ Rules[36].lhs = "MulExp"
      BY UsefulRules, ArithmeticRulesAt DEF IsRule
    <3>2. FirstIs(36, "UnaryExp") /\ "UnaryExp" \in Names
      BY RuleFirsts DEF Names
    <3>3. 6 \in Nat /\ 6 + 1 = 7
      OBVIOUS
    <3>4. Within("Exp", "UnaryExp", 6 + 1)
      BY <2>7, <3>1, <3>2, <3>3, WithinStep
    <3> QED
      BY <3>3, <3>4
  <2>9. Within("Exp", "PrimaryExp", 8)
    <3>1. 33 \in Useful /\ Rules[33].lhs = "UnaryExp"
      BY UsefulRules, OperandRulesAt DEF IsRule
    <3>2. FirstIs(33, "PrimaryExp") /\ "PrimaryExp" \in Names
      BY RuleFirsts DEF Names
    <3>3. 7 \in Nat /\ 7 + 1 = 8
      OBVIOUS
    <3>4. Within("Exp", "PrimaryExp", 7 + 1)
      BY <2>8, <3>1, <3>2, <3>3, WithinStep
    <3> QED
      BY <3>3, <3>4
  <2>10. Within("Exp", "UnaryOp", 8)
    <3>1. 34 \in Useful /\ Rules[34].lhs = "UnaryExp"
      BY UsefulRules, OperandRulesAt DEF IsRule
    <3>2. FirstIs(34, "UnaryOp") /\ "UnaryOp" \in Names
      BY RuleFirsts DEF Names
    <3>3. 7 \in Nat /\ 7 + 1 = 8
      OBVIOUS
    <3>4. Within("Exp", "UnaryOp", 7 + 1)
      BY <2>8, <3>1, <3>2, <3>3, WithinStep
    <3> QED
      BY <3>3, <3>4
  <2>11. Within("Exp", "Number", 9)
    <3>1. 29 \in Useful /\ Rules[29].lhs = "PrimaryExp"
      BY UsefulRules, OperandRulesAt DEF IsRule
    <3>2. FirstIs(29, "Number") /\ "Number" \in Names
      BY RuleFirsts DEF Names
    <3>3. 8 \in Nat /\ 8 + 1 = 9
      OBVIOUS
    <3>4. Within("Exp", "Number", 8 + 1)
      BY <2>9, <3>1, <3>2, <3>3, WithinStep
    <3> QED
      BY <3>3, <3>4
  <2>12. Within("Exp", "LVal", 9)
    <3>1. 30 \in Useful /\ Rules[30].lhs = "PrimaryExp"
      BY UsefulRules, OperandRulesAt DEF IsRule
    <3>2. FirstIs(30, "LVal") /\ "LVal" \in Names
      BY RuleFirsts DEF Names
    <3>3. 8 \in Nat /\ 8 + 1 = 9
      OBVIOUS
    <3>4. Within("Exp", "LVal", 8 + 1)
      BY <2>9, <3>1, <3>2, <3>3, WithinStep
    <3> QED
      BY <3>3, <3>4
  <2> QED
    BY <2>1, <2>2, <2>3, <2>4, <2>5, <2>6, <2>7, <2>8, <2>9, <2>10, <2>11, <2>12, WithinCorner
<1>6. R \subseteq Useful
  BY UsefulRules
<1> HIDE DEF S, R
<1>7. Begun("Exp") = R
  BY <1>2, <1>4, <1>5, <1>6 DEF Begun
<1> QED
  BY <1>7 DEF R

\* What an operand may begin with.
LEMMA BegunUnaryExp == Begun("UnaryExp") = {28, 29, 30, 31, 32, 33, 34, 35}
<1> DEFINE S == {"UnaryExp", "PrimaryExp", "UnaryOp", "Number", "LVal"}
           R == {28, 29, 30, 31, 32, 33, 34, 35}
<1>1. "UnaryExp" \in S /\ "UnaryExp" \in Names
  BY DEF Names
<1>2. ASSUME NEW i \in Useful PROVE Rules[i].lhs \in S <=> i \in R
  <2>1. i \in 1..49 /\ i \notin {12, 20, 21}
    BY UsefulRules
  <2>2. CASE i = 1
    BY <2>2, AcceptRule DEF IsRule
  <2>3. CASE i # 1
    <3>1. i \in 2..49 /\ NamedRule(Rules[i].lhs, i)
      BY <2>1, <2>3, RuleByLhs
    <3> QED
      BY <2>1, <3>1 DEF NamedRule
  <2> QED
    BY <2>2, <2>3
<1>3. ASSUME NEW i \in Useful, i \in R, Begins(Rules[i].lhs, Rules[i]) PROVE Rules[i].rhs[1] \in S
  <2>1. Rules[i].rhs[1] \in Names /\ Len(Rules[i].rhs) > 0
    BY <1>3, NonterminalNames DEF Begins
  <2>2. i # 28
    <3>1. FirstIs(28, "(") /\ "(" \notin Names
      BY RuleFirsts, TokensUnnamed
    <3> QED
      BY <2>1, <3>1 DEF FirstIs
  <2>3. i # 31
    <3>1. FirstIs(31, "IDENT") /\ "IDENT" \notin Names
      BY RuleFirsts, TokensUnnamed
    <3> QED
      BY <2>1, <3>1 DEF FirstIs
  <2>4. i # 32
    <3>1. FirstIs(32, "INT_CONST") /\ "INT_CONST" \notin Names
      BY RuleFirsts, TokensUnnamed
    <3> QED
      BY <2>1, <3>1 DEF FirstIs
  <2>5. i # 35
    <3>1. FirstIs(35, "OPT") /\ "OPT" \notin Names
      BY RuleFirsts, TokensUnnamed
    <3> QED
      BY <2>1, <3>1 DEF FirstIs
  <2>6. /\ FirstIs(29, "Number")
       /\ FirstIs(30, "LVal")
       /\ FirstIs(33, "PrimaryExp")
       /\ FirstIs(34, "UnaryOp")
    BY RuleFirsts
  <2> QED
    BY <1>3, <2>2, <2>3, <2>4, <2>5, <2>6 DEF FirstIs
<1>4. \A B : <<"UnaryExp", B>> \in LeftCorners => B \in S
  <2>1. \A i \in Useful : Begins(Rules[i].lhs, Rules[i]) /\ Rules[i].lhs \in S => Rules[i].rhs[1] \in S
    BY <1>2, <1>3
  <2> HIDE DEF S, R
  <2> QED
    BY <1>1, <2>1, CornersIn
<1>5. \A B \in S : <<"UnaryExp", B>> \in LeftCorners
  <2>1. Within("UnaryExp", "UnaryExp", 0)
    BY <1>1, WithinSelf
  <2>2. Within("UnaryExp", "PrimaryExp", 1)
    <3>1. 33 \in Useful /\ Rules[33].lhs = "UnaryExp"
      BY UsefulRules, OperandRulesAt DEF IsRule
    <3>2. FirstIs(33, "PrimaryExp") /\ "PrimaryExp" \in Names
      BY RuleFirsts DEF Names
    <3>3. 0 \in Nat /\ 0 + 1 = 1
      OBVIOUS
    <3>4. Within("UnaryExp", "PrimaryExp", 0 + 1)
      BY <2>1, <3>1, <3>2, <3>3, WithinStep
    <3> QED
      BY <3>3, <3>4
  <2>3. Within("UnaryExp", "UnaryOp", 1)
    <3>1. 34 \in Useful /\ Rules[34].lhs = "UnaryExp"
      BY UsefulRules, OperandRulesAt DEF IsRule
    <3>2. FirstIs(34, "UnaryOp") /\ "UnaryOp" \in Names
      BY RuleFirsts DEF Names
    <3>3. 0 \in Nat /\ 0 + 1 = 1
      OBVIOUS
    <3>4. Within("UnaryExp", "UnaryOp", 0 + 1)
      BY <2>1, <3>1, <3>2, <3>3, WithinStep
    <3> QED
      BY <3>3, <3>4
  <2>4. Within("UnaryExp", "Number", 2)
    <3>1. 29 \in Useful /\ Rules[29].lhs = "PrimaryExp"
      BY UsefulRules, OperandRulesAt DEF IsRule
    <3>2. FirstIs(29, "Number") /\ "Number" \in Names
      BY RuleFirsts DEF Names
    <3>3. 1 \in Nat /\ 1 + 1 = 2
      OBVIOUS
    <3>4. Within("UnaryExp", "Number", 1 + 1)
      BY <2>2, <3>1, <3>2, <3>3, WithinStep
    <3> QED
      BY <3>3, <3>4
  <2>5. Within("UnaryExp", "LVal", 2)
    <3>1. 30 \in Useful /\ Rules[30].lhs = "PrimaryExp"
      BY UsefulRules, OperandRulesAt DEF IsRule
    <3>2. FirstIs(30, "LVal") /\ "LVal" \in Names
      BY RuleFirsts DEF Names
    <3>3. 1 \in Nat /\ 1 + 1 = 2
      OBVIOUS
    <3>4. Within("UnaryExp", "LVal", 1 + 1)
      BY <2>2, <3>1, <3>2, <3>3, WithinStep
    <3> QED
      BY <3>3, <3>4
  <2> QED
    BY <2>1, <2>2, <2>3, <2>4, <2>5, WithinCorner
<1>6. R \subseteq Useful
  BY UsefulRules
<1> HIDE DEF S, R
<1>7. Begun("UnaryExp") = R
  BY <1>2, <1>4, <1>5, <1>6 DEF Begun
<1> QED
  BY <1>7 DEF R

\* What the binary operators are.
LEMMA BegunBinOp == Begun("BinOp") = {40}
<1> DEFINE S == {"BinOp"}
           R == {40}
<1>1. "BinOp" \in S /\ "BinOp" \in Names
  BY DEF Names
<1>2. ASSUME NEW i \in Useful PROVE Rules[i].lhs \in S <=> i \in R
  <2>1. i \in 1..49 /\ i \notin {12, 20, 21}
    BY UsefulRules
  <2>2. CASE i = 1
    BY <2>2, AcceptRule DEF IsRule
  <2>3. CASE i # 1
    <3>1. i \in 2..49 /\ NamedRule(Rules[i].lhs, i)
      BY <2>1, <2>3, RuleByLhs
    <3> QED
      BY <2>1, <3>1 DEF NamedRule
  <2> QED
    BY <2>2, <2>3
<1>3. ASSUME NEW i \in Useful, i \in R, Begins(Rules[i].lhs, Rules[i]) PROVE Rules[i].rhs[1] \in S
  <2>1. Rules[i].rhs[1] \in Names /\ Len(Rules[i].rhs) > 0
    BY <1>3, NonterminalNames DEF Begins
  <2>2. i # 40
    <3>1. FirstIs(40, "OPT") /\ "OPT" \notin Names
      BY RuleFirsts, TokensUnnamed
    <3> QED
      BY <2>1, <3>1 DEF FirstIs
  <2> QED
    BY <1>3, <2>2 DEF FirstIs
<1>4. \A B : <<"BinOp", B>> \in LeftCorners => B \in S
  <2>1. \A i \in Useful : Begins(Rules[i].lhs, Rules[i]) /\ Rules[i].lhs \in S => Rules[i].rhs[1] \in S
    BY <1>2, <1>3
  <2> HIDE DEF S, R
  <2> QED
    BY <1>1, <2>1, CornersIn
<1>5. \A B \in S : <<"BinOp", B>> \in LeftCorners
  <2>1. Within("BinOp", "BinOp", 0)
    BY <1>1, WithinSelf
  <2> QED
    BY <2>1, WithinCorner
<1>6. R \subseteq Useful
  BY UsefulRules
<1> HIDE DEF S, R
<1>7. Begun("BinOp") = R
  BY <1>2, <1>4, <1>5, <1>6 DEF Begun
<1> QED
  BY <1>7 DEF R

\* What the operators of comparisons are.
LEMMA BegunCmpOp == Begun("CmpOp") = {45}
<1> DEFINE S == {"CmpOp"}
           R == {45}
<1>1. "CmpOp" \in S /\ "CmpOp" \in Names
  BY DEF Names
<1>2. ASSUME NEW i \in Useful PROVE Rules[i].lhs \in S <=> i \in R
  <2>1. i \in 1..49 /\ i \notin {12, 20, 21}
    BY UsefulRules
  <2>2. CASE i = 1
    BY <2>2, AcceptRule DEF IsRule
  <2>3. CASE i # 1
    <3>1. i \in 2..49 /\ NamedRule(Rules[i].lhs, i)
      BY <2>1, <2>3, RuleByLhs
    <3> QED
      BY <2>1, <3>1 DEF NamedRule
  <2> QED
    BY <2>2, <2>3
<1>3. ASSUME NEW i \in Useful, i \in R, Begins(Rules[i].lhs, Rules[i]) PROVE Rules[i].rhs[1] \in S
  <2>1. Rules[i].rhs[1] \in Names /\ Len(Rules[i].rhs) > 0
    BY <1>3, NonterminalNames DEF Begins
  <2>2. i # 45
    <3>1. FirstIs(45, "OPT") /\ "OPT" \notin Names
      BY RuleFirsts, TokensUnnamed
    <3> QED
      BY <2>1, <3>1 DEF FirstIs
  <2> QED
    BY <1>3, <2>2 DEF FirstIs
<1>4. \A B : <<"CmpOp", B>> \in LeftCorners => B \in S
  <2>1. \A i \in Useful : Begins(Rules[i].lhs, Rules[i]) /\ Rules[i].lhs \in S => Rules[i].rhs[1] \in S
    BY <1>2, <1>3
  <2> HIDE DEF S, R
  <2> QED
    BY <1>1, <2>1, CornersIn
<1>5. \A B \in S : <<"CmpOp", B>> \in LeftCorners
  <2>1. Within("CmpOp", "CmpOp", 0)
    BY <1>1, WithinSelf
  <2> QED
    BY <2>1, WithinCorner
<1>6. R \subseteq Useful
  BY UsefulRules
<1> HIDE DEF S, R
<1>7. Begun("CmpOp") = R
  BY <1>2, <1>4, <1>5, <1>6 DEF Begun
<1> QED
  BY <1>7 DEF R

\* What the type of a declaration is.
LEMMA BegunBType == Begun("BType") = {14}
<1> DEFINE S == {"BType"}
           R == {14}
<1>1. "BType" \in S /\ "BType" \in Names
  BY DEF Names
<1>2. ASSUME NEW i \in Useful PROVE Rules[i].lhs \in S <=> i \in R
  <2>1. i \in 1..49 /\ i \notin {12, 20, 21}
    BY UsefulRules
  <2>2. CASE i = 1
    BY <2>2, AcceptRule DEF IsRule
  <2>3. CASE i # 1
    <3>1. i \in 2..49 /\ NamedRule(Rules[i].lhs, i)
      BY <2>1, <2>3, RuleByLhs
    <3> QED
      BY <2>1, <3>1 DEF NamedRule
  <2> QED
    BY <2>2, <2>3
<1>3. ASSUME NEW i \in Useful, i \in R, Begins(Rules[i].lhs, Rules[i]) PROVE Rules[i].rhs[1] \in S
  <2>1. Rules[i].rhs[1] \in Names /\ Len(Rules[i].rhs) > 0
    BY <1>3, NonterminalNames DEF Begins
  <2>2. i # 14
    <3>1. FirstIs(14, "INT") /\ "INT" \notin Names
      BY RuleFirsts, TokensUnnamed
    <3> QED
      BY <2>1, <3>1 DEF FirstIs
  <2> QED
    BY <1>3, <2>2 DEF FirstIs
<1>4. \A B : <<"BType", B>> \in LeftCorners => B \in S
  <2>1. \A i \in Useful : Begins(Rules[i].lhs, Rules[i]) /\ Rules[i].lhs \in S => Rules[i].rhs[1] \in S
    BY <1>2, <1>3
  <2> HIDE DEF S, R
  <2> QED
    BY <1>1, <2>1, CornersIn
<1>5. \A B \in S : <<"BType", B>> \in LeftCorners
  <2>1. Within("BType", "BType", 0)
    BY <1>1, WithinSelf
  <2> QED
    BY <2>1, WithinCorner
<1>6. R \subseteq Useful
  BY UsefulRules
<1> HIDE DEF S, R
<1>7. Begun("BType") = R
  BY <1>2, <1>4, <1>5, <1>6 DEF Begun
<1> QED
  BY <1>7 DEF R

\* What a constant definition begins with.
LEMMA BegunConstDef == Begun("ConstDef") = {17}
<1> DEFINE S == {"ConstDef"}
           R == {17}
<1>1. "ConstDef" \in S /\ "ConstDef" \in Names
  BY DEF Names
<1>2. ASSUME NEW i \in Useful PROVE Rules[i].lhs \in S <=> i \in R
  <2>1. i \in 1..49 /\ i \notin {12, 20, 21}
    BY UsefulRules
  <2>2. CASE i = 1
    BY <2>2, AcceptRule DEF IsRule
  <2>3. CASE i # 1
    <3>1. i \in 2..49 /\ NamedRule(Rules[i].lhs, i)
      BY <2>1, <2>3, RuleByLhs
    <3> QED
      BY <2>1, <3>1 DEF NamedRule
  <2> QED
    BY <2>2, <2>3
<1>3. ASSUME NEW i \in Useful, i \in R, Begins(Rules[i].lhs, Rules[i]) PROVE Rules[i].rhs[1] \in S
  <2>1. Rules[i].rhs[1] \in Names /\ Len(Rules[i].rhs) > 0
    BY <1>3, NonterminalNames DEF Begins
  <2>2. i # 17
    <3>1. FirstIs(17, "IDENT") /\ "IDENT" \notin Names
      BY RuleFirsts, TokensUnnamed
    <3> QED
      BY <2>1, <3>1 DEF FirstIs
  <2> QED
    BY <1>3, <2>2 DEF FirstIs
<1>4. \A B : <<"ConstDef", B>> \in LeftCorners => B \in S
  <2>1. \A i \in Useful : Begins(Rules[i].lhs, Rules[i]) /\ Rules[i].lhs \in S => Rules[i].rhs[1] \in S
    BY <1>2, <1>3
  <2> HIDE DEF S, R
  <2> QED
    BY <1>1, <2>1, CornersIn
<1>5. \A B \in S : <<"ConstDef", B>> \in LeftCorners
  <2>1. Within("ConstDef", "ConstDef", 0)
    BY <1>1, WithinSelf
  <2> QED
    BY <2>1, WithinCorner
<1>6. R \subseteq Useful
  BY UsefulRules
<1> HIDE DEF S, R
<1>7. Begun("ConstDef") = R
  BY <1>2, <1>4, <1>5, <1>6 DEF Begun
<1> QED
  BY <1>7 DEF R

\* The tokens that are expected in a state.
Expects(state) == (UNION {AfterDot(item) : item \in Items(state)}) \ Nonterminals

\* The next symbol of a rule whose first d symbols are on the stack.
LEMMA DotFacts ==
    ASSUME NEW i, NEW d
    PROVE  AfterDot(<<i, d>>) = IF d < Len(Rules[i].rhs) THEN {Rules[i].rhs[d + 1]} ELSE {}
<1> DEFINE it == <<i, d>>
<1>1. it[1] = i /\ it[2] = d
  OBVIOUS
<1> HIDE DEF it
<1>2. AfterDot(it) = IF d < Len(Rules[i].rhs) THEN {Rules[i].rhs[d + 1]} ELSE {}
  BY <1>1 DEF AfterDot
<1> QED
  BY <1>2 DEF it

\* Where no item of a state is before a nonterminal, Items adds none to it.
LEMMA ClosedState ==
    ASSUME NEW state, \A it \in state : AfterDot(it) \cap Names = {}
    PROVE  Items(state) = state
<1> SUFFICES ASSUME NEW p \in Predicted, NEW it \in state, p[1] \in AfterDot(it) PROVE FALSE
  BY DEF Items
<1>1. PICK r \in LeftCorners \X Useful : p = <<r[1][1], r[2]>>
  BY DEF Predicted
<1>2. p[1] = r[1][1] /\ r[1] \in LeftCorners
  BY <1>1
<1>3. p[1] \in Names
  BY <1>2, LeftCornersStep, NonterminalNames
<1> QED
  BY <1>3

\* A state whose only unfinished item is <<i, d>>, before the symbol A.
Open(state, i, d, A) ==
    /\ <<i, d>> \in state /\ AfterDot(<<i, d>>) = {A}
    /\ \A it \in state : it = <<i, d>> \/ AfterDot(it) = {}

\* Such a state begins what A may begin with.
LEMMA OpenItems ==
    ASSUME NEW state, NEW i, NEW d, NEW A, Open(state, i, d, A)
    PROVE  Items(state) = state \cup {<<j, 0>> : j \in Begun(A)}
<1>1. ASSUME NEW it \in Items(state) PROVE it \in state \/ it \in {<<j, 0>> : j \in Begun(A)}
  <2>1. CASE it \notin state
    <3>1. PICK p \in Predicted : it = <<p[2], 0>> /\ \E item \in state : p[1] \in AfterDot(item)
      BY <2>1 DEF Items
    <3>2. p[1] = A
      BY <3>1 DEF Open
    <3>3. p = <<A, p[2]>>
      <4>1. PICK r \in LeftCorners \X Useful : p = <<r[1][1], r[2]>>
        BY DEF Predicted
      <4> QED
        BY <3>2, <4>1
    <3>4. p[2] \in Begun(A)
      BY <3>3, PredictedBegun
    <3> QED
      BY <3>1, <3>4
  <2> QED
    BY <2>1
<1>2. ASSUME NEW j \in Begun(A) PROVE <<j, 0>> \in Items(state)
  <2> DEFINE p == <<A, j>>
             it == <<i, d>>
  <2>1. p \in Predicted /\ p[1] = A /\ p[2] = j
    BY PredictedBegun
  <2>2. it \in state /\ A \in AfterDot(it)
    BY DEF Open
  <2> HIDE DEF p, it
  <2> QED
    BY <2>1, <2>2 DEF Items
<1>3. state \subseteq Items(state)
  BY DEF Items
<1> QED
  BY <1>1, <1>2, <1>3

\* What a rule at its beginning expects.
LEMMA BeginFacts ==
    ASSUME NEW i \in Useful
    PROVE  /\ \A X : X \in AfterDot(<<i, 0>>) <=> FirstIs(i, X)
           /\ AfterDot(<<i, 0>>) = {} <=> Len(Rules[i].rhs) = 0
<1>1. Len(Rules[i].rhs) \in Nat
  BY UsefulRules, RulesShape, RuleNumbers DEF Orderly
<1>2. AfterDot(<<i, 0>>) = IF 0 < Len(Rules[i].rhs) THEN {Rules[i].rhs[1]} ELSE {}
  <2>1. AfterDot(<<i, 0>>) = IF 0 < Len(Rules[i].rhs) THEN {Rules[i].rhs[0 + 1]} ELSE {}
    BY DotFacts
  <2>2. 0 + 1 = 1
    OBVIOUS
  <2> QED
    BY <2>1, <2>2
<1> DEFINE S == AfterDot(<<i, 0>>)
<1>3. S = IF 0 < Len(Rules[i].rhs) THEN {Rules[i].rhs[1]} ELSE {}
  BY <1>2
<1> HIDE DEF S
<1>4. (\A X : X \in S <=> FirstIs(i, X)) /\ (S = {} <=> Len(Rules[i].rhs) = 0)
  <2>1. CASE Len(Rules[i].rhs) = 0
    <3>1. S = {} /\ ~(Len(Rules[i].rhs) > 0)
      BY <1>3, <2>1
    <3> QED
      BY <2>1, <3>1 DEF FirstIs
  <2>2. CASE Len(Rules[i].rhs) > 0
    <3>1. S = {Rules[i].rhs[1]} /\ Len(Rules[i].rhs) # 0
      BY <1>1, <1>3, <2>2
    <3> QED
      BY <2>2, <3>1 DEF FirstIs
  <2> QED
    BY <1>1, <2>1, <2>2
<1> QED
  BY <1>4 DEF S

\* The rules begun for A whose first symbol is X.
Starts(A, X) == {j \in Begun(A) : FirstIs(j, X)}

\* What such a state expects, has complete, and leads to.
LEMMA OpenState ==
    ASSUME NEW state, NEW i, NEW d, NEW A, Open(state, i, d, A)
    PROVE  /\ \A X : X \in Expects(state) <=>
                  X \notin Names /\ (X = A \/ \E j \in Begun(A) : FirstIs(j, X))
           /\ \A j : j \in Complete(state) <=>
                  \/ \E it \in state : it[1] = j /\ AfterDot(it) = {}
                  \/ j \in Begun(A) /\ Len(Rules[j].rhs) = 0
           /\ \A X : Goto(state, X) = {<<j, 1>> : j \in Starts(A, X)}
                                      \cup (IF X = A THEN {<<i, d + 1>>} ELSE {})
<1> DEFINE S == Items(state)
           B == {<<j, 0>> : j \in Begun(A)}
<1>1. S = state \cup B
  BY OpenItems
<1>2. Begun(A) \subseteq Useful
  BY DEF Begun
<1>3. ASSUME NEW it \in B PROVE it[2] = 0 /\ it = <<it[1], 0>> /\ it[1] \in Begun(A)
  OBVIOUS
<1>4. ASSUME NEW it \in B
      PROVE  /\ \A X : X \in AfterDot(it) <=> FirstIs(it[1], X)
             /\ AfterDot(it) = {} <=> Len(Rules[it[1]].rhs) = 0
  <2>1. it[1] \in Useful /\ it = <<it[1], 0>>
    BY <1>2, <1>3
  <2> QED
    BY <2>1, BeginFacts
<1>5. \A j \in Begun(A) : <<j, 0>> \in B
  OBVIOUS
<1> HIDE DEF S, B
<1>6. ASSUME NEW X
      PROVE  (\E it \in S : X \in AfterDot(it)) <=> (X = A \/ \E j \in Begun(A) : FirstIs(j, X))
  <2>1. ASSUME NEW it \in S, X \in AfterDot(it) PROVE X = A \/ \E j \in Begun(A) : FirstIs(j, X)
    <3>1. CASE it \in state
      BY <2>1, <3>1 DEF Open
    <3>2. CASE it \in B
      BY <1>3, <1>4, <2>1, <3>2
    <3> QED
      BY <1>1, <3>1, <3>2
  <2>2. ASSUME X = A PROVE \E it \in S : X \in AfterDot(it)
    BY <1>1, <2>2 DEF Open
  <2>3. ASSUME NEW j \in Begun(A), FirstIs(j, X) PROVE \E it \in S : X \in AfterDot(it)
    <3> DEFINE it == <<j, 0>>
    <3>1. it \in B /\ it[1] = j
      BY <1>5
    <3> HIDE DEF it
    <3> QED
      BY <1>1, <1>4, <2>3, <3>1
  <2> QED
    BY <2>1, <2>2, <2>3
<1>7. \A X : X \in Expects(state) <=>
         X \notin Names /\ (X = A \/ \E j \in Begun(A) : FirstIs(j, X))
  <2>1. \A X : X \in Expects(state) <=> X \notin Names /\ \E it \in S : X \in AfterDot(it)
    <3>1. Expects(state) = (UNION {AfterDot(item) : item \in S}) \ Names
      BY NonterminalNames DEF Expects, S
    <3>2. ASSUME NEW X, NEW it \in S, X \in AfterDot(it), X \notin Names PROVE X \in Expects(state)
      BY <3>1, <3>2
    <3>3. ASSUME NEW X \in Expects(state) PROVE X \notin Names /\ \E it \in S : X \in AfterDot(it)
      BY <3>1, <3>3
    <3> QED
      BY <3>2, <3>3
  <2> QED
    BY <1>6, <2>1
<1>8. ASSUME NEW j
      PROVE  j \in Complete(state) <=> \/ \E it \in state : it[1] = j /\ AfterDot(it) = {}
                                       \/ j \in Begun(A) /\ Len(Rules[j].rhs) = 0
  <2>1. j \in Complete(state) <=> \E it \in S : AfterDot(it) = {} /\ it[1] = j
    BY DEF Complete, S
  <2>2. ASSUME NEW it \in S, AfterDot(it) = {}, it[1] = j, it \notin state
        PROVE  j \in Begun(A) /\ Len(Rules[j].rhs) = 0
    BY <1>1, <1>3, <1>4, <2>2
  <2>3. ASSUME j \in Begun(A), Len(Rules[j].rhs) = 0 PROVE \E it \in S : AfterDot(it) = {} /\ it[1] = j
    <3> DEFINE it == <<j, 0>>
    <3>1. it \in B /\ it[1] = j
      BY <1>5, <2>3
    <3> HIDE DEF it
    <3> QED
      BY <1>1, <1>4, <2>3, <3>1
  <2> QED
    BY <1>1, <2>1, <2>2, <2>3
<1>9. ASSUME NEW X
      PROVE  Goto(state, X) = {<<j, 1>> : j \in Starts(A, X)}
                              \cup (IF X = A THEN {<<i, d + 1>>} ELSE {})
  <2>1. \A g : g \in Goto(state, X) <=> \E it \in S : X \in AfterDot(it) /\ g = <<it[1], it[2] + 1>>
    BY DEF Goto, S
  <2>2. ASSUME NEW it \in S, X \in AfterDot(it), NEW g, g = <<it[1], it[2] + 1>>
        PROVE  \/ \E j \in Starts(A, X) : g = <<j, 1>>
               \/ X = A /\ g = <<i, d + 1>>
    <3>1. CASE it \in state
      <4>1. X = A /\ it = <<i, d>>
        BY <2>2, <3>1 DEF Open
      <4> QED
        BY <2>2, <4>1
    <3>2. CASE it \in B
      <4>1. it[1] \in Starts(A, X) /\ it[2] + 1 = 1
        BY <1>3, <1>4, <2>2, <3>2 DEF Starts
      <4> QED
        BY <2>2, <4>1
    <3> QED
      BY <1>1, <3>1, <3>2
  <2>3. ASSUME NEW j \in Starts(A, X) PROVE <<j, 1>> \in Goto(state, X)
    <3> DEFINE it == <<j, 0>>
    <3>1. it \in B /\ it[1] = j /\ it[2] + 1 = 1
      BY <1>5 DEF Starts
    <3> HIDE DEF it
    <3>2. it \in S /\ X \in AfterDot(it) /\ <<j, 1>> = <<it[1], it[2] + 1>>
      BY <1>1, <1>4, <3>1 DEF Starts
    <3> QED
      BY <2>1, <3>2
  <2>4. ASSUME X = A PROVE <<i, d + 1>> \in Goto(state, X)
    <3> DEFINE it == <<i, d>>
    <3>1. it[1] = i /\ it[2] = d /\ it \in state /\ X \in AfterDot(it)
      BY <2>4 DEF Open
    <3> HIDE DEF it
    <3> QED
      BY <1>1, <2>1, <3>1
  <2> QED
    BY <2>1, <2>2, <2>3, <2>4
<1> QED
  BY <1>7, <1>8, <1>9

\* A state whose only unfinished item is before a token.
LEMMA TokenState ==
    ASSUME NEW state, NEW i, NEW d, NEW t, Open(state, i, d, t), t \notin Names
    PROVE  /\ Expects(state) = {t}
           /\ \A j : j \in Complete(state) <=> \E it \in state : it[1] = j /\ AfterDot(it) = {}
           /\ Goto(state, t) = {<<i, d + 1>>}
<1>1. Begun(t) = {}
  BY LeftCornersStep, NonterminalNames DEF Begun
<1>2. Starts(t, t) = {}
  BY <1>1 DEF Starts
<1>3. Expects(state) = {t}
  BY <1>1, OpenState
<1>4. \A j : j \in Complete(state) <=> \E it \in state : it[1] = j /\ AfterDot(it) = {}
  BY <1>1, OpenState
<1>5. Goto(state, t) = {<<j, 1>> : j \in Starts(t, t)} \cup {<<i, d + 1>>}
  BY OpenState
<1> QED
  BY <1>2, <1>3, <1>4, <1>5

\* A state with one item, which is at its end.
LEMMA EndState ==
    ASSUME NEW i, NEW d, AfterDot(<<i, d>>) = {}
    PROVE  Expects({<<i, d>>}) = {} /\ Complete({<<i, d>>}) = {i}
<1> DEFINE it == <<i, d>>
           state == {it}
<1>1. it[1] = i /\ state = {it} /\ AfterDot(it) = {}
  OBVIOUS
<1> HIDE DEF it, state
<1>2. Items(state) = state
  BY <1>1, ClosedState
<1>3. Expects(state) = {} /\ Complete(state) = {i}
  BY <1>1, <1>2 DEF Expects, Complete
<1> QED
  BY <1>3 DEF it, state

-----------------------------------------------------------------------------
(***************************************************************************)
(* The states of the automaton: kernels, items and what they lead to.      *)
(***************************************************************************)
\* The states of the automaton that the parser comes to, by the first item that
\* they are entered with: the state of item <<i, d>> has the number 10 * i + d.
Alive == {
    10, 11, 21, 31, 32, 33, 34, 35, 41, 51, 52, 53, 71, 72, 91, 131, 132,
    141, 171, 251, 261, 262, 263, 281, 282, 283, 291, 301, 311, 321, 331,
    341, 342, 351, 361, 371, 372, 373, 391, 401, 421, 441, 471, 491}

\* In six of them a second rule has the same first symbol on the stack.
Twin(c) ==
    {r \in 1..49 : \/ c = 371 /\ r = 38
                   \/ c = 391 /\ r = 41
                   \/ c = 421 /\ r = 43
                   \/ c = 441 /\ r = 46
                   \/ c = 471 /\ r = 48
                   \/ c = 491 /\ r = 27}

\* The kernel of a state: its first item, and its twins with the dot behind the
\* first symbol.
Kernel(c) == {<<c \div 10, c % 10>>} \cup {<<r, 1>> : r \in Twin(c)}

\* The number of a state.
NameOf(state) == CHOOSE c \in Alive : Kernel(c) = state

\* The items of the states of the head of a function.
LEMMA HeaderKernels ==
    /\ Kernel(10) = {<<1, 0>>}
    /\ Kernel(11) = {<<1, 1>>}
    /\ Kernel(21) = {<<2, 1>>}
    /\ Kernel(31) = {<<3, 1>>}
    /\ Kernel(32) = {<<3, 2>>}
    /\ Kernel(33) = {<<3, 3>>}
    /\ Kernel(34) = {<<3, 4>>}
    /\ Kernel(35) = {<<3, 5>>}
    /\ Kernel(41) = {<<4, 1>>}
<1>1. Kernel(10) = {<<1, 0>>}
  <2>1. 10 \div 10 = 1 /\ 10 % 10 = 0 /\ Twin(10) = {}
    BY DEF Twin
  <2> QED
    BY <2>1 DEF Kernel
<1>2. Kernel(11) = {<<1, 1>>}
  <2>1. 11 \div 10 = 1 /\ 11 % 10 = 1 /\ Twin(11) = {}
    BY DEF Twin
  <2> QED
    BY <2>1 DEF Kernel
<1>3. Kernel(21) = {<<2, 1>>}
  <2>1. 21 \div 10 = 2 /\ 21 % 10 = 1 /\ Twin(21) = {}
    BY DEF Twin
  <2> QED
    BY <2>1 DEF Kernel
<1>4. Kernel(31) = {<<3, 1>>}
  <2>1. 31 \div 10 = 3 /\ 31 % 10 = 1 /\ Twin(31) = {}
    BY DEF Twin
  <2> QED
    BY <2>1 DEF Kernel
<1>5. Kernel(32) = {<<3, 2>>}
  <2>1. 32 \div 10 = 3 /\ 32 % 10 = 2 /\ Twin(32) = {}
    BY DEF Twin
  <2> QED
    BY <2>1 DEF Kernel
<1>6. Kernel(33) = {<<3, 3>>}
  <2>1. 33 \div 10 = 3 /\ 33 % 10 = 3 /\ Twin(33) = {}
    BY DEF Twin
  <2> QED
    BY <2>1 DEF Kernel
<1>7. Kernel(34) = {<<3, 4>>}
  <2>1. 34 \div 10 = 3 /\ 34 % 10 = 4 /\ Twin(34) = {}
    BY DEF Twin
  <2> QED
    BY <2>1 DEF Kernel
<1>8. Kernel(35) = {<<3, 5>>}
  <2>1. 35 \div 10 = 3 /\ 35 % 10 = 5 /\ Twin(35) = {}
    BY DEF Twin
  <2> QED
    BY <2>1 DEF Kernel
<1>9. Kernel(41) = {<<4, 1>>}
  <2>1. 41 \div 10 = 4 /\ 41 % 10 = 1 /\ Twin(41) = {}
    BY DEF Twin
  <2> QED
    BY <2>1 DEF Kernel
<1> QED
  BY <1>1, <1>2, <1>3, <1>4, <1>5, <1>6, <1>7, <1>8, <1>9

\* The items of the states of blocks and declarations.
LEMMA BlockKernels ==
    /\ Kernel(51) = {<<5, 1>>}
    /\ Kernel(52) = {<<5, 2>>}
    /\ Kernel(53) = {<<5, 3>>}
    /\ Kernel(71) = {<<7, 1>>}
    /\ Kernel(72) = {<<7, 2>>}
    /\ Kernel(91) = {<<9, 1>>}
    /\ Kernel(131) = {<<13, 1>>}
    /\ Kernel(132) = {<<13, 2>>}
    /\ Kernel(141) = {<<14, 1>>}
    /\ Kernel(171) = {<<17, 1>>}
<1>1. Kernel(51) = {<<5, 1>>}
  <2>1. 51 \div 10 = 5 /\ 51 % 10 = 1 /\ Twin(51) = {}
    BY DEF Twin
  <2> QED
    BY <2>1 DEF Kernel
<1>2. Kernel(52) = {<<5, 2>>}
  <2>1. 52 \div 10 = 5 /\ 52 % 10 = 2 /\ Twin(52) = {}
    BY DEF Twin
  <2> QED
    BY <2>1 DEF Kernel
<1>3. Kernel(53) = {<<5, 3>>}
  <2>1. 53 \div 10 = 5 /\ 53 % 10 = 3 /\ Twin(53) = {}
    BY DEF Twin
  <2> QED
    BY <2>1 DEF Kernel
<1>4. Kernel(71) = {<<7, 1>>}
  <2>1. 71 \div 10 = 7 /\ 71 % 10 = 1 /\ Twin(71) = {}
    BY DEF Twin
  <2> QED
    BY <2>1 DEF Kernel
<1>5. Kernel(72) = {<<7, 2>>}
  <2>1. 72 \div 10 = 7 /\ 72 % 10 = 2 /\ Twin(72) = {}
    BY DEF Twin
  <2> QED
    BY <2>1 DEF Kernel
<1>6. Kernel(91) = {<<9, 1>>}
  <2>1. 91 \div 10 = 9 /\ 91 % 10 = 1 /\ Twin(91) = {}
    BY DEF Twin
  <2> QED
    BY <2>1 DEF Kernel
<1>7. Kernel(131) = {<<13, 1>>}
  <2>1. 131 \div 10 = 13 /\ 131 % 10 = 1 /\ Twin(131) = {}
    BY DEF Twin
  <2> QED
    BY <2>1 DEF Kernel
<1>8. Kernel(132) = {<<13, 2>>}
  <2>1. 132 \div 10 = 13 /\ 132 % 10 = 2 /\ Twin(132) = {}
    BY DEF Twin
  <2> QED
    BY <2>1 DEF Kernel
<1>9. Kernel(141) = {<<14, 1>>}
  <2>1. 141 \div 10 = 14 /\ 141 % 10 = 1 /\ Twin(141) = {}
    BY DEF Twin
  <2> QED
    BY <2>1 DEF Kernel
<1>10. Kernel(171) = {<<17, 1>>}
  <2>1. 171 \div 10 = 17 /\ 171 % 10 = 1 /\ Twin(171) = {}
    BY DEF Twin
  <2> QED
    BY <2>1 DEF Kernel
<1> QED
  BY <1>1, <1>2, <1>3, <1>4, <1>5, <1>6, <1>7, <1>8, <1>9, <1>10

\* The items of the states of statements and parentheses.
LEMMA ReturnKernels ==
    /\ Kernel(251) = {<<25, 1>>}
    /\ Kernel(261) = {<<26, 1>>}
    /\ Kernel(262) = {<<26, 2>>}
    /\ Kernel(263) = {<<26, 3>>}
    /\ Kernel(281) = {<<28, 1>>}
    /\ Kernel(282) = {<<28, 2>>}
    /\ Kernel(283) = {<<28, 3>>}
<1>1. Kernel(251) = {<<25, 1>>}
  <2>1. 251 \div 10 = 25 /\ 251 % 10 = 1 /\ Twin(251) = {}
    BY DEF Twin
  <2> QED
    BY <2>1 DEF Kernel
<1>2. Kernel(261) = {<<26, 1>>}
  <2>1. 261 \div 10 = 26 /\ 261 % 10 = 1 /\ Twin(261) = {}
    BY DEF Twin
  <2> QED
    BY <2>1 DEF Kernel
<1>3. Kernel(262) = {<<26, 2>>}
  <2>1. 262 \div 10 = 26 /\ 262 % 10 = 2 /\ Twin(262) = {}
    BY DEF Twin
  <2> QED
    BY <2>1 DEF Kernel
<1>4. Kernel(263) = {<<26, 3>>}
  <2>1. 263 \div 10 = 26 /\ 263 % 10 = 3 /\ Twin(263) = {}
    BY DEF Twin
  <2> QED
    BY <2>1 DEF Kernel
<1>5. Kernel(281) = {<<28, 1>>}
  <2>1. 281 \div 10 = 28 /\ 281 % 10 = 1 /\ Twin(281) = {}
    BY DEF Twin
  <2> QED
    BY <2>1 DEF Kernel
<1>6. Kernel(282) = {<<28, 2>>}
  <2>1. 282 \div 10 = 28 /\ 282 % 10 = 2 /\ Twin(282) = {}
    BY DEF Twin
  <2> QED
    BY <2>1 DEF Kernel
<1>7. Kernel(283) = {<<28, 3>>}
  <2>1. 283 \div 10 = 28 /\ 283 % 10 = 3 /\ Twin(283) = {}
    BY DEF Twin
  <2> QED
    BY <2>1 DEF Kernel
<1> QED
  BY <1>1, <1>2, <1>3, <1>4, <1>5, <1>6, <1>7

\* The items of the states of operands.
LEMMA OperandKernels ==
    /\ Kernel(291) = {<<29, 1>>}
    /\ Kernel(301) = {<<30, 1>>}
    /\ Kernel(311) = {<<31, 1>>}
    /\ Kernel(321) = {<<32, 1>>}
    /\ Kernel(331) = {<<33, 1>>}
    /\ Kernel(341) = {<<34, 1>>}
    /\ Kernel(342) = {<<34, 2>>}
    /\ Kernel(351) = {<<35, 1>>}
<1>1. Kernel(291) = {<<29, 1>>}
  <2>1. 291 \div 10 = 29 /\ 291 % 10 = 1 /\ Twin(291) = {}
    BY DEF Twin
  <2> QED
    BY <2>1 DEF Kernel
<1>2. Kernel(301) = {<<30, 1>>}
  <2>1. 301 \div 10 = 30 /\ 301 % 10 = 1 /\ Twin(301) = {}
    BY DEF Twin
  <2> QED
    BY <2>1 DEF Kernel
<1>3. Kernel(311) = {<<31, 1>>}
  <2>1. 311 \div 10 = 31 /\ 311 % 10 = 1 /\ Twin(311) = {}
    BY DEF Twin
  <2> QED
    BY <2>1 DEF Kernel
<1>4. Kernel(321) = {<<32, 1>>}
  <2>1. 321 \div 10 = 32 /\ 321 % 10 = 1 /\ Twin(321) = {}
    BY DEF Twin
  <2> QED
    BY <2>1 DEF Kernel
<1>5. Kernel(331) = {<<33, 1>>}
  <2>1. 331 \div 10 = 33 /\ 331 % 10 = 1 /\ Twin(331) = {}
    BY DEF Twin
  <2> QED
    BY <2>1 DEF Kernel
<1>6. Kernel(341) = {<<34, 1>>}
  <2>1. 341 \div 10 = 34 /\ 341 % 10 = 1 /\ Twin(341) = {}
    BY DEF Twin
  <2> QED
    BY <2>1 DEF Kernel
<1>7. Kernel(342) = {<<34, 2>>}
  <2>1. 342 \div 10 = 34 /\ 342 % 10 = 2 /\ Twin(342) = {}
    BY DEF Twin
  <2> QED
    BY <2>1 DEF Kernel
<1>8. Kernel(351) = {<<35, 1>>}
  <2>1. 351 \div 10 = 35 /\ 351 % 10 = 1 /\ Twin(351) = {}
    BY DEF Twin
  <2> QED
    BY <2>1 DEF Kernel
<1> QED
  BY <1>1, <1>2, <1>3, <1>4, <1>5, <1>6, <1>7, <1>8

\* The items of the states of operators.
LEMMA ChainKernels ==
    /\ Kernel(361) = {<<36, 1>>}
    /\ Kernel(371) = {<<37, 1>>, <<38, 1>>}
    /\ Kernel(372) = {<<37, 2>>}
    /\ Kernel(373) = {<<37, 3>>}
    /\ Kernel(391) = {<<39, 1>>, <<41, 1>>}
    /\ Kernel(401) = {<<40, 1>>}
    /\ Kernel(421) = {<<42, 1>>, <<43, 1>>}
    /\ Kernel(441) = {<<44, 1>>, <<46, 1>>}
    /\ Kernel(471) = {<<47, 1>>, <<48, 1>>}
    /\ Kernel(491) = {<<49, 1>>, <<27, 1>>}
<1>1. Kernel(361) = {<<36, 1>>}
  <2>1. 361 \div 10 = 36 /\ 361 % 10 = 1 /\ Twin(361) = {}
    BY DEF Twin
  <2> QED
    BY <2>1 DEF Kernel
<1>2. Kernel(371) = {<<37, 1>>, <<38, 1>>}
  <2>1. 371 \div 10 = 37 /\ 371 % 10 = 1 /\ Twin(371) = {38}
    BY DEF Twin
  <2> QED
    BY <2>1 DEF Kernel
<1>3. Kernel(372) = {<<37, 2>>}
  <2>1. 372 \div 10 = 37 /\ 372 % 10 = 2 /\ Twin(372) = {}
    BY DEF Twin
  <2> QED
    BY <2>1 DEF Kernel
<1>4. Kernel(373) = {<<37, 3>>}
  <2>1. 373 \div 10 = 37 /\ 373 % 10 = 3 /\ Twin(373) = {}
    BY DEF Twin
  <2> QED
    BY <2>1 DEF Kernel
<1>5. Kernel(391) = {<<39, 1>>, <<41, 1>>}
  <2>1. 391 \div 10 = 39 /\ 391 % 10 = 1 /\ Twin(391) = {41}
    BY DEF Twin
  <2> QED
    BY <2>1 DEF Kernel
<1>6. Kernel(401) = {<<40, 1>>}
  <2>1. 401 \div 10 = 40 /\ 401 % 10 = 1 /\ Twin(401) = {}
    BY DEF Twin
  <2> QED
    BY <2>1 DEF Kernel
<1>7. Kernel(421) = {<<42, 1>>, <<43, 1>>}
  <2>1. 421 \div 10 = 42 /\ 421 % 10 = 1 /\ Twin(421) = {43}
    BY DEF Twin
  <2> QED
    BY <2>1 DEF Kernel
<1>8. Kernel(441) = {<<44, 1>>, <<46, 1>>}
  <2>1. 441 \div 10 = 44 /\ 441 % 10 = 1 /\ Twin(441) = {46}
    BY DEF Twin
  <2> QED
    BY <2>1 DEF Kernel
<1>9. Kernel(471) = {<<47, 1>>, <<48, 1>>}
  <2>1. 471 \div 10 = 47 /\ 471 % 10 = 1 /\ Twin(471) = {48}
    BY DEF Twin
  <2> QED
    BY <2>1 DEF Kernel
<1>10. Kernel(491) = {<<49, 1>>, <<27, 1>>}
  <2>1. 491 \div 10 = 49 /\ 491 % 10 = 1 /\ Twin(491) = {27}
    BY DEF Twin
  <2> QED
    BY <2>1 DEF Kernel
<1> QED
  BY <1>1, <1>2, <1>3, <1>4, <1>5, <1>6, <1>7, <1>8, <1>9, <1>10


\* Different numbers are different states.
LEMMA KernelName ==
    ASSUME NEW c \in Alive
    PROVE  NameOf(Kernel(c)) = c
<1>1. ASSUME NEW d \in Alive, Kernel(c) = Kernel(d) PROVE c = d
  <2> DEFINE p == <<c \div 10, c % 10>>
             q == <<d \div 10, d % 10>>
  <2>1. c \in Nat /\ d \in Nat
    BY DEF Alive
  <2>2. p[1] = c \div 10 /\ p[2] = c % 10 /\ q[1] = d \div 10 /\ q[2] = d % 10
    OBVIOUS
  <2>3. p \in Kernel(c) /\ q \in Kernel(d)
    BY DEF Kernel
  <2>4. p = q \/ \E r \in Twin(d) : p = <<r, 1>>
    BY <1>1, <2>3 DEF Kernel
  <2> HIDE DEF p, q
  <2>5. CASE p = q
    BY <2>1, <2>2, <2>5
  <2>6. ASSUME NEW r \in Twin(d), p = <<r, 1>> PROVE FALSE
    <3>1. r \in {38, 41, 43, 46, 48, 27}
      BY DEF Twin
    <3>2. c = 10 * r + 1
      BY <2>1, <2>2, <2>6, <3>1
    <3> QED
      BY <3>1, <3>2 DEF Alive
  <2> QED
    BY <2>4, <2>5, <2>6
<1> QED
  BY <1>1 DEF NameOf

\* The symbols behind the dots of items of the rules 1 to 5.
LEMMA ProgramDots ==
    /\ AfterDot(<<1, 0>>) = {"CompUnit"}
    /\ AfterDot(<<1, 1>>) = {"$end"}
    /\ AfterDot(<<2, 1>>) = {}
    /\ AfterDot(<<3, 1>>) = {"IDENT"}
    /\ AfterDot(<<3, 2>>) = {"("}
    /\ AfterDot(<<3, 3>>) = {")"}
    /\ AfterDot(<<3, 4>>) = {"Block"}
    /\ AfterDot(<<3, 5>>) = {}
    /\ AfterDot(<<4, 1>>) = {}
    /\ AfterDot(<<5, 1>>) = {"BlockItems"}
    /\ AfterDot(<<5, 2>>) = {CloseBlock}
    /\ AfterDot(<<5, 3>>) = {}
<1>1. /\ AfterDot(<<1, 0>>) = {"CompUnit"}
      /\ AfterDot(<<1, 1>>) = {"$end"}
  <2>1. Rules[1].rhs = <<"CompUnit", "$end">>
    BY AcceptRule DEF IsRule
  <2> DEFINE s == Rules[1].rhs
  <2>2. Len(s) = 2 /\ s[1] = "CompUnit" /\ s[2] = "$end"
    BY <2>1
  <2> HIDE DEF s
  <2>3. AfterDot(<<1, 0>>) = {"CompUnit"}
    <3>1. AfterDot(<<1, 0>>) = IF 0 < Len(s) THEN {s[0 + 1]} ELSE {}
      BY DotFacts DEF s
    <3> QED
      BY <2>2, <3>1
  <2>4. AfterDot(<<1, 1>>) = {"$end"}
    <3>1. AfterDot(<<1, 1>>) = IF 1 < Len(s) THEN {s[1 + 1]} ELSE {}
      BY DotFacts DEF s
    <3> QED
      BY <2>2, <3>1
  <2> QED
    BY <2>3, <2>4
<1>2. /\ AfterDot(<<2, 1>>) = {}
  <2>1. Rules[2].rhs = <<"FuncDef">>
    BY ProgramRulesAt DEF IsRule
  <2> DEFINE s == Rules[2].rhs
  <2>2. Len(s) = 1
    BY <2>1
  <2> HIDE DEF s
  <2>3. AfterDot(<<2, 1>>) = {}
    <3>1. AfterDot(<<2, 1>>) = IF 1 < Len(s) THEN {s[1 + 1]} ELSE {}
      BY DotFacts DEF s
    <3> QED
      BY <2>2, <3>1
  <2> QED
    BY <2>3
<1>3. /\ AfterDot(<<3, 1>>) = {"IDENT"}
      /\ AfterDot(<<3, 2>>) = {"("}
      /\ AfterDot(<<3, 3>>) = {")"}
      /\ AfterDot(<<3, 4>>) = {"Block"}
      /\ AfterDot(<<3, 5>>) = {}
  <2>1. Rules[3].rhs = <<"FuncType", "IDENT", "(", ")", "Block">>
    BY ProgramRulesAt DEF IsRule
  <2> DEFINE s == Rules[3].rhs
  <2>2. Len(s) = 5 /\ s[2] = "IDENT" /\ s[3] = "(" /\ s[4] = ")" /\ s[5] = "Block"
    BY <2>1
  <2> HIDE DEF s
  <2>3. AfterDot(<<3, 1>>) = {"IDENT"}
    <3>1. AfterDot(<<3, 1>>) = IF 1 < Len(s) THEN {s[1 + 1]} ELSE {}
      BY DotFacts DEF s
    <3> QED
      BY <2>2, <3>1
  <2>4. AfterDot(<<3, 2>>) = {"("}
    <3>1. AfterDot(<<3, 2>>) = IF 2 < Len(s) THEN {s[2 + 1]} ELSE {}
      BY DotFacts DEF s
    <3> QED
      BY <2>2, <3>1
  <2>5. AfterDot(<<3, 3>>) = {")"}
    <3>1. AfterDot(<<3, 3>>) = IF 3 < Len(s) THEN {s[3 + 1]} ELSE {}
      BY DotFacts DEF s
    <3> QED
      BY <2>2, <3>1
  <2>6. AfterDot(<<3, 4>>) = {"Block"}
    <3>1. AfterDot(<<3, 4>>) = IF 4 < Len(s) THEN {s[4 + 1]} ELSE {}
      BY DotFacts DEF s
    <3> QED
      BY <2>2, <3>1
  <2>7. AfterDot(<<3, 5>>) = {}
    <3>1. AfterDot(<<3, 5>>) = IF 5 < Len(s) THEN {s[5 + 1]} ELSE {}
      BY DotFacts DEF s
    <3> QED
      BY <2>2, <3>1
  <2> QED
    BY <2>3, <2>4, <2>5, <2>6, <2>7
<1>4. /\ AfterDot(<<4, 1>>) = {}
  <2>1. Rules[4].rhs = <<"INT">>
    BY ProgramRulesAt DEF IsRule
  <2> DEFINE s == Rules[4].rhs
  <2>2. Len(s) = 1
    BY <2>1
  <2> HIDE DEF s
  <2>3. AfterDot(<<4, 1>>) = {}
    <3>1. AfterDot(<<4, 1>>) = IF 1 < Len(s) THEN {s[1 + 1]} ELSE {}
      BY DotFacts DEF s
    <3> QED
      BY <2>2, <3>1
  <2> QED
    BY <2>3
<1>5. /\ AfterDot(<<5, 1>>) = {"BlockItems"}
      /\ AfterDot(<<5, 2>>) = {CloseBlock}
      /\ AfterDot(<<5, 3>>) = {}
  <2>1. Rules[5].rhs = <<OpenBlock, "BlockItems", CloseBlock>>
    BY ProgramRulesAt DEF IsRule
  <2> DEFINE s == Rules[5].rhs
  <2>2. Len(s) = 3 /\ s[2] = "BlockItems" /\ s[3] = CloseBlock
    BY <2>1
  <2> HIDE DEF s
  <2>3. AfterDot(<<5, 1>>) = {"BlockItems"}
    <3>1. AfterDot(<<5, 1>>) = IF 1 < Len(s) THEN {s[1 + 1]} ELSE {}
      BY DotFacts DEF s
    <3> QED
      BY <2>2, <3>1
  <2>4. AfterDot(<<5, 2>>) = {CloseBlock}
    <3>1. AfterDot(<<5, 2>>) = IF 2 < Len(s) THEN {s[2 + 1]} ELSE {}
      BY DotFacts DEF s
    <3> QED
      BY <2>2, <3>1
  <2>5. AfterDot(<<5, 3>>) = {}
    <3>1. AfterDot(<<5, 3>>) = IF 3 < Len(s) THEN {s[3 + 1]} ELSE {}
      BY DotFacts DEF s
    <3> QED
      BY <2>2, <3>1
  <2> QED
    BY <2>3, <2>4, <2>5
<1> QED
  BY <1>1, <1>2, <1>3, <1>4, <1>5

\* The symbols behind the dots of items of the rules 6 to 19.
LEMMA ItemDots ==
    /\ AfterDot(<<7, 1>>) = {"BlockItems"}
    /\ AfterDot(<<7, 2>>) = {}
    /\ AfterDot(<<9, 1>>) = {}
    /\ AfterDot(<<13, 1>>) = {"BType"}
    /\ AfterDot(<<13, 2>>) = {"ConstDef"}
    /\ AfterDot(<<14, 1>>) = {}
    /\ AfterDot(<<17, 1>>) = {"str="}
<1>1. /\ AfterDot(<<7, 1>>) = {"BlockItems"}
      /\ AfterDot(<<7, 2>>) = {}
  <2>1. Rules[7].rhs = <<"BlockItem", "BlockItems">>
    BY ItemRulesAt DEF IsRule
  <2> DEFINE s == Rules[7].rhs
  <2>2. Len(s) = 2 /\ s[2] = "BlockItems"
    BY <2>1
  <2> HIDE DEF s
  <2>3. AfterDot(<<7, 1>>) = {"BlockItems"}
    <3>1. AfterDot(<<7, 1>>) = IF 1 < Len(s) THEN {s[1 + 1]} ELSE {}
      BY DotFacts DEF s
    <3> QED
      BY <2>2, <3>1
  <2>4. AfterDot(<<7, 2>>) = {}
    <3>1. AfterDot(<<7, 2>>) = IF 2 < Len(s) THEN {s[2 + 1]} ELSE {}
      BY DotFacts DEF s
    <3> QED
      BY <2>2, <3>1
  <2> QED
    BY <2>3, <2>4
<1>2. /\ AfterDot(<<9, 1>>) = {}
  <2>1. Rules[9].rhs = <<"Stmt">>
    BY ItemRulesAt DEF IsRule
  <2> DEFINE s == Rules[9].rhs
  <2>2. Len(s) = 1
    BY <2>1
  <2> HIDE DEF s
  <2>3. AfterDot(<<9, 1>>) = {}
    <3>1. AfterDot(<<9, 1>>) = IF 1 < Len(s) THEN {s[1 + 1]} ELSE {}
      BY DotFacts DEF s
    <3> QED
      BY <2>2, <3>1
  <2> QED
    BY <2>3
<1>3. /\ AfterDot(<<13, 1>>) = {"BType"}
      /\ AfterDot(<<13, 2>>) = {"ConstDef"}
  <2>1. Rules[13].rhs = <<"CONST", "BType", "ConstDef", "ConstDefs", StrSemicolon>>
    BY ConstRulesAt DEF IsRule
  <2> DEFINE s == Rules[13].rhs
  <2>2. Len(s) = 5 /\ s[2] = "BType" /\ s[3] = "ConstDef"
    BY <2>1
  <2> HIDE DEF s
  <2>3. AfterDot(<<13, 1>>) = {"BType"}
    <3>1. AfterDot(<<13, 1>>) = IF 1 < Len(s) THEN {s[1 + 1]} ELSE {}
      BY DotFacts DEF s
    <3> QED
      BY <2>2, <3>1
  <2>4. AfterDot(<<13, 2>>) = {"ConstDef"}
    <3>1. AfterDot(<<13, 2>>) = IF 2 < Len(s) THEN {s[2 + 1]} ELSE {}
      BY DotFacts DEF s
    <3> QED
      BY <2>2, <3>1
  <2> QED
    BY <2>3, <2>4
<1>4. /\ AfterDot(<<14, 1>>) = {}
  <2>1. Rules[14].rhs = <<"INT">>
    BY ConstRulesAt DEF IsRule
  <2> DEFINE s == Rules[14].rhs
  <2>2. Len(s) = 1
    BY <2>1
  <2> HIDE DEF s
  <2>3. AfterDot(<<14, 1>>) = {}
    <3>1. AfterDot(<<14, 1>>) = IF 1 < Len(s) THEN {s[1 + 1]} ELSE {}
      BY DotFacts DEF s
    <3> QED
      BY <2>2, <3>1
  <2> QED
    BY <2>3
<1>5. /\ AfterDot(<<17, 1>>) = {"str="}
  <2>1. Rules[17].rhs = <<"IDENT", "str=", "ConstInitVal">>
    BY ConstRulesAt DEF IsRule
  <2> DEFINE s == Rules[17].rhs
  <2>2. Len(s) = 3 /\ s[2] = "str="
    BY <2>1
  <2> HIDE DEF s
  <2>3. AfterDot(<<17, 1>>) = {"str="}
    <3>1. AfterDot(<<17, 1>>) = IF 1 < Len(s) THEN {s[1 + 1]} ELSE {}
      BY DotFacts DEF s
    <3> QED
      BY <2>2, <3>1
  <2> QED
    BY <2>3
<1> QED
  BY <1>1, <1>2, <1>3, <1>4, <1>5

\* The symbols behind the dots of items of the rules 20 to 28.
LEMMA StmtDots ==
    /\ AfterDot(<<25, 1>>) = {"str="}
    /\ AfterDot(<<26, 1>>) = {"Exp"}
    /\ AfterDot(<<26, 2>>) = {Semicolon}
    /\ AfterDot(<<26, 3>>) = {}
    /\ AfterDot(<<27, 1>>) = {}
    /\ AfterDot(<<28, 1>>) = {"Exp"}
    /\ AfterDot(<<28, 2>>) = {")"}
    /\ AfterDot(<<28, 3>>) = {}
<1>1. /\ AfterDot(<<25, 1>>) = {"str="}
  <2>1. Rules[25].rhs = <<"LVal", "str=", "Exp", StrSemicolon>>
    BY StmtRulesAt DEF IsRule
  <2> DEFINE s == Rules[25].rhs
  <2>2. Len(s) = 4 /\ s[2] = "str="
    BY <2>1
  <2> HIDE DEF s
  <2>3. AfterDot(<<25, 1>>) = {"str="}
    <3>1. AfterDot(<<25, 1>>) = IF 1 < Len(s) THEN {s[1 + 1]} ELSE {}
      BY DotFacts DEF s
    <3> QED
      BY <2>2, <3>1
  <2> QED
    BY <2>3
<1>2. /\ AfterDot(<<26, 1>>) = {"Exp"}
      /\ AfterDot(<<26, 2>>) = {Semicolon}
      /\ AfterDot(<<26, 3>>) = {}
  <2>1. Rules[26].rhs = <<"RETURN", "Exp", Semicolon>>
    BY StmtRulesAt DEF IsRule
  <2> DEFINE s == Rules[26].rhs
  <2>2. Len(s) = 3 /\ s[2] = "Exp" /\ s[3] = Semicolon
    BY <2>1
  <2> HIDE DEF s
  <2>3. AfterDot(<<26, 1>>) = {"Exp"}
    <3>1. AfterDot(<<26, 1>>) = IF 1 < Len(s) THEN {s[1 + 1]} ELSE {}
      BY DotFacts DEF s
    <3> QED
      BY <2>2, <3>1
  <2>4. AfterDot(<<26, 2>>) = {Semicolon}
    <3>1. AfterDot(<<26, 2>>) = IF 2 < Len(s) THEN {s[2 + 1]} ELSE {}
      BY DotFacts DEF s
    <3> QED
      BY <2>2, <3>1
  <2>5. AfterDot(<<26, 3>>) = {}
    <3>1. AfterDot(<<26, 3>>) = IF 3 < Len(s) THEN {s[3 + 1]} ELSE {}
      BY DotFacts DEF s
    <3> QED
      BY <2>2, <3>1
  <2> QED
    BY <2>3, <2>4, <2>5
<1>3. /\ AfterDot(<<27, 1>>) = {}
  <2>1. Rules[27].rhs = <<"LOrExp">>
    BY StmtRulesAt DEF IsRule
  <2> DEFINE s == Rules[27].rhs
  <2>2. Len(s) = 1
    BY <2>1
  <2> HIDE DEF s
  <2>3. AfterDot(<<27, 1>>) = {}
    <3>1. AfterDot(<<27, 1>>) = IF 1 < Len(s) THEN {s[1 + 1]} ELSE {}
      BY DotFacts DEF s
    <3> QED
      BY <2>2, <3>1
  <2> QED
    BY <2>3
<1>4. /\ AfterDot(<<28, 1>>) = {"Exp"}
      /\ AfterDot(<<28, 2>>) = {")"}
      /\ AfterDot(<<28, 3>>) = {}
  <2>1. Rules[28].rhs = <<"(", "Exp", ")">>
    BY OperandRulesAt DEF IsRule
  <2> DEFINE s == Rules[28].rhs
  <2>2. Len(s) = 3 /\ s[2] = "Exp" /\ s[3] = ")"
    BY <2>1
  <2> HIDE DEF s
  <2>3. AfterDot(<<28, 1>>) = {"Exp"}
    <3>1. AfterDot(<<28, 1>>) = IF 1 < Len(s) THEN {s[1 + 1]} ELSE {}
      BY DotFacts DEF s
    <3> QED
      BY <2>2, <3>1
  <2>4. AfterDot(<<28, 2>>) = {")"}
    <3>1. AfterDot(<<28, 2>>) = IF 2 < Len(s) THEN {s[2 + 1]} ELSE {}
      BY DotFacts DEF s
    <3> QED
      BY <2>2, <3>1
  <2>5. AfterDot(<<28, 3>>) = {}
    <3>1. AfterDot(<<28, 3>>) = IF 3 < Len(s) THEN {s[3 + 1]} ELSE {}
      BY DotFacts DEF s
    <3> QED
      BY <2>2, <3>1
  <2> QED
    BY <2>3, <2>4, <2>5
<1> QED
  BY <1>1, <1>2, <1>3, <1>4

\* The symbols behind the dots of items of the rules 29 to 35.
LEMMA OperandDots ==
    /\ AfterDot(<<29, 1>>) = {}
    /\ AfterDot(<<30, 1>>) = {}
    /\ AfterDot(<<31, 1>>) = {}
    /\ AfterDot(<<32, 1>>) = {}
    /\ AfterDot(<<33, 1>>) = {}
    /\ AfterDot(<<34, 1>>) = {"UnaryExp"}
    /\ AfterDot(<<34, 2>>) = {}
    /\ AfterDot(<<35, 1>>) = {}
<1>1. /\ AfterDot(<<29, 1>>) = {}
  <2>1. Rules[29].rhs = <<"Number">>
    BY OperandRulesAt DEF IsRule
  <2> DEFINE s == Rules[29].rhs
  <2>2. Len(s) = 1
    BY <2>1
  <2> HIDE DEF s
  <2>3. AfterDot(<<29, 1>>) = {}
    <3>1. AfterDot(<<29, 1>>) = IF 1 < Len(s) THEN {s[1 + 1]} ELSE {}
      BY DotFacts DEF s
    <3> QED
      BY <2>2, <3>1
  <2> QED
    BY <2>3
<1>2. /\ AfterDot(<<30, 1>>) = {}
  <2>1. Rules[30].rhs = <<"LVal">>
    BY OperandRulesAt DEF IsRule
  <2> DEFINE s == Rules[30].rhs
  <2>2. Len(s) = 1
    BY <2>1
  <2> HIDE DEF s
  <2>3. AfterDot(<<30, 1>>) = {}
    <3>1. AfterDot(<<30, 1>>) = IF 1 < Len(s) THEN {s[1 + 1]} ELSE {}
      BY DotFacts DEF s
    <3> QED
      BY <2>2, <3>1
  <2> QED
    BY <2>3
<1>3. /\ AfterDot(<<31, 1>>) = {}
  <2>1. Rules[31].rhs = <<"IDENT">>
    BY OperandRulesAt DEF IsRule
  <2> DEFINE s == Rules[31].rhs
  <2>2. Len(s) = 1
    BY <2>1
  <2> HIDE DEF s
  <2>3. AfterDot(<<31, 1>>) = {}
    <3>1. AfterDot(<<31, 1>>) = IF 1 < Len(s) THEN {s[1 + 1]} ELSE {}
      BY DotFacts DEF s
    <3> QED
      BY <2>2, <3>1
  <2> QED
    BY <2>3
<1>4. /\ AfterDot(<<32, 1>>) = {}
  <2>1. Rules[32].rhs = <<"INT_CONST">>
    BY OperandRulesAt DEF IsRule
  <2> DEFINE s == Rules[32].rhs
  <2>2. Len(s) = 1
    BY <2>1
  <2> HIDE DEF s
  <2>3. AfterDot(<<32, 1>>) = {}
    <3>1. AfterDot(<<32, 1>>) = IF 1 < Len(s) THEN {s[1 + 1]} ELSE {}
      BY DotFacts DEF s
    <3> QED
      BY <2>2, <3>1
  <2> QED
    BY <2>3
<1>5. /\ AfterDot(<<33, 1>>) = {}
  <2>1. Rules[33].rhs = <<"PrimaryExp">>
    BY OperandRulesAt DEF IsRule
  <2> DEFINE s == Rules[33].rhs
  <2>2. Len(s) = 1
    BY <2>1
  <2> HIDE DEF s
  <2>3. AfterDot(<<33, 1>>) = {}
    <3>1. AfterDot(<<33, 1>>) = IF 1 < Len(s) THEN {s[1 + 1]} ELSE {}
      BY DotFacts DEF s
    <3> QED
      BY <2>2, <3>1
  <2> QED
    BY <2>3
<1>6. /\ AfterDot(<<34, 1>>) = {"UnaryExp"}
      /\ AfterDot(<<34, 2>>) = {}
  <2>1. Rules[34].rhs = <<"UnaryOp", "UnaryExp">>
    BY OperandRulesAt DEF IsRule
  <2> DEFINE s == Rules[34].rhs
  <2>2. Len(s) = 2 /\ s[2] = "UnaryExp"
    BY <2>1
  <2> HIDE DEF s
  <2>3. AfterDot(<<34, 1>>) = {"UnaryExp"}
    <3>1. AfterDot(<<34, 1>>) = IF 1 < Len(s) THEN {s[1 + 1]} ELSE {}
      BY DotFacts DEF s
    <3> QED
      BY <2>2, <3>1
  <2>4. AfterDot(<<34, 2>>) = {}
    <3>1. AfterDot(<<34, 2>>) = IF 2 < Len(s) THEN {s[2 + 1]} ELSE {}
      BY DotFacts DEF s
    <3> QED
      BY <2>2, <3>1
  <2> QED
    BY <2>3, <2>4
<1>7. /\ AfterDot(<<35, 1>>) = {}
  <2>1. Rules[35].rhs = <<"OPT">>
    BY OperandRulesAt DEF IsRule
  <2> DEFINE s == Rules[35].rhs
  <2>2. Len(s) = 1
    BY <2>1
  <2> HIDE DEF s
  <2>3. AfterDot(<<35, 1>>) = {}
    <3>1. AfterDot(<<35, 1>>) = IF 1 < Len(s) THEN {s[1 + 1]} ELSE {}
      BY DotFacts DEF s
    <3> QED
      BY <2>2, <3>1
  <2> QED
    BY <2>3
<1> QED
  BY <1>1, <1>2, <1>3, <1>4, <1>5, <1>6, <1>7

\* The symbols behind the dots of items of the rules 36 to 49.
LEMMA ChainDots ==
    /\ AfterDot(<<36, 1>>) = {}
    /\ AfterDot(<<37, 1>>) = {"BinOp"}
    /\ AfterDot(<<37, 2>>) = {"UnaryExp"}
    /\ AfterDot(<<37, 3>>) = {}
    /\ AfterDot(<<38, 1>>) = {}
    /\ AfterDot(<<39, 1>>) = {"BinOp"}
    /\ AfterDot(<<40, 1>>) = {}
    /\ AfterDot(<<41, 1>>) = {}
    /\ AfterDot(<<42, 1>>) = {"CmpOp"}
    /\ AfterDot(<<43, 1>>) = {}
    /\ AfterDot(<<44, 1>>) = {"CmpOp"}
    /\ AfterDot(<<46, 1>>) = {}
    /\ AfterDot(<<47, 1>>) = {"OPT"}
    /\ AfterDot(<<48, 1>>) = {}
    /\ AfterDot(<<49, 1>>) = {"OPT"}
<1>1. /\ AfterDot(<<36, 1>>) = {}
  <2>1. Rules[36].rhs = <<"UnaryExp">>
    BY ArithmeticRulesAt DEF IsRule
  <2> DEFINE s == Rules[36].rhs
  <2>2. Len(s) = 1
    BY <2>1
  <2> HIDE DEF s
  <2>3. AfterDot(<<36, 1>>) = {}
    <3>1. AfterDot(<<36, 1>>) = IF 1 < Len(s) THEN {s[1 + 1]} ELSE {}
      BY DotFacts DEF s
    <3> QED
      BY <2>2, <3>1
  <2> QED
    BY <2>3
<1>2. /\ AfterDot(<<37, 1>>) = {"BinOp"}
      /\ AfterDot(<<37, 2>>) = {"UnaryExp"}
      /\ AfterDot(<<37, 3>>) = {}
  <2>1. Rules[37].rhs = <<"MulExp", "BinOp", "UnaryExp">>
    BY ArithmeticRulesAt DEF IsRule
  <2> DEFINE s == Rules[37].rhs
  <2>2. Len(s) = 3 /\ s[2] = "BinOp" /\ s[3] = "UnaryExp"
    BY <2>1
  <2> HIDE DEF s
  <2>3. AfterDot(<<37, 1>>) = {"BinOp"}
    <3>1. AfterDot(<<37, 1>>) = IF 1 < Len(s) THEN {s[1 + 1]} ELSE {}
      BY DotFacts DEF s
    <3> QED
      BY <2>2, <3>1
  <2>4. AfterDot(<<37, 2>>) = {"UnaryExp"}
    <3>1. AfterDot(<<37, 2>>) = IF 2 < Len(s) THEN {s[2 + 1]} ELSE {}
      BY DotFacts DEF s
    <3> QED
      BY <2>2, <3>1
  <2>5. AfterDot(<<37, 3>>) = {}
    <3>1. AfterDot(<<37, 3>>) = IF 3 < Len(s) THEN {s[3 + 1]} ELSE {}
      BY DotFacts DEF s
    <3> QED
      BY <2>2, <3>1
  <2> QED
    BY <2>3, <2>4, <2>5
<1>3. /\ AfterDot(<<38, 1>>) = {}
  <2>1. Rules[38].rhs = <<"MulExp">>
    BY ArithmeticRulesAt DEF IsRule
  <2> DEFINE s == Rules[38].rhs
  <2>2. Len(s) = 1
    BY <2>1
  <2> HIDE DEF s
  <2>3. AfterDot(<<38, 1>>) = {}
    <3>1. AfterDot(<<38, 1>>) = IF 1 < Len(s) THEN {s[1 + 1]} ELSE {}
      BY DotFacts DEF s
    <3> QED
      BY <2>2, <3>1
  <2> QED
    BY <2>3
<1>4. /\ AfterDot(<<39, 1>>) = {"BinOp"}
  <2>1. Rules[39].rhs = <<"AddExp", "BinOp", "MulExp">>
    BY ArithmeticRulesAt DEF IsRule
  <2> DEFINE s == Rules[39].rhs
  <2>2. Len(s) = 3 /\ s[2] = "BinOp"
    BY <2>1
  <2> HIDE DEF s
  <2>3. AfterDot(<<39, 1>>) = {"BinOp"}
    <3>1. AfterDot(<<39, 1>>) = IF 1 < Len(s) THEN {s[1 + 1]} ELSE {}
      BY DotFacts DEF s
    <3> QED
      BY <2>2, <3>1
  <2> QED
    BY <2>3
<1>5. /\ AfterDot(<<40, 1>>) = {}
  <2>1. Rules[40].rhs = <<"OPT">>
    BY ArithmeticRulesAt DEF IsRule
  <2> DEFINE s == Rules[40].rhs
  <2>2. Len(s) = 1
    BY <2>1
  <2> HIDE DEF s
  <2>3. AfterDot(<<40, 1>>) = {}
    <3>1. AfterDot(<<40, 1>>) = IF 1 < Len(s) THEN {s[1 + 1]} ELSE {}
      BY DotFacts DEF s
    <3> QED
      BY <2>2, <3>1
  <2> QED
    BY <2>3
<1>6. /\ AfterDot(<<41, 1>>) = {}
  <2>1. Rules[41].rhs = <<"AddExp">>
    BY RelationRulesAt DEF IsRule
  <2> DEFINE s == Rules[41].rhs
  <2>2. Len(s) = 1
    BY <2>1
  <2> HIDE DEF s
  <2>3. AfterDot(<<41, 1>>) = {}
    <3>1. AfterDot(<<41, 1>>) = IF 1 < Len(s) THEN {s[1 + 1]} ELSE {}
      BY DotFacts DEF s
    <3> QED
      BY <2>2, <3>1
  <2> QED
    BY <2>3
<1>7. /\ AfterDot(<<42, 1>>) = {"CmpOp"}
  <2>1. Rules[42].rhs = <<"RelExp", "CmpOp", "AddExp">>
    BY RelationRulesAt DEF IsRule
  <2> DEFINE s == Rules[42].rhs
  <2>2. Len(s) = 3 /\ s[2] = "CmpOp"
    BY <2>1
  <2> HIDE DEF s
  <2>3. AfterDot(<<42, 1>>) = {"CmpOp"}
    <3>1. AfterDot(<<42, 1>>) = IF 1 < Len(s) THEN {s[1 + 1]} ELSE {}
      BY DotFacts DEF s
    <3> QED
      BY <2>2, <3>1
  <2> QED
    BY <2>3
<1>8. /\ AfterDot(<<43, 1>>) = {}
  <2>1. Rules[43].rhs = <<"RelExp">>
    BY RelationRulesAt DEF IsRule
  <2> DEFINE s == Rules[43].rhs
  <2>2. Len(s) = 1
    BY <2>1
  <2> HIDE DEF s
  <2>3. AfterDot(<<43, 1>>) = {}
    <3>1. AfterDot(<<43, 1>>) = IF 1 < Len(s) THEN {s[1 + 1]} ELSE {}
      BY DotFacts DEF s
    <3> QED
      BY <2>2, <3>1
  <2> QED
    BY <2>3
<1>9. /\ AfterDot(<<44, 1>>) = {"CmpOp"}
  <2>1. Rules[44].rhs = <<"EqExp", "CmpOp", "RelExp">>
    BY RelationRulesAt DEF IsRule
  <2> DEFINE s == Rules[44].rhs
  <2>2. Len(s) = 3 /\ s[2] = "CmpOp"
    BY <2>1
  <2> HIDE DEF s
  <2>3. AfterDot(<<44, 1>>) = {"CmpOp"}
    <3>1. AfterDot(<<44, 1>>) = IF 1 < Len(s) THEN {s[1 + 1]} ELSE {}
      BY DotFacts DEF s
    <3> QED
      BY <2>2, <3>1
  <2> QED
    BY <2>3
<1>10. /\ AfterDot(<<46, 1>>) = {}
  <2>1. Rules[46].rhs = <<"EqExp">>
    BY LogicRulesAt DEF IsRule
  <2> DEFINE s == Rules[46].rhs
  <2>2. Len(s) = 1
    BY <2>1
  <2> HIDE DEF s
  <2>3. AfterDot(<<46, 1>>) = {}
    <3>1. AfterDot(<<46, 1>>) = IF 1 < Len(s) THEN {s[1 + 1]} ELSE {}
      BY DotFacts DEF s
    <3> QED
      BY <2>2, <3>1
  <2> QED
    BY <2>3
<1>11. /\ AfterDot(<<47, 1>>) = {"OPT"}
  <2>1. Rules[47].rhs = <<"LAndExp", "OPT", "EqExp">>
    BY LogicRulesAt DEF IsRule
  <2> DEFINE s == Rules[47].rhs
  <2>2. Len(s) = 3 /\ s[2] = "OPT"
    BY <2>1
  <2> HIDE DEF s
  <2>3. AfterDot(<<47, 1>>) = {"OPT"}
    <3>1. AfterDot(<<47, 1>>) = IF 1 < Len(s) THEN {s[1 + 1]} ELSE {}
      BY DotFacts DEF s
    <3> QED
      BY <2>2, <3>1
  <2> QED
    BY <2>3
<1>12. /\ AfterDot(<<48, 1>>) = {}
  <2>1. Rules[48].rhs = <<"LAndExp">>
    BY LogicRulesAt DEF IsRule
  <2> DEFINE s == Rules[48].rhs
  <2>2. Len(s) = 1
    BY <2>1
  <2> HIDE DEF s
  <2>3. AfterDot(<<48, 1>>) = {}
    <3>1. AfterDot(<<48, 1>>) = IF 1 < Len(s) THEN {s[1 + 1]} ELSE {}
      BY DotFacts DEF s
    <3> QED
      BY <2>2, <3>1
  <2> QED
    BY <2>3
<1>13. /\ AfterDot(<<49, 1>>) = {"OPT"}
  <2>1. Rules[49].rhs = <<"LOrExp", "OPT", "LAndExp">>
    BY LogicRulesAt DEF IsRule
  <2> DEFINE s == Rules[49].rhs
  <2>2. Len(s) = 3 /\ s[2] = "OPT"
    BY <2>1
  <2> HIDE DEF s
  <2>3. AfterDot(<<49, 1>>) = {"OPT"}
    <3>1. AfterDot(<<49, 1>>) = IF 1 < Len(s) THEN {s[1 + 1]} ELSE {}
      BY DotFacts DEF s
    <3> QED
      BY <2>2, <3>1
  <2> QED
    BY <2>3
<1> QED
  BY <1>1, <1>2, <1>3, <1>4, <1>5, <1>6, <1>7, <1>8, <1>9, <1>10, <1>11,
     <1>12, <1>13

\* A rule has one first symbol.
LEMMA OneFirst ==
    ASSUME NEW i, NEW X, FirstIs(i, X)
    PROVE  Len(Rules[i].rhs) # 0 /\ \A Y : FirstIs(i, Y) <=> Y = X
BY DEF FirstIs

\* A rule without a first symbol.
LEMMA NoFirst ==
    ASSUME NEW i, Rules[i].rhs = <<>>
    PROVE  Len(Rules[i].rhs) = 0 /\ \A Y : ~FirstIs(i, Y)
BY DEF FirstIs

\* The rules that begin CompUnit by their first symbols.
StartsCompUnit(j, X) ==
    \/ X = "FuncDef" /\ j = 2
    \/ X = "FuncType" /\ j = 3
    \/ X = "INT" /\ j = 4

\* Of the rules that CompUnit may begin with: by their first symbol, and the empty ones.
LEMMA CompUnitStarts ==
    /\ \A j, X : j \in Starts("CompUnit", X) <=> StartsCompUnit(j, X)
    /\ \A j : j \in Begun("CompUnit") /\ Len(Rules[j].rhs) = 0 <=> j \in {}
<1>1. Begun("CompUnit") = {2, 3, 4}
  BY BegunCompUnit
<1>2. ASSUME NEW j \in Begun("CompUnit"), NEW X
      PROVE  /\ FirstIs(j, X) <=> StartsCompUnit(j, X)
             /\ Len(Rules[j].rhs) = 0 <=> j \in {}
  <2>1. CASE j = 2
    <3>1. Len(Rules[2].rhs) # 0 /\ (FirstIs(2, X) <=> X = "FuncDef")
      <4>1. FirstIs(2, "FuncDef")
        BY RuleFirsts
      <4> QED
        BY <4>1, OneFirst
    <3> QED
      BY <2>1, <3>1 DEF StartsCompUnit
  <2>2. CASE j = 3
    <3>1. Len(Rules[3].rhs) # 0 /\ (FirstIs(3, X) <=> X = "FuncType")
      <4>1. FirstIs(3, "FuncType")
        BY RuleFirsts
      <4> QED
        BY <4>1, OneFirst
    <3> QED
      BY <2>2, <3>1 DEF StartsCompUnit
  <2>3. CASE j = 4
    <3>1. Len(Rules[4].rhs) # 0 /\ (FirstIs(4, X) <=> X = "INT")
      <4>1. FirstIs(4, "INT")
        BY RuleFirsts
      <4> QED
        BY <4>1, OneFirst
    <3> QED
      BY <2>3, <3>1 DEF StartsCompUnit
  <2> QED
    BY <1>1, <2>1, <2>2, <2>3
<1>3. ASSUME NEW j, NEW X, StartsCompUnit(j, X) PROVE j \in Begun("CompUnit")
  BY <1>1, <1>3 DEF StartsCompUnit
<1>5. \A j, X : j \in Starts("CompUnit", X) <=> StartsCompUnit(j, X)
  BY <1>2, <1>3 DEF Starts
<1>6. \A j : j \in Begun("CompUnit") /\ Len(Rules[j].rhs) = 0 <=> j \in {}
  BY <1>2
<1> QED
  BY <1>5, <1>6

\* The rules that begin Block by their first symbols.
StartsBlock(j, X) ==
    \/ X = OpenBlock /\ j = 5

\* The same of the rules that Block may begin with.
LEMMA BlockStarts ==
    /\ \A j, X : j \in Starts("Block", X) <=> StartsBlock(j, X)
    /\ \A j : j \in Begun("Block") /\ Len(Rules[j].rhs) = 0 <=> j \in {}
<1>1. Begun("Block") = {5}
  BY BegunBlock
<1>2. ASSUME NEW j \in Begun("Block"), NEW X
      PROVE  /\ FirstIs(j, X) <=> StartsBlock(j, X)
             /\ Len(Rules[j].rhs) = 0 <=> j \in {}
  <2>1. CASE j = 5
    <3>1. Len(Rules[5].rhs) # 0 /\ (FirstIs(5, X) <=> X = OpenBlock)
      <4>1. FirstIs(5, OpenBlock)
        BY RuleFirsts
      <4> QED
        BY <4>1, OneFirst
    <3> QED
      BY <2>1, <3>1 DEF StartsBlock
  <2> QED
    BY <1>1, <2>1
<1>3. ASSUME NEW j, NEW X, StartsBlock(j, X) PROVE j \in Begun("Block")
  BY <1>1, <1>3 DEF StartsBlock
<1>5. \A j, X : j \in Starts("Block", X) <=> StartsBlock(j, X)
  BY <1>2, <1>3 DEF Starts
<1>6. \A j : j \in Begun("Block") /\ Len(Rules[j].rhs) = 0 <=> j \in {}
  BY <1>2
<1> QED
  BY <1>5, <1>6

\* The rules that begin BlockItems by their first symbols.
StartsBlockItems(j, X) ==
    \/ X = "BlockItem" /\ j = 7
    \/ X = "Decl" /\ j = 8
    \/ X = "Stmt" /\ j = 9
    \/ X = "ConstDecl" /\ j = 11
    \/ X = "CONST" /\ j = 13
    \/ X = "LVal" /\ j = 25
    \/ X = "RETURN" /\ j = 26
    \/ X = "IDENT" /\ j = 31

\* The same of the rules that BlockItems may begin with.
LEMMA BlockItemsStarts ==
    /\ \A j, X : j \in Starts("BlockItems", X) <=> StartsBlockItems(j, X)
    /\ \A j : j \in Begun("BlockItems") /\ Len(Rules[j].rhs) = 0 <=> j \in {6, 10}
<1>1. Begun("BlockItems") = {6, 7, 8, 9, 10, 11, 13, 25, 26, 31}
  BY BegunBlockItems
<1>2. ASSUME NEW j \in Begun("BlockItems"), NEW X
      PROVE  /\ FirstIs(j, X) <=> StartsBlockItems(j, X)
             /\ Len(Rules[j].rhs) = 0 <=> j \in {6, 10}
  <2>1. CASE j = 6
    <3>1. Len(Rules[6].rhs) = 0 /\ ~FirstIs(6, X)
      BY RuleFirsts, NoFirst
    <3> QED
      BY <2>1, <3>1 DEF StartsBlockItems
  <2>2. CASE j = 7
    <3>1. Len(Rules[7].rhs) # 0 /\ (FirstIs(7, X) <=> X = "BlockItem")
      <4>1. FirstIs(7, "BlockItem")
        BY RuleFirsts
      <4> QED
        BY <4>1, OneFirst
    <3> QED
      BY <2>2, <3>1 DEF StartsBlockItems
  <2>3. CASE j = 8
    <3>1. Len(Rules[8].rhs) # 0 /\ (FirstIs(8, X) <=> X = "Decl")
      <4>1. FirstIs(8, "Decl")
        BY RuleFirsts
      <4> QED
        BY <4>1, OneFirst
    <3> QED
      BY <2>3, <3>1 DEF StartsBlockItems
  <2>4. CASE j = 9
    <3>1. Len(Rules[9].rhs) # 0 /\ (FirstIs(9, X) <=> X = "Stmt")
      <4>1. FirstIs(9, "Stmt")
        BY RuleFirsts
      <4> QED
        BY <4>1, OneFirst
    <3> QED
      BY <2>4, <3>1 DEF StartsBlockItems
  <2>5. CASE j = 10
    <3>1. Len(Rules[10].rhs) = 0 /\ ~FirstIs(10, X)
      BY RuleFirsts, NoFirst
    <3> QED
      BY <2>5, <3>1 DEF StartsBlockItems
  <2>6. CASE j = 11
    <3>1. Len(Rules[11].rhs) # 0 /\ (FirstIs(11, X) <=> X = "ConstDecl")
      <4>1. FirstIs(11, "ConstDecl")
        BY RuleFirsts
      <4> QED
        BY <4>1, OneFirst
    <3> QED
      BY <2>6, <3>1 DEF StartsBlockItems
  <2>7. CASE j = 13
    <3>1. Len(Rules[13].rhs) # 0 /\ (FirstIs(13, X) <=> X = "CONST")
      <4>1. FirstIs(13, "CONST")
        BY RuleFirsts
      <4> QED
        BY <4>1, OneFirst
    <3> QED
      BY <2>7, <3>1 DEF StartsBlockItems
  <2>8. CASE j = 25
    <3>1. Len(Rules[25].rhs) # 0 /\ (FirstIs(25, X) <=> X = "LVal")
      <4>1. FirstIs(25, "LVal")
        BY RuleFirsts
      <4> QED
        BY <4>1, OneFirst
    <3> QED
      BY <2>8, <3>1 DEF StartsBlockItems
  <2>9. CASE j = 26
    <3>1. Len(Rules[26].rhs) # 0 /\ (FirstIs(26, X) <=> X = "RETURN")
      <4>1. FirstIs(26, "RETURN")
        BY RuleFirsts
      <4> QED
        BY <4>1, OneFirst
    <3> QED
      BY <2>9, <3>1 DEF StartsBlockItems
  <2>10. CASE j = 31
    <3>1. Len(Rules[31].rhs) # 0 /\ (FirstIs(31, X) <=> X = "IDENT")
      <4>1. FirstIs(31, "IDENT")
        BY RuleFirsts
      <4> QED
        BY <4>1, OneFirst
    <3> QED
      BY <2>10, <3>1 DEF StartsBlockItems
  <2> QED
    BY <1>1, <2>1, <2>2, <2>3, <2>4, <2>5, <2>6, <2>7, <2>8, <2>9, <2>10
<1>3. ASSUME NEW j, NEW X, StartsBlockItems(j, X) PROVE j \in Begun("BlockItems")
  BY <1>1, <1>3 DEF StartsBlockItems
<1>4. {6, 10} \subseteq Begun("BlockItems")
  BY <1>1
<1>5. \A j, X : j \in Starts("BlockItems", X) <=> StartsBlockItems(j, X)
  BY <1>2, <1>3 DEF Starts
<1>6. \A j : j \in Begun("BlockItems") /\ Len(Rules[j].rhs) = 0 <=> j \in {6, 10}
  BY <1>2, <1>4
<1> QED
  BY <1>5, <1>6

\* The rules that begin Exp by their first symbols.
StartsExp(j, X) ==
    \/ X = "LOrExp" /\ j \in {27, 49}
    \/ X = "(" /\ j = 28
    \/ X = "Number" /\ j = 29
    \/ X = "LVal" /\ j = 30
    \/ X = "IDENT" /\ j = 31
    \/ X = "INT_CONST" /\ j = 32
    \/ X = "PrimaryExp" /\ j = 33
    \/ X = "UnaryOp" /\ j = 34
    \/ X = "OPT" /\ j = 35
    \/ X = "UnaryExp" /\ j = 36
    \/ X = "MulExp" /\ j \in {37, 38}
    \/ X = "AddExp" /\ j \in {39, 41}
    \/ X = "RelExp" /\ j \in {42, 43}
    \/ X = "EqExp" /\ j \in {44, 46}
    \/ X = "LAndExp" /\ j \in {47, 48}

\* The same of the rules that Exp may begin with.
LEMMA ExpStarts ==
    /\ \A j, X : j \in Starts("Exp", X) <=> StartsExp(j, X)
    /\ \A j : j \in Begun("Exp") /\ Len(Rules[j].rhs) = 0 <=> j \in {}
<1>1. Begun("Exp") = {27, 28, 29, 30, 31, 32, 33, 34, 35, 36, 37, 38, 39, 41, 42,
                43, 44, 46, 47, 48, 49}
  BY BegunExp
<1>2. ASSUME NEW j \in Begun("Exp"), NEW X
      PROVE  /\ FirstIs(j, X) <=> StartsExp(j, X)
             /\ Len(Rules[j].rhs) = 0 <=> j \in {}
  <2>1. CASE j = 27
    <3>1. Len(Rules[27].rhs) # 0 /\ (FirstIs(27, X) <=> X = "LOrExp")
      <4>1. FirstIs(27, "LOrExp")
        BY RuleFirsts
      <4> QED
        BY <4>1, OneFirst
    <3> QED
      BY <2>1, <3>1 DEF StartsExp
  <2>2. CASE j = 28
    <3>1. Len(Rules[28].rhs) # 0 /\ (FirstIs(28, X) <=> X = "(")
      <4>1. FirstIs(28, "(")
        BY RuleFirsts
      <4> QED
        BY <4>1, OneFirst
    <3> QED
      BY <2>2, <3>1 DEF StartsExp
  <2>3. CASE j = 29
    <3>1. Len(Rules[29].rhs) # 0 /\ (FirstIs(29, X) <=> X = "Number")
      <4>1. FirstIs(29, "Number")
        BY RuleFirsts
      <4> QED
        BY <4>1, OneFirst
    <3> QED
      BY <2>3, <3>1 DEF StartsExp
  <2>4. CASE j = 30
    <3>1. Len(Rules[30].rhs) # 0 /\ (FirstIs(30, X) <=> X = "LVal")
      <4>1. FirstIs(30, "LVal")
        BY RuleFirsts
      <4> QED
        BY <4>1, OneFirst
    <3> QED
      BY <2>4, <3>1 DEF StartsExp
  <2>5. CASE j = 31
    <3>1. Len(Rules[31].rhs) # 0 /\ (FirstIs(31, X) <=> X = "IDENT")
      <4>1. FirstIs(31, "IDENT")
        BY RuleFirsts
      <4> QED
        BY <4>1, OneFirst
    <3> QED
      BY <2>5, <3>1 DEF StartsExp
  <2>6. CASE j = 32
    <3>1. Len(Rules[32].rhs) # 0 /\ (FirstIs(32, X) <=> X = "INT_CONST")
      <4>1. FirstIs(32, "INT_CONST")
        BY RuleFirsts
      <4> QED
        BY <4>1, OneFirst
    <3> QED
      BY <2>6, <3>1 DEF StartsExp
  <2>7. CASE j = 33
    <3>1. Len(Rules[33].rhs) # 0 /\ (FirstIs(33, X) <=> X = "PrimaryExp")
      <4>1. FirstIs(33, "PrimaryExp")
        BY RuleFirsts
      <4> QED
        BY <4>1, OneFirst
    <3> QED
      BY <2>7, <3>1 DEF StartsExp
  <2>8. CASE j = 34
    <3>1. Len(Rules[34].rhs) # 0 /\ (FirstIs(34, X) <=> X = "UnaryOp")
      <4>1. FirstIs(34, "UnaryOp")
        BY RuleFirsts
      <4> QED
        BY <4>1, OneFirst
    <3> QED
      BY <2>8, <3>1 DEF StartsExp
  <2>9. CASE j = 35
    <3>1. Len(Rules[35].rhs) # 0 /\ (FirstIs(35, X) <=> X = "OPT")
      <4>1. FirstIs(35, "OPT")
        BY RuleFirsts
      <4> QED
        BY <4>1, OneFirst
    <3> QED
      BY <2>9, <3>1 DEF StartsExp
  <2>10. CASE j = 36
    <3>1. Len(Rules[36].rhs) # 0 /\ (FirstIs(36, X) <=> X = "UnaryExp")
      <4>1. FirstIs(36, "UnaryExp")
        BY RuleFirsts
      <4> QED
        BY <4>1, OneFirst
    <3> QED
      BY <2>10, <3>1 DEF StartsExp
  <2>11. CASE j = 37
    <3>1. Len(Rules[37].rhs) # 0 /\ (FirstIs(37, X) <=> X = "MulExp")
      <4>1. FirstIs(37, "MulExp")
        BY RuleFirsts
      <4> QED
        BY <4>1, OneFirst
    <3> QED
      BY <2>11, <3>1 DEF StartsExp
  <2>12. CASE j = 38
    <3>1. Len(Rules[38].rhs) # 0 /\ (FirstIs(38, X) <=> X = "MulExp")
      <4>1. FirstIs(38, "MulExp")
        BY RuleFirsts
      <4> QED
        BY <4>1, OneFirst
    <3> QED
      BY <2>12, <3>1 DEF StartsExp
  <2>13. CASE j = 39
    <3>1. Len(Rules[39].rhs) # 0 /\ (FirstIs(39, X) <=> X = "AddExp")
      <4>1. FirstIs(39, "AddExp")
        BY RuleFirsts
      <4> QED
        BY <4>1, OneFirst
    <3> QED
      BY <2>13, <3>1 DEF StartsExp
  <2>14. CASE j = 41
    <3>1. Len(Rules[41].rhs) # 0 /\ (FirstIs(41, X) <=> X = "AddExp")
      <4>1. FirstIs(41, "AddExp")
        BY RuleFirsts
      <4> QED
        BY <4>1, OneFirst
    <3> QED
      BY <2>14, <3>1 DEF StartsExp
  <2>15. CASE j = 42
    <3>1. Len(Rules[42].rhs) # 0 /\ (FirstIs(42, X) <=> X = "RelExp")
      <4>1. FirstIs(42, "RelExp")
        BY RuleFirsts
      <4> QED
        BY <4>1, OneFirst
    <3> QED
      BY <2>15, <3>1 DEF StartsExp
  <2>16. CASE j = 43
    <3>1. Len(Rules[43].rhs) # 0 /\ (FirstIs(43, X) <=> X = "RelExp")
      <4>1. FirstIs(43, "RelExp")
        BY RuleFirsts
      <4> QED
        BY <4>1, OneFirst
    <3> QED
      BY <2>16, <3>1 DEF StartsExp
  <2>17. CASE j = 44
    <3>1. Len(Rules[44].rhs) # 0 /\ (FirstIs(44, X) <=> X = "EqExp")
      <4>1. FirstIs(44, "EqExp")
        BY RuleFirsts
      <4> QED
        BY <4>1, OneFirst
    <3> QED
      BY <2>17, <3>1 DEF StartsExp
  <2>18. CASE j = 46
    <3>1. Len(Rules[46].rhs) # 0 /\ (FirstIs(46, X) <=> X = "EqExp")
      <4>1. FirstIs(46, "EqExp")
        BY RuleFirsts
      <4> QED
        BY <4>1, OneFirst
    <3> QED
      BY <2>18, <3>1 DEF StartsExp
  <2>19. CASE j = 47
    <3>1. Len(Rules[47].rhs) # 0 /\ (FirstIs(47, X) <=> X = "LAndExp")
      <4>1. FirstIs(47, "LAndExp")
        BY RuleFirsts
      <4> QED
        BY <4>1, OneFirst
    <3> QED
      BY <2>19, <3>1 DEF StartsExp
  <2>20. CASE j = 48
    <3>1. Len(Rules[48].rhs) # 0 /\ (FirstIs(48, X) <=> X = "LAndExp")
      <4>1. FirstIs(48, "LAndExp")
        BY RuleFirsts
      <4> QED
        BY <4>1, OneFirst
    <3> QED
      BY <2>20, <3>1 DEF StartsExp
  <2>21. CASE j = 49
    <3>1. Len(Rules[49].rhs) # 0 /\ (FirstIs(49, X) <=> X = "LOrExp")
      <4>1. FirstIs(49, "LOrExp")
        BY RuleFirsts
      <4> QED
        BY <4>1, OneFirst
    <3> QED
      BY <2>21, <3>1 DEF StartsExp
  <2> QED
    BY <1>1, <2>1, <2>2, <2>3, <2>4, <2>5, <2>6, <2>7, <2>8, <2>9, <2>10, <2>11,
       <2>12, <2>13, <2>14, <2>15, <2>16, <2>17, <2>18, <2>19, <2>20,
       <2>21
<1>3. ASSUME NEW j, NEW X, StartsExp(j, X) PROVE j \in Begun("Exp")
  BY <1>1, <1>3 DEF StartsExp
<1>5. \A j, X : j \in Starts("Exp", X) <=> StartsExp(j, X)
  BY <1>2, <1>3 DEF Starts
<1>6. \A j : j \in Begun("Exp") /\ Len(Rules[j].rhs) = 0 <=> j \in {}
  BY <1>2
<1> QED
  BY <1>5, <1>6

\* The rules that begin UnaryExp by their first symbols.
StartsUnaryExp(j, X) ==
    \/ X = "(" /\ j = 28
    \/ X = "Number" /\ j = 29
    \/ X = "LVal" /\ j = 30
    \/ X = "IDENT" /\ j = 31
    \/ X = "INT_CONST" /\ j = 32
    \/ X = "PrimaryExp" /\ j = 33
    \/ X = "UnaryOp" /\ j = 34
    \/ X = "OPT" /\ j = 35

\* The same of the rules that UnaryExp may begin with.
LEMMA UnaryExpStarts ==
    /\ \A j, X : j \in Starts("UnaryExp", X) <=> StartsUnaryExp(j, X)
    /\ \A j : j \in Begun("UnaryExp") /\ Len(Rules[j].rhs) = 0 <=> j \in {}
<1>1. Begun("UnaryExp") = {28, 29, 30, 31, 32, 33, 34, 35}
  BY BegunUnaryExp
<1>2. ASSUME NEW j \in Begun("UnaryExp"), NEW X
      PROVE  /\ FirstIs(j, X) <=> StartsUnaryExp(j, X)
             /\ Len(Rules[j].rhs) = 0 <=> j \in {}
  <2>1. CASE j = 28
    <3>1. Len(Rules[28].rhs) # 0 /\ (FirstIs(28, X) <=> X = "(")
      <4>1. FirstIs(28, "(")
        BY RuleFirsts
      <4> QED
        BY <4>1, OneFirst
    <3> QED
      BY <2>1, <3>1 DEF StartsUnaryExp
  <2>2. CASE j = 29
    <3>1. Len(Rules[29].rhs) # 0 /\ (FirstIs(29, X) <=> X = "Number")
      <4>1. FirstIs(29, "Number")
        BY RuleFirsts
      <4> QED
        BY <4>1, OneFirst
    <3> QED
      BY <2>2, <3>1 DEF StartsUnaryExp
  <2>3. CASE j = 30
    <3>1. Len(Rules[30].rhs) # 0 /\ (FirstIs(30, X) <=> X = "LVal")
      <4>1. FirstIs(30, "LVal")
        BY RuleFirsts
      <4> QED
        BY <4>1, OneFirst
    <3> QED
      BY <2>3, <3>1 DEF StartsUnaryExp
  <2>4. CASE j = 31
    <3>1. Len(Rules[31].rhs) # 0 /\ (FirstIs(31, X) <=> X = "IDENT")
      <4>1. FirstIs(31, "IDENT")
        BY RuleFirsts
      <4> QED
        BY <4>1, OneFirst
    <3> QED
      BY <2>4, <3>1 DEF StartsUnaryExp
  <2>5. CASE j = 32
    <3>1. Len(Rules[32].rhs) # 0 /\ (FirstIs(32, X) <=> X = "INT_CONST")
      <4>1. FirstIs(32, "INT_CONST")
        BY RuleFirsts
      <4> QED
        BY <4>1, OneFirst
    <3> QED
      BY <2>5, <3>1 DEF StartsUnaryExp
  <2>6. CASE j = 33
    <3>1. Len(Rules[33].rhs) # 0 /\ (FirstIs(33, X) <=> X = "PrimaryExp")
      <4>1. FirstIs(33, "PrimaryExp")
        BY RuleFirsts
      <4> QED
        BY <4>1, OneFirst
    <3> QED
      BY <2>6, <3>1 DEF StartsUnaryExp
  <2>7. CASE j = 34
    <3>1. Len(Rules[34].rhs) # 0 /\ (FirstIs(34, X) <=> X = "UnaryOp")
      <4>1. FirstIs(34, "UnaryOp")
        BY RuleFirsts
      <4> QED
        BY <4>1, OneFirst
    <3> QED
      BY <2>7, <3>1 DEF StartsUnaryExp
  <2>8. CASE j = 35
    <3>1. Len(Rules[35].rhs) # 0 /\ (FirstIs(35, X) <=> X = "OPT")
      <4>1. FirstIs(35, "OPT")
        BY RuleFirsts
      <4> QED
        BY <4>1, OneFirst
    <3> QED
      BY <2>8, <3>1 DEF StartsUnaryExp
  <2> QED
    BY <1>1, <2>1, <2>2, <2>3, <2>4, <2>5, <2>6, <2>7, <2>8
<1>3. ASSUME NEW j, NEW X, StartsUnaryExp(j, X) PROVE j \in Begun("UnaryExp")
  BY <1>1, <1>3 DEF StartsUnaryExp
<1>5. \A j, X : j \in Starts("UnaryExp", X) <=> StartsUnaryExp(j, X)
  BY <1>2, <1>3 DEF Starts
<1>6. \A j : j \in Begun("UnaryExp") /\ Len(Rules[j].rhs) = 0 <=> j \in {}
  BY <1>2
<1> QED
  BY <1>5, <1>6

\* The rules that begin BType by their first symbols.
StartsBType(j, X) ==
    \/ X = "INT" /\ j = 14

\* The same of the rules that BType may begin with.
LEMMA BTypeStarts ==
    /\ \A j, X : j \in Starts("BType", X) <=> StartsBType(j, X)
    /\ \A j : j \in Begun("BType") /\ Len(Rules[j].rhs) = 0 <=> j \in {}
<1>1. Begun("BType") = {14}
  BY BegunBType
<1>2. ASSUME NEW j \in Begun("BType"), NEW X
      PROVE  /\ FirstIs(j, X) <=> StartsBType(j, X)
             /\ Len(Rules[j].rhs) = 0 <=> j \in {}
  <2>1. CASE j = 14
    <3>1. Len(Rules[14].rhs) # 0 /\ (FirstIs(14, X) <=> X = "INT")
      <4>1. FirstIs(14, "INT")
        BY RuleFirsts
      <4> QED
        BY <4>1, OneFirst
    <3> QED
      BY <2>1, <3>1 DEF StartsBType
  <2> QED
    BY <1>1, <2>1
<1>3. ASSUME NEW j, NEW X, StartsBType(j, X) PROVE j \in Begun("BType")
  BY <1>1, <1>3 DEF StartsBType
<1>5. \A j, X : j \in Starts("BType", X) <=> StartsBType(j, X)
  BY <1>2, <1>3 DEF Starts
<1>6. \A j : j \in Begun("BType") /\ Len(Rules[j].rhs) = 0 <=> j \in {}
  BY <1>2
<1> QED
  BY <1>5, <1>6

\* The rules that begin ConstDef by their first symbols.
StartsConstDef(j, X) ==
    \/ X = "IDENT" /\ j = 17

\* The same of the rules that ConstDef may begin with.
LEMMA ConstDefStarts ==
    /\ \A j, X : j \in Starts("ConstDef", X) <=> StartsConstDef(j, X)
    /\ \A j : j \in Begun("ConstDef") /\ Len(Rules[j].rhs) = 0 <=> j \in {}
<1>1. Begun("ConstDef") = {17}
  BY BegunConstDef
<1>2. ASSUME NEW j \in Begun("ConstDef"), NEW X
      PROVE  /\ FirstIs(j, X) <=> StartsConstDef(j, X)
             /\ Len(Rules[j].rhs) = 0 <=> j \in {}
  <2>1. CASE j = 17
    <3>1. Len(Rules[17].rhs) # 0 /\ (FirstIs(17, X) <=> X = "IDENT")
      <4>1. FirstIs(17, "IDENT")
        BY RuleFirsts
      <4> QED
        BY <4>1, OneFirst
    <3> QED
      BY <2>1, <3>1 DEF StartsConstDef
  <2> QED
    BY <1>1, <2>1
<1>3. ASSUME NEW j, NEW X, StartsConstDef(j, X) PROVE j \in Begun("ConstDef")
  BY <1>1, <1>3 DEF StartsConstDef
<1>5. \A j, X : j \in Starts("ConstDef", X) <=> StartsConstDef(j, X)
  BY <1>2, <1>3 DEF Starts
<1>6. \A j : j \in Begun("ConstDef") /\ Len(Rules[j].rhs) = 0 <=> j \in {}
  BY <1>2
<1> QED
  BY <1>5, <1>6

\* The rules that begin BinOp by their first symbols.
StartsBinOp(j, X) ==
    \/ X = "OPT" /\ j = 40

\* The same of the rules that BinOp may begin with.
LEMMA BinOpStarts ==
    /\ \A j, X : j \in Starts("BinOp", X) <=> StartsBinOp(j, X)
    /\ \A j : j \in Begun("BinOp") /\ Len(Rules[j].rhs) = 0 <=> j \in {}
<1>1. Begun("BinOp") = {40}
  BY BegunBinOp
<1>2. ASSUME NEW j \in Begun("BinOp"), NEW X
      PROVE  /\ FirstIs(j, X) <=> StartsBinOp(j, X)
             /\ Len(Rules[j].rhs) = 0 <=> j \in {}
  <2>1. CASE j = 40
    <3>1. Len(Rules[40].rhs) # 0 /\ (FirstIs(40, X) <=> X = "OPT")
      <4>1. FirstIs(40, "OPT")
        BY RuleFirsts
      <4> QED
        BY <4>1, OneFirst
    <3> QED
      BY <2>1, <3>1 DEF StartsBinOp
  <2> QED
    BY <1>1, <2>1
<1>3. ASSUME NEW j, NEW X, StartsBinOp(j, X) PROVE j \in Begun("BinOp")
  BY <1>1, <1>3 DEF StartsBinOp
<1>5. \A j, X : j \in Starts("BinOp", X) <=> StartsBinOp(j, X)
  BY <1>2, <1>3 DEF Starts
<1>6. \A j : j \in Begun("BinOp") /\ Len(Rules[j].rhs) = 0 <=> j \in {}
  BY <1>2
<1> QED
  BY <1>5, <1>6

\* The rules that begin CmpOp by their first symbols.
StartsCmpOp(j, X) ==
    \/ X = "OPT" /\ j = 45

\* The same of the rules that CmpOp may begin with.
LEMMA CmpOpStarts ==
    /\ \A j, X : j \in Starts("CmpOp", X) <=> StartsCmpOp(j, X)
    /\ \A j : j \in Begun("CmpOp") /\ Len(Rules[j].rhs) = 0 <=> j \in {}
<1>1. Begun("CmpOp") = {45}
  BY BegunCmpOp
<1>2. ASSUME NEW j \in Begun("CmpOp"), NEW X
      PROVE  /\ FirstIs(j, X) <=> StartsCmpOp(j, X)
             /\ Len(Rules[j].rhs) = 0 <=> j \in {}
  <2>1. CASE j = 45
    <3>1. Len(Rules[45].rhs) # 0 /\ (FirstIs(45, X) <=> X = "OPT")
      <4>1. FirstIs(45, "OPT")
        BY RuleFirsts
      <4> QED
        BY <4>1, OneFirst
    <3> QED
      BY <2>1, <3>1 DEF StartsCmpOp
  <2> QED
    BY <1>1, <2>1
<1>3. ASSUME NEW j, NEW X, StartsCmpOp(j, X) PROVE j \in Begun("CmpOp")
  BY <1>1, <1>3 DEF StartsCmpOp
<1>5. \A j, X : j \in Starts("CmpOp", X) <=> StartsCmpOp(j, X)
  BY <1>2, <1>3 DEF Starts
<1>6. \A j : j \in Begun("CmpOp") /\ Len(Rules[j].rhs) = 0 <=> j \in {}
  BY <1>2
<1> QED
  BY <1>5, <1>6

\* A state before CompUnit: what it expects, has complete, and leads to.
LEMMA BeforeCompUnit ==
    ASSUME NEW state, NEW i, NEW d, Open(state, i, d, "CompUnit")
    PROVE  /\ \A t : t \in Expects(state) <=> t \in {"INT"}
           /\ \A j : j \in Complete(state) <=>
                  (\E it \in state : it[1] = j /\ AfterDot(it) = {}) \/ j \in {}
           /\ Goto(state, "FuncDef") = Kernel(21)
           /\ Goto(state, "FuncType") = Kernel(31)
           /\ Goto(state, "INT") = Kernel(41)
           /\ Goto(state, "CompUnit") = {<<i, d + 1>>}
<1>1. \A t : t \in Expects(state) <=> t \notin Names /\ (t = "CompUnit" \/ \E j \in Begun("CompUnit") : FirstIs(j, t))
  BY OpenState
<1>2. \A X : (\E j \in Begun("CompUnit") : FirstIs(j, X)) <=> \E j \in Starts("CompUnit", X) : TRUE
  BY DEF Starts
<1>3. ASSUME NEW t PROVE t \in Expects(state) <=> t \in {"INT"}
  <2>1. (\E j \in Starts("CompUnit", t) : TRUE) <=> t \in {"FuncDef", "FuncType", "INT"}
    <3>1. \A j : j \in Starts("CompUnit", t) <=> StartsCompUnit(j, t)
      BY CompUnitStarts
    <3>2. (\E j : StartsCompUnit(j, t)) <=> t \in {"FuncDef", "FuncType", "INT"}
      <4>1. t = "FuncDef" => StartsCompUnit(2, t)
        BY DEF StartsCompUnit
      <4>2. t = "FuncType" => StartsCompUnit(3, t)
        BY DEF StartsCompUnit
      <4>3. t = "INT" => StartsCompUnit(4, t)
        BY DEF StartsCompUnit
      <4>4. \A j : StartsCompUnit(j, t) => t \in {"FuncDef", "FuncType", "INT"}
        BY DEF StartsCompUnit
      <4> QED
        BY <4>1, <4>2, <4>3, <4>4
    <3> QED
      BY <3>1, <3>2
  <2>2. {"FuncDef", "FuncType", "CompUnit"} \subseteq Names
    BY DEF Names
  <2>3. {"INT"} \cap Names = {}
    BY TokensUnnamed
  <2> QED
    BY <1>1, <1>2, <2>1, <2>2, <2>3
<1>4. \A j : j \in Complete(state) <=>
             (\E it \in state : it[1] = j /\ AfterDot(it) = {}) \/ j \in {}
  <2>1. \A j : j \in Complete(state) <=>
                 \/ \E it \in state : it[1] = j /\ AfterDot(it) = {}
                 \/ j \in Begun("CompUnit") /\ Len(Rules[j].rhs) = 0
    BY OpenState
  <2>2. \A j : j \in Begun("CompUnit") /\ Len(Rules[j].rhs) = 0 <=> j \in {}
    BY CompUnitStarts
  <2> QED
    BY <2>1, <2>2
<1>5. \A X : Goto(state, X) = {<<j, 1>> : j \in Starts("CompUnit", X)}
                               \cup (IF X = "CompUnit" THEN {<<i, d + 1>>} ELSE {})
  BY OpenState
<1>6. Goto(state, "FuncDef") = Kernel(21)
  <2>1. Starts("CompUnit", "FuncDef") = {2}
    <3>1. \A j : j \in Starts("CompUnit", "FuncDef") <=> StartsCompUnit(j, "FuncDef")
      BY CompUnitStarts
    <3>2. \A j : StartsCompUnit(j, "FuncDef") <=> j \in {2}
      BY DEF StartsCompUnit
    <3> QED
      BY <3>1, <3>2
  <2>2. Goto(state, "FuncDef") = {<<2, 1>>}
    BY <1>5, <2>1
  <2>3. Kernel(21) = {<<2, 1>>}
    BY HeaderKernels, Zenon
  <2> QED
    BY <2>2, <2>3
<1>7. Goto(state, "FuncType") = Kernel(31)
  <2>1. Starts("CompUnit", "FuncType") = {3}
    <3>1. \A j : j \in Starts("CompUnit", "FuncType") <=> StartsCompUnit(j, "FuncType")
      BY CompUnitStarts
    <3>2. \A j : StartsCompUnit(j, "FuncType") <=> j \in {3}
      BY DEF StartsCompUnit
    <3> QED
      BY <3>1, <3>2
  <2>2. Goto(state, "FuncType") = {<<3, 1>>}
    BY <1>5, <2>1
  <2>3. Kernel(31) = {<<3, 1>>}
    BY HeaderKernels, Zenon
  <2> QED
    BY <2>2, <2>3
<1>8. Goto(state, "INT") = Kernel(41)
  <2>1. Starts("CompUnit", "INT") = {4}
    <3>1. \A j : j \in Starts("CompUnit", "INT") <=> StartsCompUnit(j, "INT")
      BY CompUnitStarts
    <3>2. \A j : StartsCompUnit(j, "INT") <=> j \in {4}
      BY DEF StartsCompUnit
    <3> QED
      BY <3>1, <3>2
  <2>2. Goto(state, "INT") = {<<4, 1>>}
    BY <1>5, <2>1
  <2>3. Kernel(41) = {<<4, 1>>}
    BY HeaderKernels, Zenon
  <2> QED
    BY <2>2, <2>3
<1>9. Goto(state, "CompUnit") = {<<i, d + 1>>}
  <2>1. Starts("CompUnit", "CompUnit") = {}
    <3>1. \A j : j \in Starts("CompUnit", "CompUnit") <=> StartsCompUnit(j, "CompUnit")
      BY CompUnitStarts
    <3>2. \A j : StartsCompUnit(j, "CompUnit") <=> j \in {}
      BY DEF StartsCompUnit
    <3> QED
      BY <3>1, <3>2
  <2> QED
    BY <1>5, <2>1
<1> QED
  BY <1>3, <1>4, <1>6, <1>7, <1>8, <1>9

\* A state before Block: what it expects, has complete, and leads to.
LEMMA BeforeBlock ==
    ASSUME NEW state, NEW i, NEW d, Open(state, i, d, "Block")
    PROVE  /\ \A t : t \in Expects(state) <=> t \in {OpenBlock}
           /\ \A j : j \in Complete(state) <=>
                  (\E it \in state : it[1] = j /\ AfterDot(it) = {}) \/ j \in {}
           /\ Goto(state, OpenBlock) = Kernel(51)
           /\ Goto(state, "Block") = {<<i, d + 1>>}
<1>1. \A t : t \in Expects(state) <=> t \notin Names /\ (t = "Block" \/ \E j \in Begun("Block") : FirstIs(j, t))
  BY OpenState
<1>2. \A X : (\E j \in Begun("Block") : FirstIs(j, X)) <=> \E j \in Starts("Block", X) : TRUE
  BY DEF Starts
<1>3. ASSUME NEW t PROVE t \in Expects(state) <=> t \in {OpenBlock}
  <2>1. (\E j \in Starts("Block", t) : TRUE) <=> t \in {OpenBlock}
    <3>1. \A j : j \in Starts("Block", t) <=> StartsBlock(j, t)
      BY BlockStarts
    <3>2. (\E j : StartsBlock(j, t)) <=> t \in {OpenBlock}
      <4>1. t = OpenBlock => StartsBlock(5, t)
        BY DEF StartsBlock
      <4>2. \A j : StartsBlock(j, t) => t \in {OpenBlock}
        BY DEF StartsBlock
      <4> QED
        BY <4>1, <4>2
    <3> QED
      BY <3>1, <3>2
  <2>2. {"Block"} \subseteq Names
    BY DEF Names
  <2>3. {OpenBlock} \cap Names = {}
    BY TokensUnnamed
  <2> QED
    BY <1>1, <1>2, <2>1, <2>2, <2>3
<1>4. \A j : j \in Complete(state) <=>
             (\E it \in state : it[1] = j /\ AfterDot(it) = {}) \/ j \in {}
  <2>1. \A j : j \in Complete(state) <=>
                 \/ \E it \in state : it[1] = j /\ AfterDot(it) = {}
                 \/ j \in Begun("Block") /\ Len(Rules[j].rhs) = 0
    BY OpenState
  <2>2. \A j : j \in Begun("Block") /\ Len(Rules[j].rhs) = 0 <=> j \in {}
    BY BlockStarts
  <2> QED
    BY <2>1, <2>2
<1>5. \A X : Goto(state, X) = {<<j, 1>> : j \in Starts("Block", X)}
                               \cup (IF X = "Block" THEN {<<i, d + 1>>} ELSE {})
  BY OpenState
<1> "Block" \in Names /\ OpenBlock \notin Names
  BY TokensUnnamed DEF Names
<1>6. Goto(state, OpenBlock) = Kernel(51)
  <2>1. Starts("Block", OpenBlock) = {5}
    <3>1. \A j : j \in Starts("Block", OpenBlock) <=> StartsBlock(j, OpenBlock)
      BY BlockStarts
    <3>2. \A j : StartsBlock(j, OpenBlock) <=> j \in {5}
      BY DEF StartsBlock
    <3> QED
      BY <3>1, <3>2
  <2>2. Goto(state, OpenBlock) = {<<5, 1>>}
    BY <1>5, <2>1
  <2>3. Kernel(51) = {<<5, 1>>}
    BY BlockKernels, Zenon
  <2> QED
    BY <2>2, <2>3
<1>7. Goto(state, "Block") = {<<i, d + 1>>}
  <2>1. Starts("Block", "Block") = {}
    <3>1. \A j : j \in Starts("Block", "Block") <=> StartsBlock(j, "Block")
      BY BlockStarts
    <3>2. \A j : StartsBlock(j, "Block") <=> j \in {}
      BY DEF StartsBlock
    <3> QED
      BY <3>1, <3>2
  <2> QED
    BY <1>5, <2>1
<1> QED
  BY <1>3, <1>4, <1>6, <1>7

\* A state before BlockItems: what it expects, has complete, and leads to.
LEMMA BeforeBlockItems ==
    ASSUME NEW state, NEW i, NEW d, Open(state, i, d, "BlockItems")
    PROVE  /\ \A t : t \in Expects(state) <=> t \in {"CONST", "RETURN", "IDENT"}
           /\ \A j : j \in Complete(state) <=>
                  (\E it \in state : it[1] = j /\ AfterDot(it) = {}) \/ j \in {6, 10}
           /\ Goto(state, "BlockItem") = Kernel(71)
           /\ Goto(state, "Stmt") = Kernel(91)
           /\ Goto(state, "CONST") = Kernel(131)
           /\ Goto(state, "LVal") = Kernel(251)
           /\ Goto(state, "RETURN") = Kernel(261)
           /\ Goto(state, "IDENT") = Kernel(311)
           /\ Goto(state, "BlockItems") = {<<i, d + 1>>}
<1>1. \A t : t \in Expects(state) <=> t \notin Names /\ (t = "BlockItems" \/ \E j \in Begun("BlockItems") : FirstIs(j, t))
  BY OpenState
<1>2. \A X : (\E j \in Begun("BlockItems") : FirstIs(j, X)) <=> \E j \in Starts("BlockItems", X) : TRUE
  BY DEF Starts
<1>3. ASSUME NEW t PROVE t \in Expects(state) <=> t \in {"CONST", "RETURN", "IDENT"}
  <2>1. (\E j \in Starts("BlockItems", t) : TRUE) <=> t \in {"BlockItem", "Decl", "Stmt", "ConstDecl", "CONST", "LVal", "RETURN", "IDENT"}
    <3>1. \A j : j \in Starts("BlockItems", t) <=> StartsBlockItems(j, t)
      BY BlockItemsStarts
    <3>2. (\E j : StartsBlockItems(j, t)) <=> t \in {"BlockItem", "Decl", "Stmt", "ConstDecl", "CONST", "LVal", "RETURN", "IDENT"}
      <4>1. t = "BlockItem" => StartsBlockItems(7, t)
        BY DEF StartsBlockItems
      <4>2. t = "Decl" => StartsBlockItems(8, t)
        BY DEF StartsBlockItems
      <4>3. t = "Stmt" => StartsBlockItems(9, t)
        BY DEF StartsBlockItems
      <4>4. t = "ConstDecl" => StartsBlockItems(11, t)
        BY DEF StartsBlockItems
      <4>5. t = "CONST" => StartsBlockItems(13, t)
        BY DEF StartsBlockItems
      <4>6. t = "LVal" => StartsBlockItems(25, t)
        BY DEF StartsBlockItems
      <4>7. t = "RETURN" => StartsBlockItems(26, t)
        BY DEF StartsBlockItems
      <4>8. t = "IDENT" => StartsBlockItems(31, t)
        BY DEF StartsBlockItems
      <4>9. \A j : StartsBlockItems(j, t) => t \in {"BlockItem", "Decl", "Stmt", "ConstDecl", "CONST", "LVal", "RETURN", "IDENT"}
        BY DEF StartsBlockItems
      <4> QED
        BY <4>1, <4>2, <4>3, <4>4, <4>5, <4>6, <4>7, <4>8, <4>9
    <3> QED
      BY <3>1, <3>2
  <2>2. {"BlockItem", "Decl", "Stmt", "ConstDecl", "LVal", "BlockItems"} \subseteq Names
    BY DEF Names
  <2>3. {"CONST", "RETURN", "IDENT"} \cap Names = {}
    BY TokensUnnamed
  <2> QED
    BY <1>1, <1>2, <2>1, <2>2, <2>3
<1>4. \A j : j \in Complete(state) <=>
             (\E it \in state : it[1] = j /\ AfterDot(it) = {}) \/ j \in {6, 10}
  <2>1. \A j : j \in Complete(state) <=>
                 \/ \E it \in state : it[1] = j /\ AfterDot(it) = {}
                 \/ j \in Begun("BlockItems") /\ Len(Rules[j].rhs) = 0
    BY OpenState
  <2>2. \A j : j \in Begun("BlockItems") /\ Len(Rules[j].rhs) = 0 <=> j \in {6, 10}
    BY BlockItemsStarts
  <2> QED
    BY <2>1, <2>2
<1>5. \A X : Goto(state, X) = {<<j, 1>> : j \in Starts("BlockItems", X)}
                               \cup (IF X = "BlockItems" THEN {<<i, d + 1>>} ELSE {})
  BY OpenState
<1>6. Goto(state, "BlockItem") = Kernel(71)
  <2>1. Starts("BlockItems", "BlockItem") = {7}
    <3>1. \A j : j \in Starts("BlockItems", "BlockItem") <=> StartsBlockItems(j, "BlockItem")
      BY BlockItemsStarts
    <3>2. \A j : StartsBlockItems(j, "BlockItem") <=> j \in {7}
      BY DEF StartsBlockItems
    <3> QED
      BY <3>1, <3>2
  <2>2. Goto(state, "BlockItem") = {<<7, 1>>}
    BY <1>5, <2>1
  <2>3. Kernel(71) = {<<7, 1>>}
    BY BlockKernels, Zenon
  <2> QED
    BY <2>2, <2>3
<1>7. Goto(state, "Stmt") = Kernel(91)
  <2>1. Starts("BlockItems", "Stmt") = {9}
    <3>1. \A j : j \in Starts("BlockItems", "Stmt") <=> StartsBlockItems(j, "Stmt")
      BY BlockItemsStarts
    <3>2. \A j : StartsBlockItems(j, "Stmt") <=> j \in {9}
      BY DEF StartsBlockItems
    <3> QED
      BY <3>1, <3>2
  <2>2. Goto(state, "Stmt") = {<<9, 1>>}
    BY <1>5, <2>1
  <2>3. Kernel(91) = {<<9, 1>>}
    BY BlockKernels, Zenon
  <2> QED
    BY <2>2, <2>3
<1>8. Goto(state, "CONST") = Kernel(131)
  <2>1. Starts("BlockItems", "CONST") = {13}
    <3>1. \A j : j \in Starts("BlockItems", "CONST") <=> StartsBlockItems(j, "CONST")
      BY BlockItemsStarts
    <3>2. \A j : StartsBlockItems(j, "CONST") <=> j \in {13}
      BY DEF StartsBlockItems
    <3> QED
      BY <3>1, <3>2
  <2>2. Goto(state, "CONST") = {<<13, 1>>}
    BY <1>5, <2>1
  <2>3. Kernel(131) = {<<13, 1>>}
    BY BlockKernels, Zenon
  <2> QED
    BY <2>2, <2>3
<1>9. Goto(state, "LVal") = Kernel(251)
  <2>1. Starts("BlockItems", "LVal") = {25}
    <3>1. \A j : j \in Starts("BlockItems", "LVal") <=> StartsBlockItems(j, "LVal")
      BY BlockItemsStarts
    <3>2. \A j : StartsBlockItems(j, "LVal") <=> j \in {25}
      BY DEF StartsBlockItems
    <3> QED
      BY <3>1, <3>2
  <2>2. Goto(state, "LVal") = {<<25, 1>>}
    BY <1>5, <2>1
  <2>3. Kernel(251) = {<<25, 1>>}
    BY ReturnKernels, Zenon
  <2> QED
    BY <2>2, <2>3
<1>10. Goto(state, "RETURN") = Kernel(261)
  <2>1. Starts("BlockItems", "RETURN") = {26}
    <3>1. \A j : j \in Starts("BlockItems", "RETURN") <=> StartsBlockItems(j, "RETURN")
      BY BlockItemsStarts
    <3>2. \A j : StartsBlockItems(j, "RETURN") <=> j \in {26}
      BY DEF StartsBlockItems
    <3> QED
      BY <3>1, <3>2
  <2>2. Goto(state, "RETURN") = {<<26, 1>>}
    BY <1>5, <2>1
  <2>3. Kernel(261) = {<<26, 1>>}
    BY ReturnKernels, Zenon
  <2> QED
    BY <2>2, <2>3
<1>11. Goto(state, "IDENT") = Kernel(311)
  <2>1. Starts("BlockItems", "IDENT") = {31}
    <3>1. \A j : j \in Starts("BlockItems", "IDENT") <=> StartsBlockItems(j, "IDENT")
      BY BlockItemsStarts
    <3>2. \A j : StartsBlockItems(j, "IDENT") <=> j \in {31}
      BY DEF StartsBlockItems
    <3> QED
      BY <3>1, <3>2
  <2>2. Goto(state, "IDENT") = {<<31, 1>>}
    BY <1>5, <2>1
  <2>3. Kernel(311) = {<<31, 1>>}
    BY OperandKernels, Zenon
  <2> QED
    BY <2>2, <2>3
<1>12. Goto(state, "BlockItems") = {<<i, d + 1>>}
  <2>1. Starts("BlockItems", "BlockItems") = {}
    <3>1. \A j : j \in Starts("BlockItems", "BlockItems") <=> StartsBlockItems(j, "BlockItems")
      BY BlockItemsStarts
    <3>2. \A j : StartsBlockItems(j, "BlockItems") <=> j \in {}
      BY DEF StartsBlockItems
    <3> QED
      BY <3>1, <3>2
  <2> QED
    BY <1>5, <2>1
<1> QED
  BY <1>3, <1>4, <1>6, <1>7, <1>8, <1>9, <1>10, <1>11, <1>12

\* A state before Exp: what it expects, has complete, and leads to.
LEMMA BeforeExp ==
    ASSUME NEW state, NEW i, NEW d, Open(state, i, d, "Exp")
    PROVE  /\ \A t : t \in Expects(state) <=> t \in {"(", "IDENT", "INT_CONST", "OPT"}
           /\ \A j : j \in Complete(state) <=>
                  (\E it \in state : it[1] = j /\ AfterDot(it) = {}) \/ j \in {}
           /\ Goto(state, "LOrExp") = Kernel(491)
           /\ Goto(state, "(") = Kernel(281)
           /\ Goto(state, "Number") = Kernel(291)
           /\ Goto(state, "LVal") = Kernel(301)
           /\ Goto(state, "IDENT") = Kernel(311)
           /\ Goto(state, "INT_CONST") = Kernel(321)
           /\ Goto(state, "PrimaryExp") = Kernel(331)
           /\ Goto(state, "UnaryOp") = Kernel(341)
           /\ Goto(state, "OPT") = Kernel(351)
           /\ Goto(state, "UnaryExp") = Kernel(361)
           /\ Goto(state, "MulExp") = Kernel(371)
           /\ Goto(state, "AddExp") = Kernel(391)
           /\ Goto(state, "RelExp") = Kernel(421)
           /\ Goto(state, "EqExp") = Kernel(441)
           /\ Goto(state, "LAndExp") = Kernel(471)
           /\ Goto(state, "Exp") = {<<i, d + 1>>}
<1>1. \A t : t \in Expects(state) <=> t \notin Names /\ (t = "Exp" \/ \E j \in Begun("Exp") : FirstIs(j, t))
  BY OpenState
<1>2. \A X : (\E j \in Begun("Exp") : FirstIs(j, X)) <=> \E j \in Starts("Exp", X) : TRUE
  BY DEF Starts
<1>3. ASSUME NEW t PROVE t \in Expects(state) <=> t \in {"(", "IDENT", "INT_CONST", "OPT"}
  <2>1. (\E j \in Starts("Exp", t) : TRUE) <=> t \in {"LOrExp", "(", "Number", "LVal", "IDENT", "INT_CONST", "PrimaryExp", "UnaryOp", "OPT", "UnaryExp", "MulExp", "AddExp", "RelExp", "EqExp", "LAndExp"}
    <3>1. \A j : j \in Starts("Exp", t) <=> StartsExp(j, t)
      BY ExpStarts
    <3>2. (\E j : StartsExp(j, t)) <=> t \in {"LOrExp", "(", "Number", "LVal", "IDENT", "INT_CONST", "PrimaryExp", "UnaryOp", "OPT", "UnaryExp", "MulExp", "AddExp", "RelExp", "EqExp", "LAndExp"}
      <4>1. t = "LOrExp" => StartsExp(27, t)
        BY DEF StartsExp
      <4>2. t = "(" => StartsExp(28, t)
        BY DEF StartsExp
      <4>3. t = "Number" => StartsExp(29, t)
        BY DEF StartsExp
      <4>4. t = "LVal" => StartsExp(30, t)
        BY DEF StartsExp
      <4>5. t = "IDENT" => StartsExp(31, t)
        BY DEF StartsExp
      <4>6. t = "INT_CONST" => StartsExp(32, t)
        BY DEF StartsExp
      <4>7. t = "PrimaryExp" => StartsExp(33, t)
        BY DEF StartsExp
      <4>8. t = "UnaryOp" => StartsExp(34, t)
        BY DEF StartsExp
      <4>9. t = "OPT" => StartsExp(35, t)
        BY DEF StartsExp
      <4>10. t = "UnaryExp" => StartsExp(36, t)
        BY DEF StartsExp
      <4>11. t = "MulExp" => StartsExp(37, t)
        BY DEF StartsExp
      <4>12. t = "AddExp" => StartsExp(39, t)
        BY DEF StartsExp
      <4>13. t = "RelExp" => StartsExp(42, t)
        BY DEF StartsExp
      <4>14. t = "EqExp" => StartsExp(44, t)
        BY DEF StartsExp
      <4>15. t = "LAndExp" => StartsExp(47, t)
        BY DEF StartsExp
      <4>16. \A j : StartsExp(j, t) => t \in {"LOrExp", "(", "Number", "LVal", "IDENT", "INT_CONST", "PrimaryExp", "UnaryOp", "OPT", "UnaryExp", "MulExp", "AddExp", "RelExp", "EqExp", "LAndExp"}
        BY DEF StartsExp
      <4> QED
        BY <4>1, <4>2, <4>3, <4>4, <4>5, <4>6, <4>7, <4>8, <4>9, <4>10, <4>11, <4>12, <4>13, <4>14, <4>15, <4>16
    <3> QED
      BY <3>1, <3>2
  <2>2. {"LOrExp", "Number", "LVal", "PrimaryExp", "UnaryOp", "UnaryExp", "MulExp", "AddExp", "RelExp", "EqExp", "LAndExp", "Exp"} \subseteq Names
    BY DEF Names
  <2>3. {"(", "IDENT", "INT_CONST", "OPT"} \cap Names = {}
    BY TokensUnnamed
  <2> QED
    BY <1>1, <1>2, <2>1, <2>2, <2>3
<1>4. \A j : j \in Complete(state) <=>
             (\E it \in state : it[1] = j /\ AfterDot(it) = {}) \/ j \in {}
  <2>1. \A j : j \in Complete(state) <=>
                 \/ \E it \in state : it[1] = j /\ AfterDot(it) = {}
                 \/ j \in Begun("Exp") /\ Len(Rules[j].rhs) = 0
    BY OpenState
  <2>2. \A j : j \in Begun("Exp") /\ Len(Rules[j].rhs) = 0 <=> j \in {}
    BY ExpStarts
  <2> QED
    BY <2>1, <2>2
<1>5. \A X : Goto(state, X) = {<<j, 1>> : j \in Starts("Exp", X)}
                               \cup (IF X = "Exp" THEN {<<i, d + 1>>} ELSE {})
  BY OpenState
<1>6. Goto(state, "LOrExp") = Kernel(491)
  <2>1. Starts("Exp", "LOrExp") = {27, 49}
    <3>1. \A j : j \in Starts("Exp", "LOrExp") <=> StartsExp(j, "LOrExp")
      BY ExpStarts
    <3>2. \A j : StartsExp(j, "LOrExp") <=> j \in {27, 49}
      BY DEF StartsExp
    <3> QED
      BY <3>1, <3>2
  <2>2. Goto(state, "LOrExp") = {<<27, 1>>, <<49, 1>>}
    BY <1>5, <2>1
  <2>3. Kernel(491) = {<<27, 1>>, <<49, 1>>}
    BY ChainKernels, Zenon
  <2> QED
    BY <2>2, <2>3
<1>7. Goto(state, "(") = Kernel(281)
  <2>1. Starts("Exp", "(") = {28}
    <3>1. \A j : j \in Starts("Exp", "(") <=> StartsExp(j, "(")
      BY ExpStarts
    <3>2. \A j : StartsExp(j, "(") <=> j \in {28}
      BY DEF StartsExp
    <3> QED
      BY <3>1, <3>2
  <2>2. Goto(state, "(") = {<<28, 1>>}
    BY <1>5, <2>1
  <2>3. Kernel(281) = {<<28, 1>>}
    BY ReturnKernels, Zenon
  <2> QED
    BY <2>2, <2>3
<1>8. Goto(state, "Number") = Kernel(291)
  <2>1. Starts("Exp", "Number") = {29}
    <3>1. \A j : j \in Starts("Exp", "Number") <=> StartsExp(j, "Number")
      BY ExpStarts
    <3>2. \A j : StartsExp(j, "Number") <=> j \in {29}
      BY DEF StartsExp
    <3> QED
      BY <3>1, <3>2
  <2>2. Goto(state, "Number") = {<<29, 1>>}
    BY <1>5, <2>1
  <2>3. Kernel(291) = {<<29, 1>>}
    BY OperandKernels, Zenon
  <2> QED
    BY <2>2, <2>3
<1>9. Goto(state, "LVal") = Kernel(301)
  <2>1. Starts("Exp", "LVal") = {30}
    <3>1. \A j : j \in Starts("Exp", "LVal") <=> StartsExp(j, "LVal")
      BY ExpStarts
    <3>2. \A j : StartsExp(j, "LVal") <=> j \in {30}
      BY DEF StartsExp
    <3> QED
      BY <3>1, <3>2
  <2>2. Goto(state, "LVal") = {<<30, 1>>}
    BY <1>5, <2>1
  <2>3. Kernel(301) = {<<30, 1>>}
    BY OperandKernels, Zenon
  <2> QED
    BY <2>2, <2>3
<1>10. Goto(state, "IDENT") = Kernel(311)
  <2>1. Starts("Exp", "IDENT") = {31}
    <3>1. \A j : j \in Starts("Exp", "IDENT") <=> StartsExp(j, "IDENT")
      BY ExpStarts
    <3>2. \A j : StartsExp(j, "IDENT") <=> j \in {31}
      BY DEF StartsExp
    <3> QED
      BY <3>1, <3>2
  <2>2. Goto(state, "IDENT") = {<<31, 1>>}
    BY <1>5, <2>1
  <2>3. Kernel(311) = {<<31, 1>>}
    BY OperandKernels, Zenon
  <2> QED
    BY <2>2, <2>3
<1>11. Goto(state, "INT_CONST") = Kernel(321)
  <2>1. Starts("Exp", "INT_CONST") = {32}
    <3>1. \A j : j \in Starts("Exp", "INT_CONST") <=> StartsExp(j, "INT_CONST")
      BY ExpStarts
    <3>2. \A j : StartsExp(j, "INT_CONST") <=> j \in {32}
      BY DEF StartsExp
    <3> QED
      BY <3>1, <3>2
  <2>2. Goto(state, "INT_CONST") = {<<32, 1>>}
    BY <1>5, <2>1
  <2>3. Kernel(321) = {<<32, 1>>}
    BY OperandKernels, Zenon
  <2> QED
    BY <2>2, <2>3
<1>12. Goto(state, "PrimaryExp") = Kernel(331)
  <2>1. Starts("Exp", "PrimaryExp") = {33}
    <3>1. \A j : j \in Starts("Exp", "PrimaryExp") <=> StartsExp(j, "PrimaryExp")
      BY ExpStarts
    <3>2. \A j : StartsExp(j, "PrimaryExp") <=> j \in {33}
      BY DEF StartsExp
    <3> QED
      BY <3>1, <3>2
  <2>2. Goto(state, "PrimaryExp") = {<<33, 1>>}
    BY <1>5, <2>1
  <2>3. Kernel(331) = {<<33, 1>>}
    BY OperandKernels, Zenon
  <2> QED
    BY <2>2, <2>3
<1>13. Goto(state, "UnaryOp") = Kernel(341)
  <2>1. Starts("Exp", "UnaryOp") = {34}
    <3>1. \A j : j \in Starts("Exp", "UnaryOp") <=> StartsExp(j, "UnaryOp")
      BY ExpStarts
    <3>2. \A j : StartsExp(j, "UnaryOp") <=> j \in {34}
      BY DEF StartsExp
    <3> QED
      BY <3>1, <3>2
  <2>2. Goto(state, "UnaryOp") = {<<34, 1>>}
    BY <1>5, <2>1
  <2>3. Kernel(341) = {<<34, 1>>}
    BY OperandKernels, Zenon
  <2> QED
    BY <2>2, <2>3
<1>14. Goto(state, "OPT") = Kernel(351)
  <2>1. Starts("Exp", "OPT") = {35}
    <3>1. \A j : j \in Starts("Exp", "OPT") <=> StartsExp(j, "OPT")
      BY ExpStarts
    <3>2. \A j : StartsExp(j, "OPT") <=> j \in {35}
      BY DEF StartsExp
    <3> QED
      BY <3>1, <3>2
  <2>2. Goto(state, "OPT") = {<<35, 1>>}
    BY <1>5, <2>1
  <2>3. Kernel(351) = {<<35, 1>>}
    BY OperandKernels, Zenon
  <2> QED
    BY <2>2, <2>3
<1>15. Goto(state, "UnaryExp") = Kernel(361)
  <2>1. Starts("Exp", "UnaryExp") = {36}
    <3>1. \A j : j \in Starts("Exp", "UnaryExp") <=> StartsExp(j, "UnaryExp")
      BY ExpStarts
    <3>2. \A j : StartsExp(j, "UnaryExp") <=> j \in {36}
      BY DEF StartsExp
    <3> QED
      BY <3>1, <3>2
  <2>2. Goto(state, "UnaryExp") = {<<36, 1>>}
    BY <1>5, <2>1
  <2>3. Kernel(361) = {<<36, 1>>}
    BY ChainKernels, Zenon
  <2> QED
    BY <2>2, <2>3
<1>16. Goto(state, "MulExp") = Kernel(371)
  <2>1. Starts("Exp", "MulExp") = {37, 38}
    <3>1. \A j : j \in Starts("Exp", "MulExp") <=> StartsExp(j, "MulExp")
      BY ExpStarts
    <3>2. \A j : StartsExp(j, "MulExp") <=> j \in {37, 38}
      BY DEF StartsExp
    <3> QED
      BY <3>1, <3>2
  <2>2. Goto(state, "MulExp") = {<<37, 1>>, <<38, 1>>}
    BY <1>5, <2>1
  <2>3. Kernel(371) = {<<37, 1>>, <<38, 1>>}
    BY ChainKernels, Zenon
  <2> QED
    BY <2>2, <2>3
<1>17. Goto(state, "AddExp") = Kernel(391)
  <2>1. Starts("Exp", "AddExp") = {39, 41}
    <3>1. \A j : j \in Starts("Exp", "AddExp") <=> StartsExp(j, "AddExp")
      BY ExpStarts
    <3>2. \A j : StartsExp(j, "AddExp") <=> j \in {39, 41}
      BY DEF StartsExp
    <3> QED
      BY <3>1, <3>2
  <2>2. Goto(state, "AddExp") = {<<39, 1>>, <<41, 1>>}
    BY <1>5, <2>1
  <2>3. Kernel(391) = {<<39, 1>>, <<41, 1>>}
    BY ChainKernels, Zenon
  <2> QED
    BY <2>2, <2>3
<1>18. Goto(state, "RelExp") = Kernel(421)
  <2>1. Starts("Exp", "RelExp") = {42, 43}
    <3>1. \A j : j \in Starts("Exp", "RelExp") <=> StartsExp(j, "RelExp")
      BY ExpStarts
    <3>2. \A j : StartsExp(j, "RelExp") <=> j \in {42, 43}
      BY DEF StartsExp
    <3> QED
      BY <3>1, <3>2
  <2>2. Goto(state, "RelExp") = {<<42, 1>>, <<43, 1>>}
    BY <1>5, <2>1
  <2>3. Kernel(421) = {<<42, 1>>, <<43, 1>>}
    BY ChainKernels, Zenon
  <2> QED
    BY <2>2, <2>3
<1>19. Goto(state, "EqExp") = Kernel(441)
  <2>1. Starts("Exp", "EqExp") = {44, 46}
    <3>1. \A j : j \in Starts("Exp", "EqExp") <=> StartsExp(j, "EqExp")
      BY ExpStarts
    <3>2. \A j : StartsExp(j, "EqExp") <=> j \in {44, 46}
      BY DEF StartsExp
    <3> QED
      BY <3>1, <3>2
  <2>2. Goto(state, "EqExp") = {<<44, 1>>, <<46, 1>>}
    BY <1>5, <2>1
  <2>3. Kernel(441) = {<<44, 1>>, <<46, 1>>}
    BY ChainKernels, Zenon
  <2> QED
    BY <2>2, <2>3
<1>20. Goto(state, "LAndExp") = Kernel(471)
  <2>1. Starts("Exp", "LAndExp") = {47, 48}
    <3>1. \A j : j \in Starts("Exp", "LAndExp") <=> StartsExp(j, "LAndExp")
      BY ExpStarts
    <3>2. \A j : StartsExp(j, "LAndExp") <=> j \in {47, 48}
      BY DEF StartsExp
    <3> QED
      BY <3>1, <3>2
  <2>2. Goto(state, "LAndExp") = {<<47, 1>>, <<48, 1>>}
    BY <1>5, <2>1
  <2>3. Kernel(471) = {<<47, 1>>, <<48, 1>>}
    BY ChainKernels, Zenon
  <2> QED
    BY <2>2, <2>3
<1>21. Goto(state, "Exp") = {<<i, d + 1>>}
  <2>1. Starts("Exp", "Exp") = {}
    <3>1. \A j : j \in Starts("Exp", "Exp") <=> StartsExp(j, "Exp")
      BY ExpStarts
    <3>2. \A j : StartsExp(j, "Exp") <=> j \in {}
      BY DEF StartsExp
    <3> QED
      BY <3>1, <3>2
  <2> QED
    BY <1>5, <2>1
<1> QED
  BY <1>3, <1>4, <1>6, <1>7, <1>8, <1>9, <1>10, <1>11, <1>12, <1>13, <1>14,
     <1>15, <1>16, <1>17, <1>18, <1>19, <1>20, <1>21

\* A state before UnaryExp: what it expects, has complete, and leads to.
LEMMA BeforeUnaryExp ==
    ASSUME NEW state, NEW i, NEW d, Open(state, i, d, "UnaryExp")
    PROVE  /\ \A t : t \in Expects(state) <=> t \in {"(", "IDENT", "INT_CONST", "OPT"}
           /\ \A j : j \in Complete(state) <=>
                  (\E it \in state : it[1] = j /\ AfterDot(it) = {}) \/ j \in {}
           /\ Goto(state, "(") = Kernel(281)
           /\ Goto(state, "Number") = Kernel(291)
           /\ Goto(state, "LVal") = Kernel(301)
           /\ Goto(state, "IDENT") = Kernel(311)
           /\ Goto(state, "INT_CONST") = Kernel(321)
           /\ Goto(state, "PrimaryExp") = Kernel(331)
           /\ Goto(state, "UnaryOp") = Kernel(341)
           /\ Goto(state, "OPT") = Kernel(351)
           /\ Goto(state, "UnaryExp") = {<<i, d + 1>>}
<1>1. \A t : t \in Expects(state) <=> t \notin Names /\ (t = "UnaryExp" \/ \E j \in Begun("UnaryExp") : FirstIs(j, t))
  BY OpenState
<1>2. \A X : (\E j \in Begun("UnaryExp") : FirstIs(j, X)) <=> \E j \in Starts("UnaryExp", X) : TRUE
  BY DEF Starts
<1>3. ASSUME NEW t PROVE t \in Expects(state) <=> t \in {"(", "IDENT", "INT_CONST", "OPT"}
  <2>1. (\E j \in Starts("UnaryExp", t) : TRUE) <=> t \in {"(", "Number", "LVal", "IDENT", "INT_CONST", "PrimaryExp", "UnaryOp", "OPT"}
    <3>1. \A j : j \in Starts("UnaryExp", t) <=> StartsUnaryExp(j, t)
      BY UnaryExpStarts
    <3>2. (\E j : StartsUnaryExp(j, t)) <=> t \in {"(", "Number", "LVal", "IDENT", "INT_CONST", "PrimaryExp", "UnaryOp", "OPT"}
      <4>1. t = "(" => StartsUnaryExp(28, t)
        BY DEF StartsUnaryExp
      <4>2. t = "Number" => StartsUnaryExp(29, t)
        BY DEF StartsUnaryExp
      <4>3. t = "LVal" => StartsUnaryExp(30, t)
        BY DEF StartsUnaryExp
      <4>4. t = "IDENT" => StartsUnaryExp(31, t)
        BY DEF StartsUnaryExp
      <4>5. t = "INT_CONST" => StartsUnaryExp(32, t)
        BY DEF StartsUnaryExp
      <4>6. t = "PrimaryExp" => StartsUnaryExp(33, t)
        BY DEF StartsUnaryExp
      <4>7. t = "UnaryOp" => StartsUnaryExp(34, t)
        BY DEF StartsUnaryExp
      <4>8. t = "OPT" => StartsUnaryExp(35, t)
        BY DEF StartsUnaryExp
      <4>9. \A j : StartsUnaryExp(j, t) => t \in {"(", "Number", "LVal", "IDENT", "INT_CONST", "PrimaryExp", "UnaryOp", "OPT"}
        BY DEF StartsUnaryExp
      <4> QED
        BY <4>1, <4>2, <4>3, <4>4, <4>5, <4>6, <4>7, <4>8, <4>9
    <3> QED
      BY <3>1, <3>2
  <2>2. {"Number", "LVal", "PrimaryExp", "UnaryOp", "UnaryExp"} \subseteq Names
    BY DEF Names
  <2>3. {"(", "IDENT", "INT_CONST", "OPT"} \cap Names = {}
    BY TokensUnnamed
  <2> QED
    BY <1>1, <1>2, <2>1, <2>2, <2>3
<1>4. \A j : j \in Complete(state) <=>
             (\E it \in state : it[1] = j /\ AfterDot(it) = {}) \/ j \in {}
  <2>1. \A j : j \in Complete(state) <=>
                 \/ \E it \in state : it[1] = j /\ AfterDot(it) = {}
                 \/ j \in Begun("UnaryExp") /\ Len(Rules[j].rhs) = 0
    BY OpenState
  <2>2. \A j : j \in Begun("UnaryExp") /\ Len(Rules[j].rhs) = 0 <=> j \in {}
    BY UnaryExpStarts
  <2> QED
    BY <2>1, <2>2
<1>5. \A X : Goto(state, X) = {<<j, 1>> : j \in Starts("UnaryExp", X)}
                               \cup (IF X = "UnaryExp" THEN {<<i, d + 1>>} ELSE {})
  BY OpenState
<1>6. Goto(state, "(") = Kernel(281)
  <2>1. Starts("UnaryExp", "(") = {28}
    <3>1. \A j : j \in Starts("UnaryExp", "(") <=> StartsUnaryExp(j, "(")
      BY UnaryExpStarts
    <3>2. \A j : StartsUnaryExp(j, "(") <=> j \in {28}
      BY DEF StartsUnaryExp
    <3> QED
      BY <3>1, <3>2
  <2>2. Goto(state, "(") = {<<28, 1>>}
    BY <1>5, <2>1
  <2>3. Kernel(281) = {<<28, 1>>}
    BY ReturnKernels, Zenon
  <2> QED
    BY <2>2, <2>3
<1>7. Goto(state, "Number") = Kernel(291)
  <2>1. Starts("UnaryExp", "Number") = {29}
    <3>1. \A j : j \in Starts("UnaryExp", "Number") <=> StartsUnaryExp(j, "Number")
      BY UnaryExpStarts
    <3>2. \A j : StartsUnaryExp(j, "Number") <=> j \in {29}
      BY DEF StartsUnaryExp
    <3> QED
      BY <3>1, <3>2
  <2>2. Goto(state, "Number") = {<<29, 1>>}
    BY <1>5, <2>1
  <2>3. Kernel(291) = {<<29, 1>>}
    BY OperandKernels, Zenon
  <2> QED
    BY <2>2, <2>3
<1>8. Goto(state, "LVal") = Kernel(301)
  <2>1. Starts("UnaryExp", "LVal") = {30}
    <3>1. \A j : j \in Starts("UnaryExp", "LVal") <=> StartsUnaryExp(j, "LVal")
      BY UnaryExpStarts
    <3>2. \A j : StartsUnaryExp(j, "LVal") <=> j \in {30}
      BY DEF StartsUnaryExp
    <3> QED
      BY <3>1, <3>2
  <2>2. Goto(state, "LVal") = {<<30, 1>>}
    BY <1>5, <2>1
  <2>3. Kernel(301) = {<<30, 1>>}
    BY OperandKernels, Zenon
  <2> QED
    BY <2>2, <2>3
<1>9. Goto(state, "IDENT") = Kernel(311)
  <2>1. Starts("UnaryExp", "IDENT") = {31}
    <3>1. \A j : j \in Starts("UnaryExp", "IDENT") <=> StartsUnaryExp(j, "IDENT")
      BY UnaryExpStarts
    <3>2. \A j : StartsUnaryExp(j, "IDENT") <=> j \in {31}
      BY DEF StartsUnaryExp
    <3> QED
      BY <3>1, <3>2
  <2>2. Goto(state, "IDENT") = {<<31, 1>>}
    BY <1>5, <2>1
  <2>3. Kernel(311) = {<<31, 1>>}
    BY OperandKernels, Zenon
  <2> QED
    BY <2>2, <2>3
<1>10. Goto(state, "INT_CONST") = Kernel(321)
  <2>1. Starts("UnaryExp", "INT_CONST") = {32}
    <3>1. \A j : j \in Starts("UnaryExp", "INT_CONST") <=> StartsUnaryExp(j, "INT_CONST")
      BY UnaryExpStarts
    <3>2. \A j : StartsUnaryExp(j, "INT_CONST") <=> j \in {32}
      BY DEF StartsUnaryExp
    <3> QED
      BY <3>1, <3>2
  <2>2. Goto(state, "INT_CONST") = {<<32, 1>>}
    BY <1>5, <2>1
  <2>3. Kernel(321) = {<<32, 1>>}
    BY OperandKernels, Zenon
  <2> QED
    BY <2>2, <2>3
<1>11. Goto(state, "PrimaryExp") = Kernel(331)
  <2>1. Starts("UnaryExp", "PrimaryExp") = {33}
    <3>1. \A j : j \in Starts("UnaryExp", "PrimaryExp") <=> StartsUnaryExp(j, "PrimaryExp")
      BY UnaryExpStarts
    <3>2. \A j : StartsUnaryExp(j, "PrimaryExp") <=> j \in {33}
      BY DEF StartsUnaryExp
    <3> QED
      BY <3>1, <3>2
  <2>2. Goto(state, "PrimaryExp") = {<<33, 1>>}
    BY <1>5, <2>1
  <2>3. Kernel(331) = {<<33, 1>>}
    BY OperandKernels, Zenon
  <2> QED
    BY <2>2, <2>3
<1>12. Goto(state, "UnaryOp") = Kernel(341)
  <2>1. Starts("UnaryExp", "UnaryOp") = {34}
    <3>1. \A j : j \in Starts("UnaryExp", "UnaryOp") <=> StartsUnaryExp(j, "UnaryOp")
      BY UnaryExpStarts
    <3>2. \A j : StartsUnaryExp(j, "UnaryOp") <=> j \in {34}
      BY DEF StartsUnaryExp
    <3> QED
      BY <3>1, <3>2
  <2>2. Goto(state, "UnaryOp") = {<<34, 1>>}
    BY <1>5, <2>1
  <2>3. Kernel(341) = {<<34, 1>>}
    BY OperandKernels, Zenon
  <2> QED
    BY <2>2, <2>3
<1>13. Goto(state, "OPT") = Kernel(351)
  <2>1. Starts("UnaryExp", "OPT") = {35}
    <3>1. \A j : j \in Starts("UnaryExp", "OPT") <=> StartsUnaryExp(j, "OPT")
      BY UnaryExpStarts
    <3>2. \A j : StartsUnaryExp(j, "OPT") <=> j \in {35}
      BY DEF StartsUnaryExp
    <3> QED
      BY <3>1, <3>2
  <2>2. Goto(state, "OPT") = {<<35, 1>>}
    BY <1>5, <2>1
  <2>3. Kernel(351) = {<<35, 1>>}
    BY OperandKernels, Zenon
  <2> QED
    BY <2>2, <2>3
<1>14. Goto(state, "UnaryExp") = {<<i, d + 1>>}
  <2>1. Starts("UnaryExp", "UnaryExp") = {}
    <3>1. \A j : j \in Starts("UnaryExp", "UnaryExp") <=> StartsUnaryExp(j, "UnaryExp")
      BY UnaryExpStarts
    <3>2. \A j : StartsUnaryExp(j, "UnaryExp") <=> j \in {}
      BY DEF StartsUnaryExp
    <3> QED
      BY <3>1, <3>2
  <2> QED
    BY <1>5, <2>1
<1> QED
  BY <1>3, <1>4, <1>6, <1>7, <1>8, <1>9, <1>10, <1>11, <1>12, <1>13, <1>14

\* A state before BType: what it expects, has complete, and leads to.
LEMMA BeforeBType ==
    ASSUME NEW state, NEW i, NEW d, Open(state, i, d, "BType")
    PROVE  /\ \A t : t \in Expects(state) <=> t \in {"INT"}
           /\ \A j : j \in Complete(state) <=>
                  (\E it \in state : it[1] = j /\ AfterDot(it) = {}) \/ j \in {}
           /\ Goto(state, "INT") = Kernel(141)
           /\ Goto(state, "BType") = {<<i, d + 1>>}
<1>1. \A t : t \in Expects(state) <=> t \notin Names /\ (t = "BType" \/ \E j \in Begun("BType") : FirstIs(j, t))
  BY OpenState
<1>2. \A X : (\E j \in Begun("BType") : FirstIs(j, X)) <=> \E j \in Starts("BType", X) : TRUE
  BY DEF Starts
<1>3. ASSUME NEW t PROVE t \in Expects(state) <=> t \in {"INT"}
  <2>1. (\E j \in Starts("BType", t) : TRUE) <=> t \in {"INT"}
    <3>1. \A j : j \in Starts("BType", t) <=> StartsBType(j, t)
      BY BTypeStarts
    <3>2. (\E j : StartsBType(j, t)) <=> t \in {"INT"}
      <4>1. t = "INT" => StartsBType(14, t)
        BY DEF StartsBType
      <4>2. \A j : StartsBType(j, t) => t \in {"INT"}
        BY DEF StartsBType
      <4> QED
        BY <4>1, <4>2
    <3> QED
      BY <3>1, <3>2
  <2>2. {"BType"} \subseteq Names
    BY DEF Names
  <2>3. {"INT"} \cap Names = {}
    BY TokensUnnamed
  <2> QED
    BY <1>1, <1>2, <2>1, <2>2, <2>3
<1>4. \A j : j \in Complete(state) <=>
             (\E it \in state : it[1] = j /\ AfterDot(it) = {}) \/ j \in {}
  <2>1. \A j : j \in Complete(state) <=>
                 \/ \E it \in state : it[1] = j /\ AfterDot(it) = {}
                 \/ j \in Begun("BType") /\ Len(Rules[j].rhs) = 0
    BY OpenState
  <2>2. \A j : j \in Begun("BType") /\ Len(Rules[j].rhs) = 0 <=> j \in {}
    BY BTypeStarts
  <2> QED
    BY <2>1, <2>2
<1>5. \A X : Goto(state, X) = {<<j, 1>> : j \in Starts("BType", X)}
                               \cup (IF X = "BType" THEN {<<i, d + 1>>} ELSE {})
  BY OpenState
<1>6. Goto(state, "INT") = Kernel(141)
  <2>1. Starts("BType", "INT") = {14}
    <3>1. \A j : j \in Starts("BType", "INT") <=> StartsBType(j, "INT")
      BY BTypeStarts
    <3>2. \A j : StartsBType(j, "INT") <=> j \in {14}
      BY DEF StartsBType
    <3> QED
      BY <3>1, <3>2
  <2>2. Goto(state, "INT") = {<<14, 1>>}
    BY <1>5, <2>1
  <2>3. Kernel(141) = {<<14, 1>>}
    BY BlockKernels, Zenon
  <2> QED
    BY <2>2, <2>3
<1>7. Goto(state, "BType") = {<<i, d + 1>>}
  <2>1. Starts("BType", "BType") = {}
    <3>1. \A j : j \in Starts("BType", "BType") <=> StartsBType(j, "BType")
      BY BTypeStarts
    <3>2. \A j : StartsBType(j, "BType") <=> j \in {}
      BY DEF StartsBType
    <3> QED
      BY <3>1, <3>2
  <2> QED
    BY <1>5, <2>1
<1> QED
  BY <1>3, <1>4, <1>6, <1>7

\* A state before ConstDef: what it expects, has complete, and leads to.
LEMMA BeforeConstDef ==
    ASSUME NEW state, NEW i, NEW d, Open(state, i, d, "ConstDef")
    PROVE  /\ \A t : t \in Expects(state) <=> t \in {"IDENT"}
           /\ \A j : j \in Complete(state) <=>
                  (\E it \in state : it[1] = j /\ AfterDot(it) = {}) \/ j \in {}
           /\ Goto(state, "IDENT") = Kernel(171)
           /\ Goto(state, "ConstDef") = {<<i, d + 1>>}
<1>1. \A t : t \in Expects(state) <=> t \notin Names /\ (t = "ConstDef" \/ \E j \in Begun("ConstDef") : FirstIs(j, t))
  BY OpenState
<1>2. \A X : (\E j \in Begun("ConstDef") : FirstIs(j, X)) <=> \E j \in Starts("ConstDef", X) : TRUE
  BY DEF Starts
<1>3. ASSUME NEW t PROVE t \in Expects(state) <=> t \in {"IDENT"}
  <2>1. (\E j \in Starts("ConstDef", t) : TRUE) <=> t \in {"IDENT"}
    <3>1. \A j : j \in Starts("ConstDef", t) <=> StartsConstDef(j, t)
      BY ConstDefStarts
    <3>2. (\E j : StartsConstDef(j, t)) <=> t \in {"IDENT"}
      <4>1. t = "IDENT" => StartsConstDef(17, t)
        BY DEF StartsConstDef
      <4>2. \A j : StartsConstDef(j, t) => t \in {"IDENT"}
        BY DEF StartsConstDef
      <4> QED
        BY <4>1, <4>2
    <3> QED
      BY <3>1, <3>2
  <2>2. {"ConstDef"} \subseteq Names
    BY DEF Names
  <2>3. {"IDENT"} \cap Names = {}
    BY TokensUnnamed
  <2> QED
    BY <1>1, <1>2, <2>1, <2>2, <2>3
<1>4. \A j : j \in Complete(state) <=>
             (\E it \in state : it[1] = j /\ AfterDot(it) = {}) \/ j \in {}
  <2>1. \A j : j \in Complete(state) <=>
                 \/ \E it \in state : it[1] = j /\ AfterDot(it) = {}
                 \/ j \in Begun("ConstDef") /\ Len(Rules[j].rhs) = 0
    BY OpenState
  <2>2. \A j : j \in Begun("ConstDef") /\ Len(Rules[j].rhs) = 0 <=> j \in {}
    BY ConstDefStarts
  <2> QED
    BY <2>1, <2>2
<1>5. \A X : Goto(state, X) = {<<j, 1>> : j \in Starts("ConstDef", X)}
                               \cup (IF X = "ConstDef" THEN {<<i, d + 1>>} ELSE {})
  BY OpenState
<1>6. Goto(state, "IDENT") = Kernel(171)
  <2>1. Starts("ConstDef", "IDENT") = {17}
    <3>1. \A j : j \in Starts("ConstDef", "IDENT") <=> StartsConstDef(j, "IDENT")
      BY ConstDefStarts
    <3>2. \A j : StartsConstDef(j, "IDENT") <=> j \in {17}
      BY DEF StartsConstDef
    <3> QED
      BY <3>1, <3>2
  <2>2. Goto(state, "IDENT") = {<<17, 1>>}
    BY <1>5, <2>1
  <2>3. Kernel(171) = {<<17, 1>>}
    BY BlockKernels, Zenon
  <2> QED
    BY <2>2, <2>3
<1>7. Goto(state, "ConstDef") = {<<i, d + 1>>}
  <2>1. Starts("ConstDef", "ConstDef") = {}
    <3>1. \A j : j \in Starts("ConstDef", "ConstDef") <=> StartsConstDef(j, "ConstDef")
      BY ConstDefStarts
    <3>2. \A j : StartsConstDef(j, "ConstDef") <=> j \in {}
      BY DEF StartsConstDef
    <3> QED
      BY <3>1, <3>2
  <2> QED
    BY <1>5, <2>1
<1> QED
  BY <1>3, <1>4, <1>6, <1>7

\* A state before BinOp: what it expects, has complete, and leads to.
LEMMA BeforeBinOp ==
    ASSUME NEW state, NEW i, NEW d, Open(state, i, d, "BinOp")
    PROVE  /\ \A t : t \in Expects(state) <=> t \in {"OPT"}
           /\ \A j : j \in Complete(state) <=>
                  (\E it \in state : it[1] = j /\ AfterDot(it) = {}) \/ j \in {}
           /\ Goto(state, "OPT") = Kernel(401)
           /\ Goto(state, "BinOp") = {<<i, d + 1>>}
<1>1. \A t : t \in Expects(state) <=> t \notin Names /\ (t = "BinOp" \/ \E j \in Begun("BinOp") : FirstIs(j, t))
  BY OpenState
<1>2. \A X : (\E j \in Begun("BinOp") : FirstIs(j, X)) <=> \E j \in Starts("BinOp", X) : TRUE
  BY DEF Starts
<1>3. ASSUME NEW t PROVE t \in Expects(state) <=> t \in {"OPT"}
  <2>1. (\E j \in Starts("BinOp", t) : TRUE) <=> t \in {"OPT"}
    <3>1. \A j : j \in Starts("BinOp", t) <=> StartsBinOp(j, t)
      BY BinOpStarts
    <3>2. (\E j : StartsBinOp(j, t)) <=> t \in {"OPT"}
      <4>1. t = "OPT" => StartsBinOp(40, t)
        BY DEF StartsBinOp
      <4>2. \A j : StartsBinOp(j, t) => t \in {"OPT"}
        BY DEF StartsBinOp
      <4> QED
        BY <4>1, <4>2
    <3> QED
      BY <3>1, <3>2
  <2>2. {"BinOp"} \subseteq Names
    BY DEF Names
  <2>3. {"OPT"} \cap Names = {}
    BY TokensUnnamed
  <2> QED
    BY <1>1, <1>2, <2>1, <2>2, <2>3
<1>4. \A j : j \in Complete(state) <=>
             (\E it \in state : it[1] = j /\ AfterDot(it) = {}) \/ j \in {}
  <2>1. \A j : j \in Complete(state) <=>
                 \/ \E it \in state : it[1] = j /\ AfterDot(it) = {}
                 \/ j \in Begun("BinOp") /\ Len(Rules[j].rhs) = 0
    BY OpenState
  <2>2. \A j : j \in Begun("BinOp") /\ Len(Rules[j].rhs) = 0 <=> j \in {}
    BY BinOpStarts
  <2> QED
    BY <2>1, <2>2
<1>5. \A X : Goto(state, X) = {<<j, 1>> : j \in Starts("BinOp", X)}
                               \cup (IF X = "BinOp" THEN {<<i, d + 1>>} ELSE {})
  BY OpenState
<1>6. Goto(state, "OPT") = Kernel(401)
  <2>1. Starts("BinOp", "OPT") = {40}
    <3>1. \A j : j \in Starts("BinOp", "OPT") <=> StartsBinOp(j, "OPT")
      BY BinOpStarts
    <3>2. \A j : StartsBinOp(j, "OPT") <=> j \in {40}
      BY DEF StartsBinOp
    <3> QED
      BY <3>1, <3>2
  <2>2. Goto(state, "OPT") = {<<40, 1>>}
    BY <1>5, <2>1
  <2>3. Kernel(401) = {<<40, 1>>}
    BY ChainKernels, Zenon
  <2> QED
    BY <2>2, <2>3
<1>7. Goto(state, "BinOp") = {<<i, d + 1>>}
  <2>1. Starts("BinOp", "BinOp") = {}
    <3>1. \A j : j \in Starts("BinOp", "BinOp") <=> StartsBinOp(j, "BinOp")
      BY BinOpStarts
    <3>2. \A j : StartsBinOp(j, "BinOp") <=> j \in {}
      BY DEF StartsBinOp
    <3> QED
      BY <3>1, <3>2
  <2> QED
    BY <1>5, <2>1
<1> QED
  BY <1>3, <1>4, <1>6, <1>7

\* A state before CmpOp: what it expects, has complete, and leads to.
LEMMA BeforeCmpOp ==
    ASSUME NEW state, NEW i, NEW d, Open(state, i, d, "CmpOp")
    PROVE  /\ \A t : t \in Expects(state) <=> t \in {"OPT"}
           /\ \A j : j \in Complete(state) <=>
                  (\E it \in state : it[1] = j /\ AfterDot(it) = {}) \/ j \in {}
<1>1. \A t : t \in Expects(state) <=> t \notin Names /\ (t = "CmpOp" \/ \E j \in Begun("CmpOp") : FirstIs(j, t))
  BY OpenState
<1>2. \A X : (\E j \in Begun("CmpOp") : FirstIs(j, X)) <=> \E j \in Starts("CmpOp", X) : TRUE
  BY DEF Starts
<1>3. ASSUME NEW t PROVE t \in Expects(state) <=> t \in {"OPT"}
  <2>1. (\E j \in Starts("CmpOp", t) : TRUE) <=> t \in {"OPT"}
    <3>1. \A j : j \in Starts("CmpOp", t) <=> StartsCmpOp(j, t)
      BY CmpOpStarts
    <3>2. (\E j : StartsCmpOp(j, t)) <=> t \in {"OPT"}
      <4>1. t = "OPT" => StartsCmpOp(45, t)
        BY DEF StartsCmpOp
      <4>2. \A j : StartsCmpOp(j, t) => t \in {"OPT"}
        BY DEF StartsCmpOp
      <4> QED
        BY <4>1, <4>2
    <3> QED
      BY <3>1, <3>2
  <2>2. {"CmpOp"} \subseteq Names
    BY DEF Names
  <2>3. {"OPT"} \cap Names = {}
    BY TokensUnnamed
  <2> QED
    BY <1>1, <1>2, <2>1, <2>2, <2>3
<1>4. \A j : j \in Complete(state) <=>
             (\E it \in state : it[1] = j /\ AfterDot(it) = {}) \/ j \in {}
  <2>1. \A j : j \in Complete(state) <=>
                 \/ \E it \in state : it[1] = j /\ AfterDot(it) = {}
                 \/ j \in Begun("CmpOp") /\ Len(Rules[j].rhs) = 0
    BY OpenState
  <2>2. \A j : j \in Begun("CmpOp") /\ Len(Rules[j].rhs) = 0 <=> j \in {}
    BY CmpOpStarts
  <2> QED
    BY <2>1, <2>2
<1>5. \A X : Goto(state, X) = {<<j, 1>> : j \in Starts("CmpOp", X)}
                               \cup (IF X = "CmpOp" THEN {<<i, d + 1>>} ELSE {})
  BY OpenState
<1> QED
  BY <1>3, <1>4

\* The states before an operand.
Operands == {261, 281, 341, 372}

\* The states behind an operand, where the operator is shifted.
Chains == {371, 391, 421, 441, 471, 491}

\* The tokens that are expected in a state.
Wants(c, t) ==
    \/ c \in {10, 131} /\ t = "INT"
    \/ c = 11 /\ t = "$end"
    \/ c \in {31, 132} /\ t = "IDENT"
    \/ c = 32 /\ t = "("
    \/ c \in {33, 282} /\ t = ")"
    \/ c = 34 /\ t = OpenBlock
    \/ c \in {51, 71} /\ t \in {"CONST", "IDENT", "RETURN"}
    \/ c = 52 /\ t = CloseBlock
    \/ c = 262 /\ t = Semicolon
    \/ c \in {171, 251} /\ t = "str="
    \/ c \in Operands /\ t \in {"(", "IDENT", "INT_CONST", "OPT"}
    \/ c \in Chains /\ t = "OPT"

\* The rules that are complete in a state.
Ends(c, i) ==
    \/ i = 2 /\ c = 21
    \/ i = 3 /\ c = 35
    \/ i = 4 /\ c = 41
    \/ i = 5 /\ c = 53
    \/ i = 6 /\ c \in {51, 71}
    \/ i = 7 /\ c = 72
    \/ i = 9 /\ c = 91
    \/ i = 10 /\ c \in {51, 71}
    \/ i = 14 /\ c = 141
    \/ i = 26 /\ c = 263
    \/ i = 27 /\ c = 491
    \/ i = 28 /\ c = 283
    \/ i = 29 /\ c = 291
    \/ i = 30 /\ c = 301
    \/ i = 31 /\ c = 311
    \/ i = 32 /\ c = 321
    \/ i = 33 /\ c = 331
    \/ i = 34 /\ c = 342
    \/ i = 35 /\ c = 351
    \/ i = 36 /\ c = 361
    \/ i = 37 /\ c = 373
    \/ i = 38 /\ c = 371
    \/ i = 40 /\ c = 401
    \/ i = 41 /\ c = 391
    \/ i = 43 /\ c = 421
    \/ i = 46 /\ c = 441
    \/ i = 48 /\ c = 471

\* The unfinished items of the states before the expressions.
LEMMA StatementsOpen ==
    /\ Open(Kernel(10), 1, 0, "CompUnit")
    /\ Open(Kernel(11), 1, 1, "$end")
    /\ Open(Kernel(31), 3, 1, "IDENT")
    /\ Open(Kernel(32), 3, 2, "(")
    /\ Open(Kernel(33), 3, 3, ")")
    /\ Open(Kernel(34), 3, 4, "Block")
    /\ Open(Kernel(51), 5, 1, "BlockItems")
    /\ Open(Kernel(52), 5, 2, CloseBlock)
    /\ Open(Kernel(71), 7, 1, "BlockItems")
    /\ Open(Kernel(131), 13, 1, "BType")
    /\ Open(Kernel(132), 13, 2, "ConstDef")
    /\ Open(Kernel(171), 17, 1, "str=")
    /\ Open(Kernel(251), 25, 1, "str=")
<1>1. Open(Kernel(10), 1, 0, "CompUnit")
  <2>1. Kernel(10) = {<<1, 0>>}
    BY HeaderKernels, Zenon
  <2>2. AfterDot(<<1, 0>>) = {"CompUnit"}
    BY ProgramDots
  <2> QED
    BY <2>1, <2>2 DEF Open
<1>2. Open(Kernel(11), 1, 1, "$end")
  <2>1. Kernel(11) = {<<1, 1>>}
    BY HeaderKernels, Zenon
  <2>2. AfterDot(<<1, 1>>) = {"$end"}
    BY ProgramDots
  <2> QED
    BY <2>1, <2>2 DEF Open
<1>3. Open(Kernel(31), 3, 1, "IDENT")
  <2>1. Kernel(31) = {<<3, 1>>}
    BY HeaderKernels, Zenon
  <2>2. AfterDot(<<3, 1>>) = {"IDENT"}
    BY ProgramDots
  <2> QED
    BY <2>1, <2>2 DEF Open
<1>4. Open(Kernel(32), 3, 2, "(")
  <2>1. Kernel(32) = {<<3, 2>>}
    BY HeaderKernels, Zenon
  <2>2. AfterDot(<<3, 2>>) = {"("}
    BY ProgramDots
  <2> QED
    BY <2>1, <2>2 DEF Open
<1>5. Open(Kernel(33), 3, 3, ")")
  <2>1. Kernel(33) = {<<3, 3>>}
    BY HeaderKernels, Zenon
  <2>2. AfterDot(<<3, 3>>) = {")"}
    BY ProgramDots
  <2> QED
    BY <2>1, <2>2 DEF Open
<1>6. Open(Kernel(34), 3, 4, "Block")
  <2>1. Kernel(34) = {<<3, 4>>}
    BY HeaderKernels, Zenon
  <2>2. AfterDot(<<3, 4>>) = {"Block"}
    BY ProgramDots
  <2> QED
    BY <2>1, <2>2 DEF Open
<1>7. Open(Kernel(51), 5, 1, "BlockItems")
  <2>1. Kernel(51) = {<<5, 1>>}
    BY BlockKernels, Zenon
  <2>2. AfterDot(<<5, 1>>) = {"BlockItems"}
    BY ProgramDots
  <2> QED
    BY <2>1, <2>2 DEF Open
<1>8. Open(Kernel(52), 5, 2, CloseBlock)
  <2>1. Kernel(52) = {<<5, 2>>}
    BY BlockKernels, Zenon
  <2>2. AfterDot(<<5, 2>>) = {CloseBlock}
    BY ProgramDots
  <2> QED
    BY <2>1, <2>2 DEF Open
<1>9. Open(Kernel(71), 7, 1, "BlockItems")
  <2>1. Kernel(71) = {<<7, 1>>}
    BY BlockKernels, Zenon
  <2>2. AfterDot(<<7, 1>>) = {"BlockItems"}
    BY ItemDots
  <2> QED
    BY <2>1, <2>2 DEF Open
<1>10. Open(Kernel(131), 13, 1, "BType")
  <2>1. Kernel(131) = {<<13, 1>>}
    BY BlockKernels, Zenon
  <2>2. AfterDot(<<13, 1>>) = {"BType"}
    BY ItemDots
  <2> QED
    BY <2>1, <2>2 DEF Open
<1>11. Open(Kernel(132), 13, 2, "ConstDef")
  <2>1. Kernel(132) = {<<13, 2>>}
    BY BlockKernels, Zenon
  <2>2. AfterDot(<<13, 2>>) = {"ConstDef"}
    BY ItemDots
  <2> QED
    BY <2>1, <2>2 DEF Open
<1>12. Open(Kernel(171), 17, 1, "str=")
  <2>1. Kernel(171) = {<<17, 1>>}
    BY BlockKernels, Zenon
  <2>2. AfterDot(<<17, 1>>) = {"str="}
    BY ItemDots
  <2> QED
    BY <2>1, <2>2 DEF Open
<1>13. Open(Kernel(251), 25, 1, "str=")
  <2>1. Kernel(251) = {<<25, 1>>}
    BY ReturnKernels, Zenon
  <2>2. AfterDot(<<25, 1>>) = {"str="}
    BY StmtDots
  <2> QED
    BY <2>1, <2>2 DEF Open
<1> QED
  BY <1>1, <1>2, <1>3, <1>4, <1>5, <1>6, <1>7, <1>8, <1>9, <1>10, <1>11,
     <1>12, <1>13

\* The unfinished items of the states of expressions.
LEMMA ExpressionsOpen ==
    /\ Open(Kernel(261), 26, 1, "Exp")
    /\ Open(Kernel(262), 26, 2, Semicolon)
    /\ Open(Kernel(281), 28, 1, "Exp")
    /\ Open(Kernel(282), 28, 2, ")")
    /\ Open(Kernel(341), 34, 1, "UnaryExp")
    /\ Open(Kernel(371), 37, 1, "BinOp")
    /\ Open(Kernel(372), 37, 2, "UnaryExp")
    /\ Open(Kernel(391), 39, 1, "BinOp")
    /\ Open(Kernel(421), 42, 1, "CmpOp")
    /\ Open(Kernel(441), 44, 1, "CmpOp")
    /\ Open(Kernel(471), 47, 1, "OPT")
    /\ Open(Kernel(491), 49, 1, "OPT")
<1>1. Open(Kernel(261), 26, 1, "Exp")
  <2>1. Kernel(261) = {<<26, 1>>}
    BY ReturnKernels, Zenon
  <2>2. AfterDot(<<26, 1>>) = {"Exp"}
    BY StmtDots
  <2> QED
    BY <2>1, <2>2 DEF Open
<1>2. Open(Kernel(262), 26, 2, Semicolon)
  <2>1. Kernel(262) = {<<26, 2>>}
    BY ReturnKernels, Zenon
  <2>2. AfterDot(<<26, 2>>) = {Semicolon}
    BY StmtDots
  <2> QED
    BY <2>1, <2>2 DEF Open
<1>3. Open(Kernel(281), 28, 1, "Exp")
  <2>1. Kernel(281) = {<<28, 1>>}
    BY ReturnKernels, Zenon
  <2>2. AfterDot(<<28, 1>>) = {"Exp"}
    BY StmtDots
  <2> QED
    BY <2>1, <2>2 DEF Open
<1>4. Open(Kernel(282), 28, 2, ")")
  <2>1. Kernel(282) = {<<28, 2>>}
    BY ReturnKernels, Zenon
  <2>2. AfterDot(<<28, 2>>) = {")"}
    BY StmtDots
  <2> QED
    BY <2>1, <2>2 DEF Open
<1>5. Open(Kernel(341), 34, 1, "UnaryExp")
  <2>1. Kernel(341) = {<<34, 1>>}
    BY OperandKernels, Zenon
  <2>2. AfterDot(<<34, 1>>) = {"UnaryExp"}
    BY OperandDots
  <2> QED
    BY <2>1, <2>2 DEF Open
<1>6. Open(Kernel(371), 37, 1, "BinOp")
  <2>1. Kernel(371) = {<<37, 1>>, <<38, 1>>}
    BY ChainKernels, Zenon
  <2>2. AfterDot(<<37, 1>>) = {"BinOp"}
    BY ChainDots
  <2>3. AfterDot(<<38, 1>>) = {}
    BY ChainDots
  <2> QED
    BY <2>1, <2>2, <2>3 DEF Open
<1>7. Open(Kernel(372), 37, 2, "UnaryExp")
  <2>1. Kernel(372) = {<<37, 2>>}
    BY ChainKernels, Zenon
  <2>2. AfterDot(<<37, 2>>) = {"UnaryExp"}
    BY ChainDots
  <2> QED
    BY <2>1, <2>2 DEF Open
<1>8. Open(Kernel(391), 39, 1, "BinOp")
  <2>1. Kernel(391) = {<<39, 1>>, <<41, 1>>}
    BY ChainKernels, Zenon
  <2>2. AfterDot(<<39, 1>>) = {"BinOp"}
    BY ChainDots
  <2>3. AfterDot(<<41, 1>>) = {}
    BY ChainDots
  <2> QED
    BY <2>1, <2>2, <2>3 DEF Open
<1>9. Open(Kernel(421), 42, 1, "CmpOp")
  <2>1. Kernel(421) = {<<42, 1>>, <<43, 1>>}
    BY ChainKernels, Zenon
  <2>2. AfterDot(<<42, 1>>) = {"CmpOp"}
    BY ChainDots
  <2>3. AfterDot(<<43, 1>>) = {}
    BY ChainDots
  <2> QED
    BY <2>1, <2>2, <2>3 DEF Open
<1>10. Open(Kernel(441), 44, 1, "CmpOp")
  <2>1. Kernel(441) = {<<44, 1>>, <<46, 1>>}
    BY ChainKernels, Zenon
  <2>2. AfterDot(<<44, 1>>) = {"CmpOp"}
    BY ChainDots
  <2>3. AfterDot(<<46, 1>>) = {}
    BY ChainDots
  <2> QED
    BY <2>1, <2>2, <2>3 DEF Open
<1>11. Open(Kernel(471), 47, 1, "OPT")
  <2>1. Kernel(471) = {<<47, 1>>, <<48, 1>>}
    BY ChainKernels, Zenon
  <2>2. AfterDot(<<47, 1>>) = {"OPT"}
    BY ChainDots
  <2>3. AfterDot(<<48, 1>>) = {}
    BY ChainDots
  <2> QED
    BY <2>1, <2>2, <2>3 DEF Open
<1>12. Open(Kernel(491), 49, 1, "OPT")
  <2>1. Kernel(491) = {<<49, 1>>, <<27, 1>>}
    BY ChainKernels, Zenon
  <2>2. AfterDot(<<49, 1>>) = {"OPT"}
    BY ChainDots
  <2>3. AfterDot(<<27, 1>>) = {}
    BY StmtDots
  <2> QED
    BY <2>1, <2>2, <2>3 DEF Open
<1> QED
  BY <1>1, <1>2, <1>3, <1>4, <1>5, <1>6, <1>7, <1>8, <1>9, <1>10, <1>11,
     <1>12


\* What a state of these numbers expects and has complete.
LEMMA StateFacts ==
    ASSUME NEW c \in Alive
    PROVE  /\ \A t : t \in Expects(Kernel(c)) <=> Wants(c, t)
           /\ \A i : i \in Complete(Kernel(c)) <=> Ends(c, i)
<1>1. CASE c = 10
  <2>1. Kernel(10) = {<<1, 0>>}
    BY HeaderKernels, Zenon
  <2>2. AfterDot(<<1, 0>>) = {"CompUnit"}
    BY ProgramDots
  <2>4. Open(Kernel(10), 1, 0, "CompUnit")
    BY StatementsOpen
  <2>5. \A j : (\E it \in Kernel(10) : it[1] = j /\ AfterDot(it) = {}) <=> j \in {}
    BY <2>1, <2>2
  <2>6. (\A t : t \in Expects(Kernel(10)) <=> t \in {"INT"}) /\ (\A j : j \in Complete(Kernel(10)) <=> j \in {})
    BY <2>4, <2>5, BeforeCompUnit
  <2> QED
    BY <1>1, <2>6 DEF Wants, Ends, Operands, Chains
<1>2. CASE c = 11
  <2>1. Kernel(11) = {<<1, 1>>}
    BY HeaderKernels, Zenon
  <2>2. AfterDot(<<1, 1>>) = {"$end"}
    BY ProgramDots
  <2>4. Open(Kernel(11), 1, 1, "$end")
    BY StatementsOpen
  <2>5. \A j : (\E it \in Kernel(11) : it[1] = j /\ AfterDot(it) = {}) <=> j \in {}
    BY <2>1, <2>2
  <2>6. (\A t : t \in Expects(Kernel(11)) <=> t \in {"$end"}) /\ (\A j : j \in Complete(Kernel(11)) <=> j \in {})
    BY <2>4, <2>5, TokenState, TokensUnnamed
  <2> QED
    BY <1>2, <2>6 DEF Wants, Ends, Operands, Chains
<1>3. CASE c = 21
  <2>1. Kernel(21) = {<<2, 1>>}
    BY HeaderKernels, Zenon
  <2>2. AfterDot(<<2, 1>>) = {}
    BY ProgramDots
  <2>3. Expects({<<2, 1>>}) = {} /\ Complete({<<2, 1>>}) = {2}
    BY <2>2, EndState
  <2>4. Expects(Kernel(21)) = {} /\ Complete(Kernel(21)) = {2}
    BY <2>1, <2>3
  <2> QED
    BY <1>3, <2>4 DEF Alive, Wants, Ends, Operands, Chains
<1>4. CASE c = 31
  <2>1. Kernel(31) = {<<3, 1>>}
    BY HeaderKernels, Zenon
  <2>2. AfterDot(<<3, 1>>) = {"IDENT"}
    BY ProgramDots
  <2>4. Open(Kernel(31), 3, 1, "IDENT")
    BY StatementsOpen
  <2>5. \A j : (\E it \in Kernel(31) : it[1] = j /\ AfterDot(it) = {}) <=> j \in {}
    BY <2>1, <2>2
  <2>6. (\A t : t \in Expects(Kernel(31)) <=> t \in {"IDENT"}) /\ (\A j : j \in Complete(Kernel(31)) <=> j \in {})
    BY <2>4, <2>5, TokenState, TokensUnnamed
  <2> QED
    BY <1>4, <2>6 DEF Wants, Ends, Operands, Chains
<1>5. CASE c = 32
  <2>1. Kernel(32) = {<<3, 2>>}
    BY HeaderKernels, Zenon
  <2>2. AfterDot(<<3, 2>>) = {"("}
    BY ProgramDots
  <2>4. Open(Kernel(32), 3, 2, "(")
    BY StatementsOpen
  <2>5. \A j : (\E it \in Kernel(32) : it[1] = j /\ AfterDot(it) = {}) <=> j \in {}
    BY <2>1, <2>2
  <2>6. (\A t : t \in Expects(Kernel(32)) <=> t \in {"("}) /\ (\A j : j \in Complete(Kernel(32)) <=> j \in {})
    BY <2>4, <2>5, TokenState, TokensUnnamed
  <2> QED
    BY <1>5, <2>6 DEF Wants, Ends, Operands, Chains
<1>6. CASE c = 33
  <2>1. Kernel(33) = {<<3, 3>>}
    BY HeaderKernels, Zenon
  <2>2. AfterDot(<<3, 3>>) = {")"}
    BY ProgramDots
  <2>4. Open(Kernel(33), 3, 3, ")")
    BY StatementsOpen
  <2>5. \A j : (\E it \in Kernel(33) : it[1] = j /\ AfterDot(it) = {}) <=> j \in {}
    BY <2>1, <2>2
  <2>6. (\A t : t \in Expects(Kernel(33)) <=> t \in {")"}) /\ (\A j : j \in Complete(Kernel(33)) <=> j \in {})
    BY <2>4, <2>5, TokenState, TokensUnnamed
  <2> QED
    BY <1>6, <2>6 DEF Wants, Ends, Operands, Chains
<1>7. CASE c = 34
  <2>1. Kernel(34) = {<<3, 4>>}
    BY HeaderKernels, Zenon
  <2>2. AfterDot(<<3, 4>>) = {"Block"}
    BY ProgramDots
  <2>4. Open(Kernel(34), 3, 4, "Block")
    BY StatementsOpen
  <2>5. \A j : (\E it \in Kernel(34) : it[1] = j /\ AfterDot(it) = {}) <=> j \in {}
    BY <2>1, <2>2
  <2>6. (\A t : t \in Expects(Kernel(34)) <=> t \in {OpenBlock}) /\ (\A j : j \in Complete(Kernel(34)) <=> j \in {})
    BY <2>4, <2>5, BeforeBlock
  <2> QED
    BY <1>7, <2>6 DEF Wants, Ends, Operands, Chains
<1>8. CASE c = 35
  <2>1. Kernel(35) = {<<3, 5>>}
    BY HeaderKernels, Zenon
  <2>2. AfterDot(<<3, 5>>) = {}
    BY ProgramDots
  <2>3. Expects({<<3, 5>>}) = {} /\ Complete({<<3, 5>>}) = {3}
    BY <2>2, EndState
  <2>4. Expects(Kernel(35)) = {} /\ Complete(Kernel(35)) = {3}
    BY <2>1, <2>3
  <2> QED
    BY <1>8, <2>4 DEF Alive, Wants, Ends, Operands, Chains
<1>9. CASE c = 41
  <2>1. Kernel(41) = {<<4, 1>>}
    BY HeaderKernels, Zenon
  <2>2. AfterDot(<<4, 1>>) = {}
    BY ProgramDots
  <2>3. Expects({<<4, 1>>}) = {} /\ Complete({<<4, 1>>}) = {4}
    BY <2>2, EndState
  <2>4. Expects(Kernel(41)) = {} /\ Complete(Kernel(41)) = {4}
    BY <2>1, <2>3
  <2> QED
    BY <1>9, <2>4 DEF Alive, Wants, Ends, Operands, Chains
<1>10. CASE c = 51
  <2>1. Kernel(51) = {<<5, 1>>}
    BY BlockKernels, Zenon
  <2>2. AfterDot(<<5, 1>>) = {"BlockItems"}
    BY ProgramDots
  <2>4. Open(Kernel(51), 5, 1, "BlockItems")
    BY StatementsOpen
  <2>5. \A j : (\E it \in Kernel(51) : it[1] = j /\ AfterDot(it) = {}) <=> j \in {}
    BY <2>1, <2>2
  <2>6. (\A t : t \in Expects(Kernel(51)) <=> t \in {"CONST", "RETURN", "IDENT"}) /\ (\A j : j \in Complete(Kernel(51)) <=> j \in {6, 10})
    BY <2>4, <2>5, BeforeBlockItems
  <2> QED
    BY <1>10, <2>6 DEF Wants, Ends, Operands, Chains
<1>11. CASE c = 52
  <2>1. Kernel(52) = {<<5, 2>>}
    BY BlockKernels, Zenon
  <2>2. AfterDot(<<5, 2>>) = {CloseBlock}
    BY ProgramDots
  <2>4. Open(Kernel(52), 5, 2, CloseBlock)
    BY StatementsOpen
  <2>5. \A j : (\E it \in Kernel(52) : it[1] = j /\ AfterDot(it) = {}) <=> j \in {}
    BY <2>1, <2>2
  <2>6. (\A t : t \in Expects(Kernel(52)) <=> t \in {CloseBlock}) /\ (\A j : j \in Complete(Kernel(52)) <=> j \in {})
    BY <2>4, <2>5, TokenState, TokensUnnamed
  <2> QED
    BY <1>11, <2>6 DEF Wants, Ends, Operands, Chains
<1>12. CASE c = 53
  <2>1. Kernel(53) = {<<5, 3>>}
    BY BlockKernels, Zenon
  <2>2. AfterDot(<<5, 3>>) = {}
    BY ProgramDots
  <2>3. Expects({<<5, 3>>}) = {} /\ Complete({<<5, 3>>}) = {5}
    BY <2>2, EndState
  <2>4. Expects(Kernel(53)) = {} /\ Complete(Kernel(53)) = {5}
    BY <2>1, <2>3
  <2> QED
    BY <1>12, <2>4 DEF Alive, Wants, Ends, Operands, Chains
<1>13. CASE c = 71
  <2>1. Kernel(71) = {<<7, 1>>}
    BY BlockKernels, Zenon
  <2>2. AfterDot(<<7, 1>>) = {"BlockItems"}
    BY ItemDots
  <2>4. Open(Kernel(71), 7, 1, "BlockItems")
    BY StatementsOpen
  <2>5. \A j : (\E it \in Kernel(71) : it[1] = j /\ AfterDot(it) = {}) <=> j \in {}
    BY <2>1, <2>2
  <2>6. (\A t : t \in Expects(Kernel(71)) <=> t \in {"CONST", "RETURN", "IDENT"}) /\ (\A j : j \in Complete(Kernel(71)) <=> j \in {6, 10})
    BY <2>4, <2>5, BeforeBlockItems
  <2> QED
    BY <1>13, <2>6 DEF Wants, Ends, Operands, Chains
<1>14. CASE c = 72
  <2>1. Kernel(72) = {<<7, 2>>}
    BY BlockKernels, Zenon
  <2>2. AfterDot(<<7, 2>>) = {}
    BY ItemDots
  <2>3. Expects({<<7, 2>>}) = {} /\ Complete({<<7, 2>>}) = {7}
    BY <2>2, EndState
  <2>4. Expects(Kernel(72)) = {} /\ Complete(Kernel(72)) = {7}
    BY <2>1, <2>3
  <2> QED
    BY <1>14, <2>4 DEF Alive, Wants, Ends, Operands, Chains
<1>15. CASE c = 91
  <2>1. Kernel(91) = {<<9, 1>>}
    BY BlockKernels, Zenon
  <2>2. AfterDot(<<9, 1>>) = {}
    BY ItemDots
  <2>3. Expects({<<9, 1>>}) = {} /\ Complete({<<9, 1>>}) = {9}
    BY <2>2, EndState
  <2>4. Expects(Kernel(91)) = {} /\ Complete(Kernel(91)) = {9}
    BY <2>1, <2>3
  <2> QED
    BY <1>15, <2>4 DEF Alive, Wants, Ends, Operands, Chains
<1>16. CASE c = 131
  <2>1. Kernel(131) = {<<13, 1>>}
    BY BlockKernels, Zenon
  <2>2. AfterDot(<<13, 1>>) = {"BType"}
    BY ItemDots
  <2>4. Open(Kernel(131), 13, 1, "BType")
    BY StatementsOpen
  <2>5. \A j : (\E it \in Kernel(131) : it[1] = j /\ AfterDot(it) = {}) <=> j \in {}
    BY <2>1, <2>2
  <2>6. (\A t : t \in Expects(Kernel(131)) <=> t \in {"INT"}) /\ (\A j : j \in Complete(Kernel(131)) <=> j \in {})
    BY <2>4, <2>5, BeforeBType
  <2> QED
    BY <1>16, <2>6 DEF Wants, Ends, Operands, Chains
<1>17. CASE c = 132
  <2>1. Kernel(132) = {<<13, 2>>}
    BY BlockKernels, Zenon
  <2>2. AfterDot(<<13, 2>>) = {"ConstDef"}
    BY ItemDots
  <2>4. Open(Kernel(132), 13, 2, "ConstDef")
    BY StatementsOpen
  <2>5. \A j : (\E it \in Kernel(132) : it[1] = j /\ AfterDot(it) = {}) <=> j \in {}
    BY <2>1, <2>2
  <2>6. (\A t : t \in Expects(Kernel(132)) <=> t \in {"IDENT"}) /\ (\A j : j \in Complete(Kernel(132)) <=> j \in {})
    BY <2>4, <2>5, BeforeConstDef
  <2> QED
    BY <1>17, <2>6 DEF Wants, Ends, Operands, Chains
<1>18. CASE c = 141
  <2>1. Kernel(141) = {<<14, 1>>}
    BY BlockKernels, Zenon
  <2>2. AfterDot(<<14, 1>>) = {}
    BY ItemDots
  <2>3. Expects({<<14, 1>>}) = {} /\ Complete({<<14, 1>>}) = {14}
    BY <2>2, EndState
  <2>4. Expects(Kernel(141)) = {} /\ Complete(Kernel(141)) = {14}
    BY <2>1, <2>3
  <2> QED
    BY <1>18, <2>4 DEF Alive, Wants, Ends, Operands, Chains
<1>19. CASE c = 171
  <2>1. Kernel(171) = {<<17, 1>>}
    BY BlockKernels, Zenon
  <2>2. AfterDot(<<17, 1>>) = {"str="}
    BY ItemDots
  <2>4. Open(Kernel(171), 17, 1, "str=")
    BY StatementsOpen
  <2>5. \A j : (\E it \in Kernel(171) : it[1] = j /\ AfterDot(it) = {}) <=> j \in {}
    BY <2>1, <2>2
  <2>6. (\A t : t \in Expects(Kernel(171)) <=> t \in {"str="}) /\ (\A j : j \in Complete(Kernel(171)) <=> j \in {})
    BY <2>4, <2>5, TokenState, TokensUnnamed
  <2> QED
    BY <1>19, <2>6 DEF Wants, Ends, Operands, Chains
<1>20. CASE c = 251
  <2>1. Kernel(251) = {<<25, 1>>}
    BY ReturnKernels, Zenon
  <2>2. AfterDot(<<25, 1>>) = {"str="}
    BY StmtDots
  <2>4. Open(Kernel(251), 25, 1, "str=")
    BY StatementsOpen
  <2>5. \A j : (\E it \in Kernel(251) : it[1] = j /\ AfterDot(it) = {}) <=> j \in {}
    BY <2>1, <2>2
  <2>6. (\A t : t \in Expects(Kernel(251)) <=> t \in {"str="}) /\ (\A j : j \in Complete(Kernel(251)) <=> j \in {})
    BY <2>4, <2>5, TokenState, TokensUnnamed
  <2> QED
    BY <1>20, <2>6 DEF Wants, Ends, Operands, Chains
<1>21. CASE c = 261
  <2>1. Kernel(261) = {<<26, 1>>}
    BY ReturnKernels, Zenon
  <2>2. AfterDot(<<26, 1>>) = {"Exp"}
    BY StmtDots
  <2>4. Open(Kernel(261), 26, 1, "Exp")
    BY ExpressionsOpen
  <2>5. \A j : (\E it \in Kernel(261) : it[1] = j /\ AfterDot(it) = {}) <=> j \in {}
    BY <2>1, <2>2
  <2>6. (\A t : t \in Expects(Kernel(261)) <=> t \in {"(", "IDENT", "INT_CONST", "OPT"}) /\ (\A j : j \in Complete(Kernel(261)) <=> j \in {})
    BY <2>4, <2>5, BeforeExp
  <2> QED
    BY <1>21, <2>6 DEF Wants, Ends, Operands, Chains
<1>22. CASE c = 262
  <2>1. Kernel(262) = {<<26, 2>>}
    BY ReturnKernels, Zenon
  <2>2. AfterDot(<<26, 2>>) = {Semicolon}
    BY StmtDots
  <2>4. Open(Kernel(262), 26, 2, Semicolon)
    BY ExpressionsOpen
  <2>5. \A j : (\E it \in Kernel(262) : it[1] = j /\ AfterDot(it) = {}) <=> j \in {}
    BY <2>1, <2>2
  <2>6. (\A t : t \in Expects(Kernel(262)) <=> t \in {Semicolon}) /\ (\A j : j \in Complete(Kernel(262)) <=> j \in {})
    BY <2>4, <2>5, TokenState, TokensUnnamed
  <2> QED
    BY <1>22, <2>6 DEF Wants, Ends, Operands, Chains
<1>23. CASE c = 263
  <2>1. Kernel(263) = {<<26, 3>>}
    BY ReturnKernels, Zenon
  <2>2. AfterDot(<<26, 3>>) = {}
    BY StmtDots
  <2>3. Expects({<<26, 3>>}) = {} /\ Complete({<<26, 3>>}) = {26}
    BY <2>2, EndState
  <2>4. Expects(Kernel(263)) = {} /\ Complete(Kernel(263)) = {26}
    BY <2>1, <2>3
  <2> QED
    BY <1>23, <2>4 DEF Alive, Wants, Ends, Operands, Chains
<1>24. CASE c = 281
  <2>1. Kernel(281) = {<<28, 1>>}
    BY ReturnKernels, Zenon
  <2>2. AfterDot(<<28, 1>>) = {"Exp"}
    BY StmtDots
  <2>4. Open(Kernel(281), 28, 1, "Exp")
    BY ExpressionsOpen
  <2>5. \A j : (\E it \in Kernel(281) : it[1] = j /\ AfterDot(it) = {}) <=> j \in {}
    BY <2>1, <2>2
  <2>6. (\A t : t \in Expects(Kernel(281)) <=> t \in {"(", "IDENT", "INT_CONST", "OPT"}) /\ (\A j : j \in Complete(Kernel(281)) <=> j \in {})
    BY <2>4, <2>5, BeforeExp
  <2> QED
    BY <1>24, <2>6 DEF Wants, Ends, Operands, Chains
<1>25. CASE c = 282
  <2>1. Kernel(282) = {<<28, 2>>}
    BY ReturnKernels, Zenon
  <2>2. AfterDot(<<28, 2>>) = {")"}
    BY StmtDots
  <2>4. Open(Kernel(282), 28, 2, ")")
    BY ExpressionsOpen
  <2>5. \A j : (\E it \in Kernel(282) : it[1] = j /\ AfterDot(it) = {}) <=> j \in {}
    BY <2>1, <2>2
  <2>6. (\A t : t \in Expects(Kernel(282)) <=> t \in {")"}) /\ (\A j : j \in Complete(Kernel(282)) <=> j \in {})
    BY <2>4, <2>5, TokenState, TokensUnnamed
  <2> QED
    BY <1>25, <2>6 DEF Wants, Ends, Operands, Chains
<1>26. CASE c = 283
  <2>1. Kernel(283) = {<<28, 3>>}
    BY ReturnKernels, Zenon
  <2>2. AfterDot(<<28, 3>>) = {}
    BY StmtDots
  <2>3. Expects({<<28, 3>>}) = {} /\ Complete({<<28, 3>>}) = {28}
    BY <2>2, EndState
  <2>4. Expects(Kernel(283)) = {} /\ Complete(Kernel(283)) = {28}
    BY <2>1, <2>3
  <2> QED
    BY <1>26, <2>4 DEF Alive, Wants, Ends, Operands, Chains
<1>27. CASE c = 291
  <2>1. Kernel(291) = {<<29, 1>>}
    BY OperandKernels, Zenon
  <2>2. AfterDot(<<29, 1>>) = {}
    BY OperandDots
  <2>3. Expects({<<29, 1>>}) = {} /\ Complete({<<29, 1>>}) = {29}
    BY <2>2, EndState
  <2>4. Expects(Kernel(291)) = {} /\ Complete(Kernel(291)) = {29}
    BY <2>1, <2>3
  <2> QED
    BY <1>27, <2>4 DEF Alive, Wants, Ends, Operands, Chains
<1>28. CASE c = 301
  <2>1. Kernel(301) = {<<30, 1>>}
    BY OperandKernels, Zenon
  <2>2. AfterDot(<<30, 1>>) = {}
    BY OperandDots
  <2>3. Expects({<<30, 1>>}) = {} /\ Complete({<<30, 1>>}) = {30}
    BY <2>2, EndState
  <2>4. Expects(Kernel(301)) = {} /\ Complete(Kernel(301)) = {30}
    BY <2>1, <2>3
  <2> QED
    BY <1>28, <2>4 DEF Alive, Wants, Ends, Operands, Chains
<1>29. CASE c = 311
  <2>1. Kernel(311) = {<<31, 1>>}
    BY OperandKernels, Zenon
  <2>2. AfterDot(<<31, 1>>) = {}
    BY OperandDots
  <2>3. Expects({<<31, 1>>}) = {} /\ Complete({<<31, 1>>}) = {31}
    BY <2>2, EndState
  <2>4. Expects(Kernel(311)) = {} /\ Complete(Kernel(311)) = {31}
    BY <2>1, <2>3
  <2> QED
    BY <1>29, <2>4 DEF Alive, Wants, Ends, Operands, Chains
<1>30. CASE c = 321
  <2>1. Kernel(321) = {<<32, 1>>}
    BY OperandKernels, Zenon
  <2>2. AfterDot(<<32, 1>>) = {}
    BY OperandDots
  <2>3. Expects({<<32, 1>>}) = {} /\ Complete({<<32, 1>>}) = {32}
    BY <2>2, EndState
  <2>4. Expects(Kernel(321)) = {} /\ Complete(Kernel(321)) = {32}
    BY <2>1, <2>3
  <2> QED
    BY <1>30, <2>4 DEF Alive, Wants, Ends, Operands, Chains
<1>31. CASE c = 331
  <2>1. Kernel(331) = {<<33, 1>>}
    BY OperandKernels, Zenon
  <2>2. AfterDot(<<33, 1>>) = {}
    BY OperandDots
  <2>3. Expects({<<33, 1>>}) = {} /\ Complete({<<33, 1>>}) = {33}
    BY <2>2, EndState
  <2>4. Expects(Kernel(331)) = {} /\ Complete(Kernel(331)) = {33}
    BY <2>1, <2>3
  <2> QED
    BY <1>31, <2>4 DEF Alive, Wants, Ends, Operands, Chains
<1>32. CASE c = 341
  <2>1. Kernel(341) = {<<34, 1>>}
    BY OperandKernels, Zenon
  <2>2. AfterDot(<<34, 1>>) = {"UnaryExp"}
    BY OperandDots
  <2>4. Open(Kernel(341), 34, 1, "UnaryExp")
    BY ExpressionsOpen
  <2>5. \A j : (\E it \in Kernel(341) : it[1] = j /\ AfterDot(it) = {}) <=> j \in {}
    BY <2>1, <2>2
  <2>6. (\A t : t \in Expects(Kernel(341)) <=> t \in {"(", "IDENT", "INT_CONST", "OPT"}) /\ (\A j : j \in Complete(Kernel(341)) <=> j \in {})
    BY <2>4, <2>5, BeforeUnaryExp
  <2> QED
    BY <1>32, <2>6 DEF Wants, Ends, Operands, Chains
<1>33. CASE c = 342
  <2>1. Kernel(342) = {<<34, 2>>}
    BY OperandKernels, Zenon
  <2>2. AfterDot(<<34, 2>>) = {}
    BY OperandDots
  <2>3. Expects({<<34, 2>>}) = {} /\ Complete({<<34, 2>>}) = {34}
    BY <2>2, EndState
  <2>4. Expects(Kernel(342)) = {} /\ Complete(Kernel(342)) = {34}
    BY <2>1, <2>3
  <2> QED
    BY <1>33, <2>4 DEF Alive, Wants, Ends, Operands, Chains
<1>34. CASE c = 351
  <2>1. Kernel(351) = {<<35, 1>>}
    BY OperandKernels, Zenon
  <2>2. AfterDot(<<35, 1>>) = {}
    BY OperandDots
  <2>3. Expects({<<35, 1>>}) = {} /\ Complete({<<35, 1>>}) = {35}
    BY <2>2, EndState
  <2>4. Expects(Kernel(351)) = {} /\ Complete(Kernel(351)) = {35}
    BY <2>1, <2>3
  <2> QED
    BY <1>34, <2>4 DEF Alive, Wants, Ends, Operands, Chains
<1>35. CASE c = 361
  <2>1. Kernel(361) = {<<36, 1>>}
    BY ChainKernels, Zenon
  <2>2. AfterDot(<<36, 1>>) = {}
    BY ChainDots
  <2>3. Expects({<<36, 1>>}) = {} /\ Complete({<<36, 1>>}) = {36}
    BY <2>2, EndState
  <2>4. Expects(Kernel(361)) = {} /\ Complete(Kernel(361)) = {36}
    BY <2>1, <2>3
  <2> QED
    BY <1>35, <2>4 DEF Alive, Wants, Ends, Operands, Chains
<1>36. CASE c = 371
  <2>1. Kernel(371) = {<<37, 1>>, <<38, 1>>}
    BY ChainKernels, Zenon
  <2>2. AfterDot(<<37, 1>>) = {"BinOp"}
    BY ChainDots
  <2>3. AfterDot(<<38, 1>>) = {}
    BY ChainDots
  <2>4. Open(Kernel(371), 37, 1, "BinOp")
    BY ExpressionsOpen
  <2>5. \A j : (\E it \in Kernel(371) : it[1] = j /\ AfterDot(it) = {}) <=> j \in {38}
    BY <2>1, <2>2, <2>3
  <2>6. (\A t : t \in Expects(Kernel(371)) <=> t \in {"OPT"}) /\ (\A j : j \in Complete(Kernel(371)) <=> j \in {38})
    BY <2>4, <2>5, BeforeBinOp
  <2> QED
    BY <1>36, <2>6 DEF Wants, Ends, Operands, Chains
<1>37. CASE c = 372
  <2>1. Kernel(372) = {<<37, 2>>}
    BY ChainKernels, Zenon
  <2>2. AfterDot(<<37, 2>>) = {"UnaryExp"}
    BY ChainDots
  <2>4. Open(Kernel(372), 37, 2, "UnaryExp")
    BY ExpressionsOpen
  <2>5. \A j : (\E it \in Kernel(372) : it[1] = j /\ AfterDot(it) = {}) <=> j \in {}
    BY <2>1, <2>2
  <2>6. (\A t : t \in Expects(Kernel(372)) <=> t \in {"(", "IDENT", "INT_CONST", "OPT"}) /\ (\A j : j \in Complete(Kernel(372)) <=> j \in {})
    BY <2>4, <2>5, BeforeUnaryExp
  <2> QED
    BY <1>37, <2>6 DEF Wants, Ends, Operands, Chains
<1>38. CASE c = 373
  <2>1. Kernel(373) = {<<37, 3>>}
    BY ChainKernels, Zenon
  <2>2. AfterDot(<<37, 3>>) = {}
    BY ChainDots
  <2>3. Expects({<<37, 3>>}) = {} /\ Complete({<<37, 3>>}) = {37}
    BY <2>2, EndState
  <2>4. Expects(Kernel(373)) = {} /\ Complete(Kernel(373)) = {37}
    BY <2>1, <2>3
  <2> QED
    BY <1>38, <2>4 DEF Alive, Wants, Ends, Operands, Chains
<1>39. CASE c = 391
  <2>1. Kernel(391) = {<<39, 1>>, <<41, 1>>}
    BY ChainKernels, Zenon
  <2>2. AfterDot(<<39, 1>>) = {"BinOp"}
    BY ChainDots
  <2>3. AfterDot(<<41, 1>>) = {}
    BY ChainDots
  <2>4. Open(Kernel(391), 39, 1, "BinOp")
    BY ExpressionsOpen
  <2>5. \A j : (\E it \in Kernel(391) : it[1] = j /\ AfterDot(it) = {}) <=> j \in {41}
    BY <2>1, <2>2, <2>3
  <2>6. (\A t : t \in Expects(Kernel(391)) <=> t \in {"OPT"}) /\ (\A j : j \in Complete(Kernel(391)) <=> j \in {41})
    BY <2>4, <2>5, BeforeBinOp
  <2> QED
    BY <1>39, <2>6 DEF Wants, Ends, Operands, Chains
<1>40. CASE c = 401
  <2>1. Kernel(401) = {<<40, 1>>}
    BY ChainKernels, Zenon
  <2>2. AfterDot(<<40, 1>>) = {}
    BY ChainDots
  <2>3. Expects({<<40, 1>>}) = {} /\ Complete({<<40, 1>>}) = {40}
    BY <2>2, EndState
  <2>4. Expects(Kernel(401)) = {} /\ Complete(Kernel(401)) = {40}
    BY <2>1, <2>3
  <2> QED
    BY <1>40, <2>4 DEF Alive, Wants, Ends, Operands, Chains
<1>41. CASE c = 421
  <2>1. Kernel(421) = {<<42, 1>>, <<43, 1>>}
    BY ChainKernels, Zenon
  <2>2. AfterDot(<<42, 1>>) = {"CmpOp"}
    BY ChainDots
  <2>3. AfterDot(<<43, 1>>) = {}
    BY ChainDots
  <2>4. Open(Kernel(421), 42, 1, "CmpOp")
    BY ExpressionsOpen
  <2>5. \A j : (\E it \in Kernel(421) : it[1] = j /\ AfterDot(it) = {}) <=> j \in {43}
    BY <2>1, <2>2, <2>3
  <2>6. (\A t : t \in Expects(Kernel(421)) <=> t \in {"OPT"}) /\ (\A j : j \in Complete(Kernel(421)) <=> j \in {43})
    BY <2>4, <2>5, BeforeCmpOp
  <2> QED
    BY <1>41, <2>6 DEF Wants, Ends, Operands, Chains
<1>42. CASE c = 441
  <2>1. Kernel(441) = {<<44, 1>>, <<46, 1>>}
    BY ChainKernels, Zenon
  <2>2. AfterDot(<<44, 1>>) = {"CmpOp"}
    BY ChainDots
  <2>3. AfterDot(<<46, 1>>) = {}
    BY ChainDots
  <2>4. Open(Kernel(441), 44, 1, "CmpOp")
    BY ExpressionsOpen
  <2>5. \A j : (\E it \in Kernel(441) : it[1] = j /\ AfterDot(it) = {}) <=> j \in {46}
    BY <2>1, <2>2, <2>3
  <2>6. (\A t : t \in Expects(Kernel(441)) <=> t \in {"OPT"}) /\ (\A j : j \in Complete(Kernel(441)) <=> j \in {46})
    BY <2>4, <2>5, BeforeCmpOp
  <2> QED
    BY <1>42, <2>6 DEF Wants, Ends, Operands, Chains
<1>43. CASE c = 471
  <2>1. Kernel(471) = {<<47, 1>>, <<48, 1>>}
    BY ChainKernels, Zenon
  <2>2. AfterDot(<<47, 1>>) = {"OPT"}
    BY ChainDots
  <2>3. AfterDot(<<48, 1>>) = {}
    BY ChainDots
  <2>4. Open(Kernel(471), 47, 1, "OPT")
    BY ExpressionsOpen
  <2>5. \A j : (\E it \in Kernel(471) : it[1] = j /\ AfterDot(it) = {}) <=> j \in {48}
    BY <2>1, <2>2, <2>3
  <2>6. (\A t : t \in Expects(Kernel(471)) <=> t \in {"OPT"}) /\ (\A j : j \in Complete(Kernel(471)) <=> j \in {48})
    BY <2>4, <2>5, TokenState, TokensUnnamed
  <2> QED
    BY <1>43, <2>6 DEF Wants, Ends, Operands, Chains
<1>44. CASE c = 491
  <2>1. Kernel(491) = {<<49, 1>>, <<27, 1>>}
    BY ChainKernels, Zenon
  <2>2. AfterDot(<<49, 1>>) = {"OPT"}
    BY ChainDots
  <2>3. AfterDot(<<27, 1>>) = {}
    BY StmtDots
  <2>4. Open(Kernel(491), 49, 1, "OPT")
    BY ExpressionsOpen
  <2>5. \A j : (\E it \in Kernel(491) : it[1] = j /\ AfterDot(it) = {}) <=> j \in {27}
    BY <2>1, <2>2, <2>3
  <2>6. (\A t : t \in Expects(Kernel(491)) <=> t \in {"OPT"}) /\ (\A j : j \in Complete(Kernel(491)) <=> j \in {27})
    BY <2>4, <2>5, TokenState, TokensUnnamed
  <2> QED
    BY <1>44, <2>6 DEF Wants, Ends, Operands, Chains
<1> QED
  BY <1>1, <1>2, <1>3, <1>4, <1>5, <1>6, <1>7, <1>8, <1>9, <1>10, <1>11,
     <1>12, <1>13, <1>14, <1>15, <1>16, <1>17, <1>18, <1>19, <1>20, <1>21,
     <1>22, <1>23, <1>24, <1>25, <1>26, <1>27, <1>28, <1>29, <1>30, <1>31,
     <1>32, <1>33, <1>34, <1>35, <1>36, <1>37, <1>38, <1>39, <1>40, <1>41,
     <1>42, <1>43, <1>44 DEF Alive

-----------------------------------------------------------------------------
(***************************************************************************)
(* Moves of the automaton, and the stack as a path of them.                *)
(***************************************************************************)
\* The steps of the automaton that the parser takes.
Move(c, X, d) ==
    \/ c = 10 /\ X = "CompUnit" /\ d = 11
    \/ c = 10 /\ X = "FuncDef" /\ d = 21
    \/ c = 10 /\ X = "FuncType" /\ d = 31
    \/ c = 10 /\ X = "INT" /\ d = 41
    \/ c = 31 /\ X = "IDENT" /\ d = 32
    \/ c = 32 /\ X = "(" /\ d = 33
    \/ c = 33 /\ X = ")" /\ d = 34
    \/ c = 34 /\ X = "Block" /\ d = 35
    \/ c = 34 /\ X = OpenBlock /\ d = 51
    \/ c = 52 /\ X = CloseBlock /\ d = 53
    \/ c = 131 /\ X = "BType" /\ d = 132
    \/ c = 131 /\ X = "INT" /\ d = 141
    \/ c = 132 /\ X = "IDENT" /\ d = 171
    \/ c = 262 /\ X = Semicolon /\ d = 263
    \/ c = 282 /\ X = ")" /\ d = 283
    \/ c = 371 /\ X = "BinOp" /\ d = 372
    \/ c = 371 /\ X = "OPT" /\ d = 401
    \/ c \in {51, 71} /\ X = "CONST" /\ d = 131
    \/ c \in {51, 71} /\ X = "IDENT" /\ d = 311
    \/ c \in {51, 71} /\ X = "RETURN" /\ d = 261
    \/ c \in {51, 71} /\ X = "LVal" /\ d = 251
    \/ c \in {51, 71} /\ X = "Stmt" /\ d = 91
    \/ c \in {51, 71} /\ X = "BlockItem" /\ d = 71
    \/ c = 51 /\ X = "BlockItems" /\ d = 52
    \/ c = 71 /\ X = "BlockItems" /\ d = 72
    \/ c \in Operands /\ X = "(" /\ d = 281
    \/ c \in Operands /\ X = "IDENT" /\ d = 311
    \/ c \in Operands /\ X = "INT_CONST" /\ d = 321
    \/ c \in Operands /\ X = "OPT" /\ d = 351
    \/ c \in Operands /\ X = "LVal" /\ d = 301
    \/ c \in Operands /\ X = "Number" /\ d = 291
    \/ c \in Operands /\ X = "PrimaryExp" /\ d = 331
    \/ c \in Operands /\ X = "UnaryOp" /\ d = 341
    \/ c \in {261, 281} /\ X = "UnaryExp" /\ d = 361
    \/ c \in {261, 281} /\ X = "MulExp" /\ d = 371
    \/ c \in {261, 281} /\ X = "AddExp" /\ d = 391
    \/ c \in {261, 281} /\ X = "RelExp" /\ d = 421
    \/ c \in {261, 281} /\ X = "EqExp" /\ d = 441
    \/ c \in {261, 281} /\ X = "LAndExp" /\ d = 471
    \/ c \in {261, 281} /\ X = "LOrExp" /\ d = 491
    \/ c = 261 /\ X = "Exp" /\ d = 262
    \/ c = 281 /\ X = "Exp" /\ d = 282
    \/ c = 341 /\ X = "UnaryExp" /\ d = 342
    \/ c = 372 /\ X = "UnaryExp" /\ d = 373

\* The moves are gotos of the table, between live states.
LEMMA MoveGoto ==
    ASSUME NEW c, NEW X, NEW d, Move(c, X, d)
    PROVE  c \in Alive /\ d \in Alive /\ Goto(Kernel(c), X) = Kernel(d)
<1>1. CASE c = 10 /\ X = "CompUnit" /\ d = 11
  <2>1. Goto(Kernel(10), "CompUnit") = Kernel(11)
    <3>1. Open(Kernel(10), 1, 0, "CompUnit")
      BY StatementsOpen
    <3>2. Goto(Kernel(10), "CompUnit") = {<<1, 0 + 1>>}
      BY <3>1, BeforeCompUnit
    <3>3. Kernel(11) = {<<1, 1>>}
      BY HeaderKernels, Zenon
    <3> QED
      BY <3>2, <3>3
  <2> QED
    BY <1>1, <2>1 DEF Alive
<1>2. CASE c = 10 /\ X = "FuncDef" /\ d = 21
  <2>1. Goto(Kernel(10), "FuncDef") = Kernel(21)
    <3>1. Open(Kernel(10), 1, 0, "CompUnit")
      BY StatementsOpen
    <3> QED
      BY <3>1, BeforeCompUnit
  <2> QED
    BY <1>2, <2>1 DEF Alive
<1>3. CASE c = 10 /\ X = "FuncType" /\ d = 31
  <2>1. Goto(Kernel(10), "FuncType") = Kernel(31)
    <3>1. Open(Kernel(10), 1, 0, "CompUnit")
      BY StatementsOpen
    <3> QED
      BY <3>1, BeforeCompUnit
  <2> QED
    BY <1>3, <2>1 DEF Alive
<1>4. CASE c = 10 /\ X = "INT" /\ d = 41
  <2>1. Goto(Kernel(10), "INT") = Kernel(41)
    <3>1. Open(Kernel(10), 1, 0, "CompUnit")
      BY StatementsOpen
    <3> QED
      BY <3>1, BeforeCompUnit
  <2> QED
    BY <1>4, <2>1 DEF Alive
<1>5. CASE c = 31 /\ X = "IDENT" /\ d = 32
  <2>1. Goto(Kernel(31), "IDENT") = Kernel(32)
    <3>1. Open(Kernel(31), 3, 1, "IDENT")
      BY StatementsOpen
    <3>2. Goto(Kernel(31), "IDENT") = {<<3, 1 + 1>>}
      BY <3>1, TokenState, TokensUnnamed
    <3>3. Kernel(32) = {<<3, 2>>}
      BY HeaderKernels, Zenon
    <3> QED
      BY <3>2, <3>3
  <2> QED
    BY <1>5, <2>1 DEF Alive
<1>6. CASE c = 32 /\ X = "(" /\ d = 33
  <2>1. Goto(Kernel(32), "(") = Kernel(33)
    <3>1. Open(Kernel(32), 3, 2, "(")
      BY StatementsOpen
    <3>2. Goto(Kernel(32), "(") = {<<3, 2 + 1>>}
      BY <3>1, TokenState, TokensUnnamed
    <3>3. Kernel(33) = {<<3, 3>>}
      BY HeaderKernels, Zenon
    <3> QED
      BY <3>2, <3>3
  <2> QED
    BY <1>6, <2>1 DEF Alive
<1>7. CASE c = 33 /\ X = ")" /\ d = 34
  <2>1. Goto(Kernel(33), ")") = Kernel(34)
    <3>1. Open(Kernel(33), 3, 3, ")")
      BY StatementsOpen
    <3>2. Goto(Kernel(33), ")") = {<<3, 3 + 1>>}
      BY <3>1, TokenState, TokensUnnamed
    <3>3. Kernel(34) = {<<3, 4>>}
      BY HeaderKernels, Zenon
    <3> QED
      BY <3>2, <3>3
  <2> QED
    BY <1>7, <2>1 DEF Alive
<1>8. CASE c = 34 /\ X = "Block" /\ d = 35
  <2>1. Goto(Kernel(34), "Block") = Kernel(35)
    <3>1. Open(Kernel(34), 3, 4, "Block")
      BY StatementsOpen
    <3>2. Goto(Kernel(34), "Block") = {<<3, 4 + 1>>}
      BY <3>1, BeforeBlock
    <3>3. Kernel(35) = {<<3, 5>>}
      BY HeaderKernels, Zenon
    <3> QED
      BY <3>2, <3>3
  <2> QED
    BY <1>8, <2>1 DEF Alive
<1>9. CASE c = 34 /\ X = OpenBlock /\ d = 51
  <2>1. Goto(Kernel(34), OpenBlock) = Kernel(51)
    <3>1. Open(Kernel(34), 3, 4, "Block")
      BY StatementsOpen
    <3> QED
      BY <3>1, BeforeBlock
  <2> QED
    BY <1>9, <2>1 DEF Alive
<1>10. CASE c = 52 /\ X = CloseBlock /\ d = 53
  <2>1. Goto(Kernel(52), CloseBlock) = Kernel(53)
    <3>1. Open(Kernel(52), 5, 2, CloseBlock)
      BY StatementsOpen
    <3>2. Goto(Kernel(52), CloseBlock) = {<<5, 2 + 1>>}
      BY <3>1, TokenState, TokensUnnamed
    <3>3. Kernel(53) = {<<5, 3>>}
      BY BlockKernels, Zenon
    <3> QED
      BY <3>2, <3>3
  <2> QED
    BY <1>10, <2>1 DEF Alive
<1>11. CASE c = 131 /\ X = "BType" /\ d = 132
  <2>1. Goto(Kernel(131), "BType") = Kernel(132)
    <3>1. Open(Kernel(131), 13, 1, "BType")
      BY StatementsOpen
    <3>2. Goto(Kernel(131), "BType") = {<<13, 1 + 1>>}
      BY <3>1, BeforeBType
    <3>3. Kernel(132) = {<<13, 2>>}
      BY BlockKernels, Zenon
    <3> QED
      BY <3>2, <3>3
  <2> QED
    BY <1>11, <2>1 DEF Alive
<1>12. CASE c = 131 /\ X = "INT" /\ d = 141
  <2>1. Goto(Kernel(131), "INT") = Kernel(141)
    <3>1. Open(Kernel(131), 13, 1, "BType")
      BY StatementsOpen
    <3> QED
      BY <3>1, BeforeBType
  <2> QED
    BY <1>12, <2>1 DEF Alive
<1>13. CASE c = 132 /\ X = "IDENT" /\ d = 171
  <2>1. Goto(Kernel(132), "IDENT") = Kernel(171)
    <3>1. Open(Kernel(132), 13, 2, "ConstDef")
      BY StatementsOpen
    <3> QED
      BY <3>1, BeforeConstDef
  <2> QED
    BY <1>13, <2>1 DEF Alive
<1>14. CASE c = 262 /\ X = Semicolon /\ d = 263
  <2>1. Goto(Kernel(262), Semicolon) = Kernel(263)
    <3>1. Open(Kernel(262), 26, 2, Semicolon)
      BY ExpressionsOpen
    <3>2. Goto(Kernel(262), Semicolon) = {<<26, 2 + 1>>}
      BY <3>1, TokenState, TokensUnnamed
    <3>3. Kernel(263) = {<<26, 3>>}
      BY ReturnKernels, Zenon
    <3> QED
      BY <3>2, <3>3
  <2> QED
    BY <1>14, <2>1 DEF Alive
<1>15. CASE c = 282 /\ X = ")" /\ d = 283
  <2>1. Goto(Kernel(282), ")") = Kernel(283)
    <3>1. Open(Kernel(282), 28, 2, ")")
      BY ExpressionsOpen
    <3>2. Goto(Kernel(282), ")") = {<<28, 2 + 1>>}
      BY <3>1, TokenState, TokensUnnamed
    <3>3. Kernel(283) = {<<28, 3>>}
      BY ReturnKernels, Zenon
    <3> QED
      BY <3>2, <3>3
  <2> QED
    BY <1>15, <2>1 DEF Alive
<1>16. CASE c = 371 /\ X = "BinOp" /\ d = 372
  <2>1. Goto(Kernel(371), "BinOp") = Kernel(372)
    <3>1. Open(Kernel(371), 37, 1, "BinOp")
      BY ExpressionsOpen
    <3>2. Goto(Kernel(371), "BinOp") = {<<37, 1 + 1>>}
      BY <3>1, BeforeBinOp
    <3>3. Kernel(372) = {<<37, 2>>}
      BY ChainKernels, Zenon
    <3> QED
      BY <3>2, <3>3
  <2> QED
    BY <1>16, <2>1 DEF Alive
<1>17. CASE c = 371 /\ X = "OPT" /\ d = 401
  <2>1. Goto(Kernel(371), "OPT") = Kernel(401)
    <3>1. Open(Kernel(371), 37, 1, "BinOp")
      BY ExpressionsOpen
    <3> QED
      BY <3>1, BeforeBinOp
  <2> QED
    BY <1>17, <2>1 DEF Alive
<1>18. CASE c \in {51, 71} /\ X = "CONST" /\ d = 131
  <2>1. Goto(Kernel(51), "CONST") = Kernel(131)
    <3>1. Open(Kernel(51), 5, 1, "BlockItems")
      BY StatementsOpen
    <3> QED
      BY <3>1, BeforeBlockItems
  <2>2. Goto(Kernel(71), "CONST") = Kernel(131)
    <3>1. Open(Kernel(71), 7, 1, "BlockItems")
      BY StatementsOpen
    <3> QED
      BY <3>1, BeforeBlockItems
  <2> QED
    BY <1>18, <2>1, <2>2 DEF Alive
<1>19. CASE c \in {51, 71} /\ X = "IDENT" /\ d = 311
  <2>1. Goto(Kernel(51), "IDENT") = Kernel(311)
    <3>1. Open(Kernel(51), 5, 1, "BlockItems")
      BY StatementsOpen
    <3> QED
      BY <3>1, BeforeBlockItems
  <2>2. Goto(Kernel(71), "IDENT") = Kernel(311)
    <3>1. Open(Kernel(71), 7, 1, "BlockItems")
      BY StatementsOpen
    <3> QED
      BY <3>1, BeforeBlockItems
  <2> QED
    BY <1>19, <2>1, <2>2 DEF Alive
<1>20. CASE c \in {51, 71} /\ X = "RETURN" /\ d = 261
  <2>1. Goto(Kernel(51), "RETURN") = Kernel(261)
    <3>1. Open(Kernel(51), 5, 1, "BlockItems")
      BY StatementsOpen
    <3> QED
      BY <3>1, BeforeBlockItems
  <2>2. Goto(Kernel(71), "RETURN") = Kernel(261)
    <3>1. Open(Kernel(71), 7, 1, "BlockItems")
      BY StatementsOpen
    <3> QED
      BY <3>1, BeforeBlockItems
  <2> QED
    BY <1>20, <2>1, <2>2 DEF Alive
<1>21. CASE c \in {51, 71} /\ X = "LVal" /\ d = 251
  <2>1. Goto(Kernel(51), "LVal") = Kernel(251)
    <3>1. Open(Kernel(51), 5, 1, "BlockItems")
      BY StatementsOpen
    <3> QED
      BY <3>1, BeforeBlockItems
  <2>2. Goto(Kernel(71), "LVal") = Kernel(251)
    <3>1. Open(Kernel(71), 7, 1, "BlockItems")
      BY StatementsOpen
    <3> QED
      BY <3>1, BeforeBlockItems
  <2> QED
    BY <1>21, <2>1, <2>2 DEF Alive
<1>22. CASE c \in {51, 71} /\ X = "Stmt" /\ d = 91
  <2>1. Goto(Kernel(51), "Stmt") = Kernel(91)
    <3>1. Open(Kernel(51), 5, 1, "BlockItems")
      BY StatementsOpen
    <3> QED
      BY <3>1, BeforeBlockItems
  <2>2. Goto(Kernel(71), "Stmt") = Kernel(91)
    <3>1. Open(Kernel(71), 7, 1, "BlockItems")
      BY StatementsOpen
    <3> QED
      BY <3>1, BeforeBlockItems
  <2> QED
    BY <1>22, <2>1, <2>2 DEF Alive
<1>23. CASE c \in {51, 71} /\ X = "BlockItem" /\ d = 71
  <2>1. Goto(Kernel(51), "BlockItem") = Kernel(71)
    <3>1. Open(Kernel(51), 5, 1, "BlockItems")
      BY StatementsOpen
    <3> QED
      BY <3>1, BeforeBlockItems
  <2>2. Goto(Kernel(71), "BlockItem") = Kernel(71)
    <3>1. Open(Kernel(71), 7, 1, "BlockItems")
      BY StatementsOpen
    <3> QED
      BY <3>1, BeforeBlockItems
  <2> QED
    BY <1>23, <2>1, <2>2 DEF Alive
<1>24. CASE c = 51 /\ X = "BlockItems" /\ d = 52
  <2>1. Goto(Kernel(51), "BlockItems") = Kernel(52)
    <3>1. Open(Kernel(51), 5, 1, "BlockItems")
      BY StatementsOpen
    <3>2. Goto(Kernel(51), "BlockItems") = {<<5, 1 + 1>>}
      BY <3>1, BeforeBlockItems
    <3>3. Kernel(52) = {<<5, 2>>}
      BY BlockKernels, Zenon
    <3> QED
      BY <3>2, <3>3
  <2> QED
    BY <1>24, <2>1 DEF Alive
<1>25. CASE c = 71 /\ X = "BlockItems" /\ d = 72
  <2>1. Goto(Kernel(71), "BlockItems") = Kernel(72)
    <3>1. Open(Kernel(71), 7, 1, "BlockItems")
      BY StatementsOpen
    <3>2. Goto(Kernel(71), "BlockItems") = {<<7, 1 + 1>>}
      BY <3>1, BeforeBlockItems
    <3>3. Kernel(72) = {<<7, 2>>}
      BY BlockKernels, Zenon
    <3> QED
      BY <3>2, <3>3
  <2> QED
    BY <1>25, <2>1 DEF Alive
<1>26. CASE c \in Operands /\ X = "(" /\ d = 281
  <2>1. Goto(Kernel(261), "(") = Kernel(281)
    <3>1. Open(Kernel(261), 26, 1, "Exp")
      BY ExpressionsOpen
    <3> QED
      BY <3>1, BeforeExp
  <2>2. Goto(Kernel(281), "(") = Kernel(281)
    <3>1. Open(Kernel(281), 28, 1, "Exp")
      BY ExpressionsOpen
    <3> QED
      BY <3>1, BeforeExp
  <2>3. Goto(Kernel(341), "(") = Kernel(281)
    <3>1. Open(Kernel(341), 34, 1, "UnaryExp")
      BY ExpressionsOpen
    <3> QED
      BY <3>1, BeforeUnaryExp
  <2>4. Goto(Kernel(372), "(") = Kernel(281)
    <3>1. Open(Kernel(372), 37, 2, "UnaryExp")
      BY ExpressionsOpen
    <3> QED
      BY <3>1, BeforeUnaryExp
  <2> QED
    BY <1>26, <2>1, <2>2, <2>3, <2>4 DEF Alive, Operands
<1>27. CASE c \in Operands /\ X = "IDENT" /\ d = 311
  <2>1. Goto(Kernel(261), "IDENT") = Kernel(311)
    <3>1. Open(Kernel(261), 26, 1, "Exp")
      BY ExpressionsOpen
    <3> QED
      BY <3>1, BeforeExp
  <2>2. Goto(Kernel(281), "IDENT") = Kernel(311)
    <3>1. Open(Kernel(281), 28, 1, "Exp")
      BY ExpressionsOpen
    <3> QED
      BY <3>1, BeforeExp
  <2>3. Goto(Kernel(341), "IDENT") = Kernel(311)
    <3>1. Open(Kernel(341), 34, 1, "UnaryExp")
      BY ExpressionsOpen
    <3> QED
      BY <3>1, BeforeUnaryExp
  <2>4. Goto(Kernel(372), "IDENT") = Kernel(311)
    <3>1. Open(Kernel(372), 37, 2, "UnaryExp")
      BY ExpressionsOpen
    <3> QED
      BY <3>1, BeforeUnaryExp
  <2> QED
    BY <1>27, <2>1, <2>2, <2>3, <2>4 DEF Alive, Operands
<1>28. CASE c \in Operands /\ X = "INT_CONST" /\ d = 321
  <2>1. Goto(Kernel(261), "INT_CONST") = Kernel(321)
    <3>1. Open(Kernel(261), 26, 1, "Exp")
      BY ExpressionsOpen
    <3> QED
      BY <3>1, BeforeExp
  <2>2. Goto(Kernel(281), "INT_CONST") = Kernel(321)
    <3>1. Open(Kernel(281), 28, 1, "Exp")
      BY ExpressionsOpen
    <3> QED
      BY <3>1, BeforeExp
  <2>3. Goto(Kernel(341), "INT_CONST") = Kernel(321)
    <3>1. Open(Kernel(341), 34, 1, "UnaryExp")
      BY ExpressionsOpen
    <3> QED
      BY <3>1, BeforeUnaryExp
  <2>4. Goto(Kernel(372), "INT_CONST") = Kernel(321)
    <3>1. Open(Kernel(372), 37, 2, "UnaryExp")
      BY ExpressionsOpen
    <3> QED
      BY <3>1, BeforeUnaryExp
  <2> QED
    BY <1>28, <2>1, <2>2, <2>3, <2>4 DEF Alive, Operands
<1>29. CASE c \in Operands /\ X = "OPT" /\ d = 351
  <2>1. Goto(Kernel(261), "OPT") = Kernel(351)
    <3>1. Open(Kernel(261), 26, 1, "Exp")
      BY ExpressionsOpen
    <3> QED
      BY <3>1, BeforeExp
  <2>2. Goto(Kernel(281), "OPT") = Kernel(351)
    <3>1. Open(Kernel(281), 28, 1, "Exp")
      BY ExpressionsOpen
    <3> QED
      BY <3>1, BeforeExp
  <2>3. Goto(Kernel(341), "OPT") = Kernel(351)
    <3>1. Open(Kernel(341), 34, 1, "UnaryExp")
      BY ExpressionsOpen
    <3> QED
      BY <3>1, BeforeUnaryExp
  <2>4. Goto(Kernel(372), "OPT") = Kernel(351)
    <3>1. Open(Kernel(372), 37, 2, "UnaryExp")
      BY ExpressionsOpen
    <3> QED
      BY <3>1, BeforeUnaryExp
  <2> QED
    BY <1>29, <2>1, <2>2, <2>3, <2>4 DEF Alive, Operands
<1>30. CASE c \in Operands /\ X = "LVal" /\ d = 301
  <2>1. Goto(Kernel(261), "LVal") = Kernel(301)
    <3>1. Open(Kernel(261), 26, 1, "Exp")
      BY ExpressionsOpen
    <3> QED
      BY <3>1, BeforeExp
  <2>2. Goto(Kernel(281), "LVal") = Kernel(301)
    <3>1. Open(Kernel(281), 28, 1, "Exp")
      BY ExpressionsOpen
    <3> QED
      BY <3>1, BeforeExp
  <2>3. Goto(Kernel(341), "LVal") = Kernel(301)
    <3>1. Open(Kernel(341), 34, 1, "UnaryExp")
      BY ExpressionsOpen
    <3> QED
      BY <3>1, BeforeUnaryExp
  <2>4. Goto(Kernel(372), "LVal") = Kernel(301)
    <3>1. Open(Kernel(372), 37, 2, "UnaryExp")
      BY ExpressionsOpen
    <3> QED
      BY <3>1, BeforeUnaryExp
  <2> QED
    BY <1>30, <2>1, <2>2, <2>3, <2>4 DEF Alive, Operands
<1>31. CASE c \in Operands /\ X = "Number" /\ d = 291
  <2>1. Goto(Kernel(261), "Number") = Kernel(291)
    <3>1. Open(Kernel(261), 26, 1, "Exp")
      BY ExpressionsOpen
    <3> QED
      BY <3>1, BeforeExp
  <2>2. Goto(Kernel(281), "Number") = Kernel(291)
    <3>1. Open(Kernel(281), 28, 1, "Exp")
      BY ExpressionsOpen
    <3> QED
      BY <3>1, BeforeExp
  <2>3. Goto(Kernel(341), "Number") = Kernel(291)
    <3>1. Open(Kernel(341), 34, 1, "UnaryExp")
      BY ExpressionsOpen
    <3> QED
      BY <3>1, BeforeUnaryExp
  <2>4. Goto(Kernel(372), "Number") = Kernel(291)
    <3>1. Open(Kernel(372), 37, 2, "UnaryExp")
      BY ExpressionsOpen
    <3> QED
      BY <3>1, BeforeUnaryExp
  <2> QED
    BY <1>31, <2>1, <2>2, <2>3, <2>4 DEF Alive, Operands
<1>32. CASE c \in Operands /\ X = "PrimaryExp" /\ d = 331
  <2>1. Goto(Kernel(261), "PrimaryExp") = Kernel(331)
    <3>1. Open(Kernel(261), 26, 1, "Exp")
      BY ExpressionsOpen
    <3> QED
      BY <3>1, BeforeExp
  <2>2. Goto(Kernel(281), "PrimaryExp") = Kernel(331)
    <3>1. Open(Kernel(281), 28, 1, "Exp")
      BY ExpressionsOpen
    <3> QED
      BY <3>1, BeforeExp
  <2>3. Goto(Kernel(341), "PrimaryExp") = Kernel(331)
    <3>1. Open(Kernel(341), 34, 1, "UnaryExp")
      BY ExpressionsOpen
    <3> QED
      BY <3>1, BeforeUnaryExp
  <2>4. Goto(Kernel(372), "PrimaryExp") = Kernel(331)
    <3>1. Open(Kernel(372), 37, 2, "UnaryExp")
      BY ExpressionsOpen
    <3> QED
      BY <3>1, BeforeUnaryExp
  <2> QED
    BY <1>32, <2>1, <2>2, <2>3, <2>4 DEF Alive, Operands
<1>33. CASE c \in Operands /\ X = "UnaryOp" /\ d = 341
  <2>1. Goto(Kernel(261), "UnaryOp") = Kernel(341)
    <3>1. Open(Kernel(261), 26, 1, "Exp")
      BY ExpressionsOpen
    <3> QED
      BY <3>1, BeforeExp
  <2>2. Goto(Kernel(281), "UnaryOp") = Kernel(341)
    <3>1. Open(Kernel(281), 28, 1, "Exp")
      BY ExpressionsOpen
    <3> QED
      BY <3>1, BeforeExp
  <2>3. Goto(Kernel(341), "UnaryOp") = Kernel(341)
    <3>1. Open(Kernel(341), 34, 1, "UnaryExp")
      BY ExpressionsOpen
    <3> QED
      BY <3>1, BeforeUnaryExp
  <2>4. Goto(Kernel(372), "UnaryOp") = Kernel(341)
    <3>1. Open(Kernel(372), 37, 2, "UnaryExp")
      BY ExpressionsOpen
    <3> QED
      BY <3>1, BeforeUnaryExp
  <2> QED
    BY <1>33, <2>1, <2>2, <2>3, <2>4 DEF Alive, Operands
<1>34. CASE c \in {261, 281} /\ X = "UnaryExp" /\ d = 361
  <2>1. Goto(Kernel(261), "UnaryExp") = Kernel(361)
    <3>1. Open(Kernel(261), 26, 1, "Exp")
      BY ExpressionsOpen
    <3> QED
      BY <3>1, BeforeExp
  <2>2. Goto(Kernel(281), "UnaryExp") = Kernel(361)
    <3>1. Open(Kernel(281), 28, 1, "Exp")
      BY ExpressionsOpen
    <3> QED
      BY <3>1, BeforeExp
  <2> QED
    BY <1>34, <2>1, <2>2 DEF Alive
<1>35. CASE c \in {261, 281} /\ X = "MulExp" /\ d = 371
  <2>1. Goto(Kernel(261), "MulExp") = Kernel(371)
    <3>1. Open(Kernel(261), 26, 1, "Exp")
      BY ExpressionsOpen
    <3> QED
      BY <3>1, BeforeExp
  <2>2. Goto(Kernel(281), "MulExp") = Kernel(371)
    <3>1. Open(Kernel(281), 28, 1, "Exp")
      BY ExpressionsOpen
    <3> QED
      BY <3>1, BeforeExp
  <2> QED
    BY <1>35, <2>1, <2>2 DEF Alive
<1>36. CASE c \in {261, 281} /\ X = "AddExp" /\ d = 391
  <2>1. Goto(Kernel(261), "AddExp") = Kernel(391)
    <3>1. Open(Kernel(261), 26, 1, "Exp")
      BY ExpressionsOpen
    <3> QED
      BY <3>1, BeforeExp
  <2>2. Goto(Kernel(281), "AddExp") = Kernel(391)
    <3>1. Open(Kernel(281), 28, 1, "Exp")
      BY ExpressionsOpen
    <3> QED
      BY <3>1, BeforeExp
  <2> QED
    BY <1>36, <2>1, <2>2 DEF Alive
<1>37. CASE c \in {261, 281} /\ X = "RelExp" /\ d = 421
  <2>1. Goto(Kernel(261), "RelExp") = Kernel(421)
    <3>1. Open(Kernel(261), 26, 1, "Exp")
      BY ExpressionsOpen
    <3> QED
      BY <3>1, BeforeExp
  <2>2. Goto(Kernel(281), "RelExp") = Kernel(421)
    <3>1. Open(Kernel(281), 28, 1, "Exp")
      BY ExpressionsOpen
    <3> QED
      BY <3>1, BeforeExp
  <2> QED
    BY <1>37, <2>1, <2>2 DEF Alive
<1>38. CASE c \in {261, 281} /\ X = "EqExp" /\ d = 441
  <2>1. Goto(Kernel(261), "EqExp") = Kernel(441)
    <3>1. Open(Kernel(261), 26, 1, "Exp")
      BY ExpressionsOpen
    <3> QED
      BY <3>1, BeforeExp
  <2>2. Goto(Kernel(281), "EqExp") = Kernel(441)
    <3>1. Open(Kernel(281), 28, 1, "Exp")
      BY ExpressionsOpen
    <3> QED
      BY <3>1, BeforeExp
  <2> QED
    BY <1>38, <2>1, <2>2 DEF Alive
<1>39. CASE c \in {261, 281} /\ X = "LAndExp" /\ d = 471
  <2>1. Goto(Kernel(261), "LAndExp") = Kernel(471)
    <3>1. Open(Kernel(261), 26, 1, "Exp")
      BY ExpressionsOpen
    <3> QED
      BY <3>1, BeforeExp
  <2>2. Goto(Kernel(281), "LAndExp") = Kernel(471)
    <3>1. Open(Kernel(281), 28, 1, "Exp")
      BY ExpressionsOpen
    <3> QED
      BY <3>1, BeforeExp
  <2> QED
    BY <1>39, <2>1, <2>2 DEF Alive
<1>40. CASE c \in {261, 281} /\ X = "LOrExp" /\ d = 491
  <2>1. Goto(Kernel(261), "LOrExp") = Kernel(491)
    <3>1. Open(Kernel(261), 26, 1, "Exp")
      BY ExpressionsOpen
    <3> QED
      BY <3>1, BeforeExp
  <2>2. Goto(Kernel(281), "LOrExp") = Kernel(491)
    <3>1. Open(Kernel(281), 28, 1, "Exp")
      BY ExpressionsOpen
    <3> QED
      BY <3>1, BeforeExp
  <2> QED
    BY <1>40, <2>1, <2>2 DEF Alive
<1>41. CASE c = 261 /\ X = "Exp" /\ d = 262
  <2>1. Goto(Kernel(261), "Exp") = Kernel(262)
    <3>1. Open(Kernel(261), 26, 1, "Exp")
      BY ExpressionsOpen
    <3>2. Goto(Kernel(261), "Exp") = {<<26, 1 + 1>>}
      BY <3>1, BeforeExp
    <3>3. Kernel(262) = {<<26, 2>>}
      BY ReturnKernels, Zenon
    <3> QED
      BY <3>2, <3>3
  <2> QED
    BY <1>41, <2>1 DEF Alive
<1>42. CASE c = 281 /\ X = "Exp" /\ d = 282
  <2>1. Goto(Kernel(281), "Exp") = Kernel(282)
    <3>1. Open(Kernel(281), 28, 1, "Exp")
      BY ExpressionsOpen
    <3>2. Goto(Kernel(281), "Exp") = {<<28, 1 + 1>>}
      BY <3>1, BeforeExp
    <3>3. Kernel(282) = {<<28, 2>>}
      BY ReturnKernels, Zenon
    <3> QED
      BY <3>2, <3>3
  <2> QED
    BY <1>42, <2>1 DEF Alive
<1>43. CASE c = 341 /\ X = "UnaryExp" /\ d = 342
  <2>1. Goto(Kernel(341), "UnaryExp") = Kernel(342)
    <3>1. Open(Kernel(341), 34, 1, "UnaryExp")
      BY ExpressionsOpen
    <3>2. Goto(Kernel(341), "UnaryExp") = {<<34, 1 + 1>>}
      BY <3>1, BeforeUnaryExp
    <3>3. Kernel(342) = {<<34, 2>>}
      BY OperandKernels, Zenon
    <3> QED
      BY <3>2, <3>3
  <2> QED
    BY <1>43, <2>1 DEF Alive
<1>44. CASE c = 372 /\ X = "UnaryExp" /\ d = 373
  <2>1. Goto(Kernel(372), "UnaryExp") = Kernel(373)
    <3>1. Open(Kernel(372), 37, 2, "UnaryExp")
      BY ExpressionsOpen
    <3>2. Goto(Kernel(372), "UnaryExp") = {<<37, 2 + 1>>}
      BY <3>1, BeforeUnaryExp
    <3>3. Kernel(373) = {<<37, 3>>}
      BY ChainKernels, Zenon
    <3> QED
      BY <3>2, <3>3
  <2> QED
    BY <1>44, <2>1 DEF Alive
<1> QED
  BY <1>1, <1>2, <1>3, <1>4, <1>5, <1>6, <1>7, <1>8, <1>9, <1>10, <1>11,
     <1>12, <1>13, <1>14, <1>15, <1>16, <1>17, <1>18, <1>19, <1>20, <1>21,
     <1>22, <1>23, <1>24, <1>25, <1>26, <1>27, <1>28, <1>29, <1>30, <1>31,
     <1>32, <1>33, <1>34, <1>35, <1>36, <1>37, <1>38, <1>39, <1>40, <1>41,
     <1>42, <1>43, <1>44 DEF Move

\* The state d is directly above the state p.
Over(p, d) ==
    \/ p = 10 /\ d \in {11, 21, 31, 41}
    \/ p = 31 /\ d = 32
    \/ p = 32 /\ d = 33
    \/ p = 33 /\ d = 34
    \/ p = 34 /\ d \in {35, 51}
    \/ p = 52 /\ d = 53
    \/ p = 131 /\ d \in {132, 141}
    \/ p = 132 /\ d = 171
    \/ p = 262 /\ d = 263
    \/ p = 282 /\ d = 283
    \/ p = 371 /\ d \in {372, 401}
    \/ p \in {51, 71} /\ d \in {71, 91, 131, 251, 261}
    \/ p \in {51, 71, 261, 281, 341, 372} /\ d = 311
    \/ p = 51 /\ d = 52
    \/ p = 71 /\ d = 72
    \/ p \in Operands /\ d \in {281, 291, 301, 321, 331, 341, 351}
    \/ p \in {261, 281} /\ d \in {361, 371, 391, 421, 441, 471, 491}
    \/ p = 261 /\ d = 262
    \/ p = 281 /\ d = 282
    \/ p = 341 /\ d = 342
    \/ p = 372 /\ d = 373

\* The table by the state that is left, and by the state that is entered.
LEMMA MoveOver ==
    ASSUME NEW c, NEW X, NEW d, Move(c, X, d)
    PROVE  Over(c, d)
BY DEF Move, Over, Operands

\* The rule that is reduced in a state: only where an item of a block may begin
\* there are two, and the first one is taken.
Reduces(c, i) == Ends(c, i) /\ i # 10

\* Of the rules that are complete the first is chosen, which is never rule 10.
LEMMA ChosenRule ==
    ASSUME NEW c \in Alive, NEW i
    PROVE  i \in Chosen(Complete(Kernel(c))) <=> Reduces(c, i)
<1> DEFINE S == Complete(Kernel(c))
<1>1. \A j : j \in S <=> Ends(c, j)
  BY StateFacts
<1> SUFFICES i \in Chosen(S) <=> Reduces(c, i)
  OBVIOUS
<1> HIDE DEF S
<1>2. i \in Chosen(S) <=> Ends(c, i) /\ \A j : Ends(c, j) => i <= j
  BY <1>1 DEF Chosen
<1>3. CASE c \in {51, 71}
  <2>1. \A j : Ends(c, j) <=> j = 6 \/ j = 10
    BY <1>3 DEF Ends
  <2>2. (i = 6 \/ i = 10) /\ (\A j : j = 6 \/ j = 10 => i <= j) <=> i = 6
    OBVIOUS
  <2>3. i \in Chosen(S) <=> i = 6
    BY <1>2, <2>1, <2>2
  <2> QED
    BY <2>1, <2>3 DEF Reduces
<1>4. CASE c \notin {51, 71}
  <2>1. \A j : Ends(c, j) => j \in Nat /\ j # 10
    BY <1>4 DEF Ends
  <2>2. \A j, k : Ends(c, j) /\ Ends(c, k) => j = k
    BY <1>4 DEF Ends
  <2>3. Ends(c, i) => \A j : Ends(c, j) => i <= j
    BY <2>1, <2>2
  <2>4. i \in Chosen(S) <=> Ends(c, i)
    BY <1>2, <2>3
  <2> QED
    BY <2>1, <2>4 DEF Reduces
<1> QED
  BY <1>3, <1>4

\* The left-hand sides and lengths of the rules that are reduced.
Sized(i, A, n) == Rules[i].lhs = A /\ Len(Rules[i].rhs) = n

\* The useful rules: what they derive, and from how many symbols.
LEMMA LiveRules ==
    /\ Sized(2, "CompUnit", 1)
    /\ Sized(3, "FuncDef", 5)
    /\ Sized(4, "FuncType", 1)
    /\ Sized(5, "Block", 3)
    /\ Sized(6, "BlockItems", 0)
    /\ Sized(7, "BlockItems", 2)
    /\ Sized(9, "BlockItem", 1)
    /\ Sized(14, "BType", 1)
    /\ Sized(26, "Stmt", 3)
    /\ Sized(27, "Exp", 1)
    /\ Sized(28, "PrimaryExp", 3)
    /\ Sized(29, "PrimaryExp", 1)
    /\ Sized(30, "PrimaryExp", 1)
    /\ Sized(31, "LVal", 1)
    /\ Sized(32, "Number", 1)
    /\ Sized(33, "UnaryExp", 1)
    /\ Sized(34, "UnaryExp", 2)
    /\ Sized(35, "UnaryOp", 1)
    /\ Sized(36, "MulExp", 1)
    /\ Sized(37, "MulExp", 3)
    /\ Sized(38, "AddExp", 1)
    /\ Sized(40, "BinOp", 1)
    /\ Sized(41, "RelExp", 1)
    /\ Sized(43, "EqExp", 1)
    /\ Sized(46, "LAndExp", 1)
    /\ Sized(48, "LOrExp", 1)
<1>1. Sized(2, "CompUnit", 1)
  <2>1. Rules[2].lhs = "CompUnit" /\ Rules[2].rhs = <<"FuncDef">>
    BY ProgramRulesAt DEF IsRule
  <2>2. Len(Rules[2].rhs) = 1
    BY <2>1
  <2> QED
    BY <2>1, <2>2 DEF Sized
<1>2. Sized(3, "FuncDef", 5)
  <2>1. Rules[3].lhs = "FuncDef" /\ Rules[3].rhs = <<"FuncType", "IDENT", "(", ")", "Block">>
    BY ProgramRulesAt DEF IsRule
  <2>2. Len(Rules[3].rhs) = 5
    BY <2>1
  <2> QED
    BY <2>1, <2>2 DEF Sized
<1>3. Sized(4, "FuncType", 1)
  <2>1. Rules[4].lhs = "FuncType" /\ Rules[4].rhs = <<"INT">>
    BY ProgramRulesAt DEF IsRule
  <2>2. Len(Rules[4].rhs) = 1
    BY <2>1
  <2> QED
    BY <2>1, <2>2 DEF Sized
<1>4. Sized(5, "Block", 3)
  <2>1. Rules[5].lhs = "Block" /\ Rules[5].rhs = <<OpenBlock, "BlockItems", CloseBlock>>
    BY ProgramRulesAt DEF IsRule
  <2>2. Len(Rules[5].rhs) = 3
    BY <2>1
  <2> QED
    BY <2>1, <2>2 DEF Sized
<1>5. Sized(6, "BlockItems", 0)
  <2>1. Rules[6].lhs = "BlockItems" /\ Rules[6].rhs = <<>>
    BY ItemRulesAt DEF IsRule
  <2>2. Len(Rules[6].rhs) = 0
    BY <2>1
  <2> QED
    BY <2>1, <2>2 DEF Sized
<1>6. Sized(7, "BlockItems", 2)
  <2>1. Rules[7].lhs = "BlockItems" /\ Rules[7].rhs = <<"BlockItem", "BlockItems">>
    BY ItemRulesAt DEF IsRule
  <2>2. Len(Rules[7].rhs) = 2
    BY <2>1
  <2> QED
    BY <2>1, <2>2 DEF Sized
<1>7. Sized(9, "BlockItem", 1)
  <2>1. Rules[9].lhs = "BlockItem" /\ Rules[9].rhs = <<"Stmt">>
    BY ItemRulesAt DEF IsRule
  <2>2. Len(Rules[9].rhs) = 1
    BY <2>1
  <2> QED
    BY <2>1, <2>2 DEF Sized
<1>8. Sized(14, "BType", 1)
  <2>1. Rules[14].lhs = "BType" /\ Rules[14].rhs = <<"INT">>
    BY ConstRulesAt DEF IsRule
  <2>2. Len(Rules[14].rhs) = 1
    BY <2>1
  <2> QED
    BY <2>1, <2>2 DEF Sized
<1>9. Sized(26, "Stmt", 3)
  <2>1. Rules[26].lhs = "Stmt" /\ Rules[26].rhs = <<"RETURN", "Exp", Semicolon>>
    BY StmtRulesAt DEF IsRule
  <2>2. Len(Rules[26].rhs) = 3
    BY <2>1
  <2> QED
    BY <2>1, <2>2 DEF Sized
<1>10. Sized(27, "Exp", 1)
  <2>1. Rules[27].lhs = "Exp" /\ Rules[27].rhs = <<"LOrExp">>
    BY StmtRulesAt DEF IsRule
  <2>2. Len(Rules[27].rhs) = 1
    BY <2>1
  <2> QED
    BY <2>1, <2>2 DEF Sized
<1>11. Sized(28, "PrimaryExp", 3)
  <2>1. Rules[28].lhs = "PrimaryExp" /\ Rules[28].rhs = <<"(", "Exp", ")">>
    BY OperandRulesAt DEF IsRule
  <2>2. Len(Rules[28].rhs) = 3
    BY <2>1
  <2> QED
    BY <2>1, <2>2 DEF Sized
<1>12. Sized(29, "PrimaryExp", 1)
  <2>1. Rules[29].lhs = "PrimaryExp" /\ Rules[29].rhs = <<"Number">>
    BY OperandRulesAt DEF IsRule
  <2>2. Len(Rules[29].rhs) = 1
    BY <2>1
  <2> QED
    BY <2>1, <2>2 DEF Sized
<1>13. Sized(30, "PrimaryExp", 1)
  <2>1. Rules[30].lhs = "PrimaryExp" /\ Rules[30].rhs = <<"LVal">>
    BY OperandRulesAt DEF IsRule
  <2>2. Len(Rules[30].rhs) = 1
    BY <2>1
  <2> QED
    BY <2>1, <2>2 DEF Sized
<1>14. Sized(31, "LVal", 1)
  <2>1. Rules[31].lhs = "LVal" /\ Rules[31].rhs = <<"IDENT">>
    BY OperandRulesAt DEF IsRule
  <2>2. Len(Rules[31].rhs) = 1
    BY <2>1
  <2> QED
    BY <2>1, <2>2 DEF Sized
<1>15. Sized(32, "Number", 1)
  <2>1. Rules[32].lhs = "Number" /\ Rules[32].rhs = <<"INT_CONST">>
    BY OperandRulesAt DEF IsRule
  <2>2. Len(Rules[32].rhs) = 1
    BY <2>1
  <2> QED
    BY <2>1, <2>2 DEF Sized
<1>16. Sized(33, "UnaryExp", 1)
  <2>1. Rules[33].lhs = "UnaryExp" /\ Rules[33].rhs = <<"PrimaryExp">>
    BY OperandRulesAt DEF IsRule
  <2>2. Len(Rules[33].rhs) = 1
    BY <2>1
  <2> QED
    BY <2>1, <2>2 DEF Sized
<1>17. Sized(34, "UnaryExp", 2)
  <2>1. Rules[34].lhs = "UnaryExp" /\ Rules[34].rhs = <<"UnaryOp", "UnaryExp">>
    BY OperandRulesAt DEF IsRule
  <2>2. Len(Rules[34].rhs) = 2
    BY <2>1
  <2> QED
    BY <2>1, <2>2 DEF Sized
<1>18. Sized(35, "UnaryOp", 1)
  <2>1. Rules[35].lhs = "UnaryOp" /\ Rules[35].rhs = <<"OPT">>
    BY OperandRulesAt DEF IsRule
  <2>2. Len(Rules[35].rhs) = 1
    BY <2>1
  <2> QED
    BY <2>1, <2>2 DEF Sized
<1>19. Sized(36, "MulExp", 1)
  <2>1. Rules[36].lhs = "MulExp" /\ Rules[36].rhs = <<"UnaryExp">>
    BY ArithmeticRulesAt DEF IsRule
  <2>2. Len(Rules[36].rhs) = 1
    BY <2>1
  <2> QED
    BY <2>1, <2>2 DEF Sized
<1>20. Sized(37, "MulExp", 3)
  <2>1. Rules[37].lhs = "MulExp" /\ Rules[37].rhs = <<"MulExp", "BinOp", "UnaryExp">>
    BY ArithmeticRulesAt DEF IsRule
  <2>2. Len(Rules[37].rhs) = 3
    BY <2>1
  <2> QED
    BY <2>1, <2>2 DEF Sized
<1>21. Sized(38, "AddExp", 1)
  <2>1. Rules[38].lhs = "AddExp" /\ Rules[38].rhs = <<"MulExp">>
    BY ArithmeticRulesAt DEF IsRule
  <2>2. Len(Rules[38].rhs) = 1
    BY <2>1
  <2> QED
    BY <2>1, <2>2 DEF Sized
<1>22. Sized(40, "BinOp", 1)
  <2>1. Rules[40].lhs = "BinOp" /\ Rules[40].rhs = <<"OPT">>
    BY ArithmeticRulesAt DEF IsRule
  <2>2. Len(Rules[40].rhs) = 1
    BY <2>1
  <2> QED
    BY <2>1, <2>2 DEF Sized
<1>23. Sized(41, "RelExp", 1)
  <2>1. Rules[41].lhs = "RelExp" /\ Rules[41].rhs = <<"AddExp">>
    BY RelationRulesAt DEF IsRule
  <2>2. Len(Rules[41].rhs) = 1
    BY <2>1
  <2> QED
    BY <2>1, <2>2 DEF Sized
<1>24. Sized(43, "EqExp", 1)
  <2>1. Rules[43].lhs = "EqExp" /\ Rules[43].rhs = <<"RelExp">>
    BY RelationRulesAt DEF IsRule
  <2>2. Len(Rules[43].rhs) = 1
    BY <2>1
  <2> QED
    BY <2>1, <2>2 DEF Sized
<1>25. Sized(46, "LAndExp", 1)
  <2>1. Rules[46].lhs = "LAndExp" /\ Rules[46].rhs = <<"EqExp">>
    BY LogicRulesAt DEF IsRule
  <2>2. Len(Rules[46].rhs) = 1
    BY <2>1
  <2> QED
    BY <2>1, <2>2 DEF Sized
<1>26. Sized(48, "LOrExp", 1)
  <2>1. Rules[48].lhs = "LOrExp" /\ Rules[48].rhs = <<"LAndExp">>
    BY LogicRulesAt DEF IsRule
  <2>2. Len(Rules[48].rhs) = 1
    BY <2>1
  <2> QED
    BY <2>1, <2>2 DEF Sized
<1> QED
  BY <1>1, <1>2, <1>3, <1>4, <1>5, <1>6, <1>7, <1>8, <1>9, <1>10, <1>11,
     <1>12, <1>13, <1>14, <1>15, <1>16, <1>17, <1>18, <1>19, <1>20, <1>21,
     <1>22, <1>23, <1>24, <1>25, <1>26

\* A reduction of rule i where its right-hand side stands above the state p
\* leads to the state d.
Reduction(i, p, d) ==
    \/ i = 2 /\ p = 10 /\ d = 11
    \/ i = 3 /\ p = 10 /\ d = 21
    \/ i = 4 /\ p = 10 /\ d = 31
    \/ i = 5 /\ p = 34 /\ d = 35
    \/ i = 6 /\ p = 51 /\ d = 52
    \/ i = 6 /\ p = 71 /\ d = 72
    \/ i = 7 /\ p = 51 /\ d = 52
    \/ i = 7 /\ p = 71 /\ d = 72
    \/ i = 9 /\ p \in {51, 71} /\ d = 71
    \/ i = 14 /\ p = 131 /\ d = 132
    \/ i = 26 /\ p \in {51, 71} /\ d = 91
    \/ i = 27 /\ p = 261 /\ d = 262
    \/ i = 27 /\ p = 281 /\ d = 282
    \/ i = 28 /\ p \in Operands /\ d = 331
    \/ i = 29 /\ p \in Operands /\ d = 331
    \/ i = 30 /\ p \in Operands /\ d = 331
    \/ i = 31 /\ p \in {51, 71} /\ d = 251
    \/ i = 31 /\ p \in Operands /\ d = 301
    \/ i = 32 /\ p \in Operands /\ d = 291
    \/ i = 33 /\ p \in {261, 281} /\ d = 361
    \/ i = 33 /\ p = 341 /\ d = 342
    \/ i = 33 /\ p = 372 /\ d = 373
    \/ i = 34 /\ p \in {261, 281} /\ d = 361
    \/ i = 34 /\ p = 341 /\ d = 342
    \/ i = 34 /\ p = 372 /\ d = 373
    \/ i = 35 /\ p \in Operands /\ d = 341
    \/ i = 36 /\ p \in {261, 281} /\ d = 371
    \/ i = 37 /\ p \in {261, 281} /\ d = 371
    \/ i = 38 /\ p \in {261, 281} /\ d = 391
    \/ i = 40 /\ p = 371 /\ d = 372
    \/ i = 41 /\ p \in {261, 281} /\ d = 421
    \/ i = 43 /\ p \in {261, 281} /\ d = 441
    \/ i = 46 /\ p \in {261, 281} /\ d = 471
    \/ i = 48 /\ p \in {261, 281} /\ d = 491

\* The numbers of the states on the stack.
Name(k) == NameOf(states[k])

\* The state on the top of the stack.
Top == Name(Len(states))

\* What is known of the token ahead from the reductions that it was not shifted
\* before.
Facing ==
    /\ Top \in {262, 282, 391, 421, 441, 471, 491} =>
          lookahead # <<>> /\ lookahead[1] # "OPT"
    /\ Top \in {52, 72} =>
          lookahead # <<>> /\ lookahead[1] \notin {"CONST", "IDENT", "RETURN"}

\* The stack of states is a path of the automaton.
Traced ==
    /\ \A k \in 1..Len(states) : Name(k) \in Alive /\ states[k] = Kernel(Name(k))
    /\ Name(1) = 10
    /\ \A k \in 1..Len(states) - 1 : Over(Name(k), Name(k + 1))
    /\ Facing

\* The states of a right-hand side, by the dots of its rule.
LEMMA Handle ==
    ASSUME ParserInv, Traced, NEW i, Reduces(Top, i)
    PROVE  /\ Len(Rules[i].rhs) \in 0..Len(states) - 1
           /\ \E d : /\ Reduction(i, Name(Len(states) - Len(Rules[i].rhs)), d)
                     /\ Move(Name(Len(states) - Len(Rules[i].rhs)), Rules[i].lhs, d)
           /\ Len(Rules[i].rhs) > 1 => \A k \in 1..Len(Rules[i].rhs) :
                 Name(Len(states) - Len(Rules[i].rhs) + k) = 10 * i + k
<1> DEFINE K == Len(states)
           n == Len(Rules[i].rhs)
           Goal == /\ n \in 0..K - 1
                   /\ \E d : Reduction(i, Name(K - n), d) /\ Move(Name(K - n), Rules[i].lhs, d)
                   /\ n > 1 => \A k \in 1..n : Name(K - n + k) = 10 * i + k
<1> SUFFICES Goal
  OBVIOUS
<1>1. K \in Nat /\ K >= 1 /\ StackShape(states)
  BY DEF ParserInv, StackShape, Linked
<1>2. Top \in Alive /\ states[K] = Kernel(Top) /\ Top = Name(K)
  BY <1>1 DEF Traced, Top
<1>3. n \in Nat /\ n < K
  <2>1. i \in Complete(states[K])
    BY <1>2, StateFacts DEF Reduces
  <2> QED
    BY <1>1, <2>1, ReductionRoot
<1>4. \A k \in 1..K - 1 : Over(Name(k), Name(k + 1))
  BY DEF Traced
<1>5. \A k \in 1..K - 1 : Over(Name(K - k), Name(K - k + 1))
  <2> SUFFICES ASSUME NEW k \in 1..K - 1 PROVE Over(Name(K - k), Name(K - k + 1))
    OBVIOUS
  <2>1. K - k \in 1..K - 1
    BY <1>1
  <2> QED
    BY <1>4, <2>1
<1>6. CASE i = 2
  <2>1. Rules[i].lhs = "CompUnit" /\ n = 1
    BY <1>6, LiveRules DEF Sized
  <2> HIDE DEF n, K
  <2>2. Name(K) = 21
    BY <1>2, <1>6 DEF Reduces, Ends
  <2>3. Over(Name(K - 1), Name(K))
    <3>1. K - 1 + 1 = K /\ 1 \in 1..K - 1
      BY <1>1, <1>3, <2>1
    <3> QED
      BY <1>5, <3>1
  <2>4. Name(K - 1) = 10
    BY <2>2, <2>3 DEF Over
  <2>e. \E d : Reduction(i, Name(K - 1), d) /\ Move(Name(K - 1), "CompUnit", d)
    <3>1. Name(K - 1) = 10 => Reduction(2, Name(K - 1), 11) /\ Move(Name(K - 1), "CompUnit", 11)
      BY DEF Reduction, Move, Operands
    <3> QED
      BY <1>6, <2>4, <3>1
  <2>f. K - n = K - 1 /\ n \in 0..K - 1
    BY <1>1, <1>3, <2>1
  <2> QED
    BY <2>1, <2>e, <2>f
<1>7. CASE i = 3
  <2>1. Rules[i].lhs = "FuncDef" /\ n = 5
    BY <1>7, LiveRules DEF Sized
  <2> HIDE DEF n, K
  <2>2. Name(K) = 35
    BY <1>2, <1>7 DEF Reduces, Ends
  <2>3. Over(Name(K - 1), Name(K))
    <3>1. K - 1 + 1 = K /\ 1 \in 1..K - 1
      BY <1>1, <1>3, <2>1
    <3> QED
      BY <1>5, <3>1
  <2>4. Name(K - 1) = 34
    BY <2>2, <2>3 DEF Over
  <2>5. Over(Name(K - 2), Name(K - 1))
    <3>1. K - 2 + 1 = K - 1 /\ 2 \in 1..K - 1
      BY <1>1, <1>3, <2>1
    <3> QED
      BY <1>5, <3>1
  <2>6. Name(K - 2) = 33
    BY <2>4, <2>5 DEF Over
  <2>7. Over(Name(K - 3), Name(K - 2))
    <3>1. K - 3 + 1 = K - 2 /\ 3 \in 1..K - 1
      BY <1>1, <1>3, <2>1
    <3> QED
      BY <1>5, <3>1
  <2>8. Name(K - 3) = 32
    BY <2>6, <2>7 DEF Over
  <2>9. Over(Name(K - 4), Name(K - 3))
    <3>1. K - 4 + 1 = K - 3 /\ 4 \in 1..K - 1
      BY <1>1, <1>3, <2>1
    <3> QED
      BY <1>5, <3>1
  <2>10. Name(K - 4) = 31
    BY <2>8, <2>9 DEF Over
  <2>11. Over(Name(K - 5), Name(K - 4))
    <3>1. K - 5 + 1 = K - 4 /\ 5 \in 1..K - 1
      BY <1>1, <1>3, <2>1
    <3> QED
      BY <1>5, <3>1
  <2>12. Name(K - 5) = 10
    BY <2>10, <2>11 DEF Over
  <2>e. \E d : Reduction(i, Name(K - 5), d) /\ Move(Name(K - 5), "FuncDef", d)
    <3>1. Name(K - 5) = 10 => Reduction(3, Name(K - 5), 21) /\ Move(Name(K - 5), "FuncDef", 21)
      BY DEF Reduction, Move, Operands
    <3> QED
      BY <1>7, <2>12, <3>1
  <2>f. K - n = K - 5 /\ n \in 0..K - 1
    BY <1>1, <1>3, <2>1
  <2>g. \A k \in 1..n : Name(K - n + k) = 10 * i + k
    <3>s. n = 5 /\ 10 * i = 30
      BY <1>7, <2>1
    <3> SUFFICES ASSUME NEW k \in 1..5 PROVE Name(K - 5 + k) = 30 + k
      BY <3>s
    <3>1. k = 1 \/ k = 2 \/ k = 3 \/ k = 4 \/ k = 5
      OBVIOUS
    <3>2. CASE k = 1
      <4>1. K - 5 + k = K - 4
        BY <1>1, <3>2
      <4> QED
        BY <3>2, <4>1, <2>10
    <3>3. CASE k = 2
      <4>1. K - 5 + k = K - 3
        BY <1>1, <3>3
      <4> QED
        BY <3>3, <4>1, <2>8
    <3>4. CASE k = 3
      <4>1. K - 5 + k = K - 2
        BY <1>1, <3>4
      <4> QED
        BY <3>4, <4>1, <2>6
    <3>5. CASE k = 4
      <4>1. K - 5 + k = K - 1
        BY <1>1, <3>5
      <4> QED
        BY <3>5, <4>1, <2>4
    <3>6. CASE k = 5
      <4>1. K - 5 + k = K
        BY <1>1, <3>6
      <4> QED
        BY <3>6, <4>1, <2>2
    <3> QED
      BY <3>1, <3>2, <3>3, <3>4, <3>5, <3>6
  <2> QED
    BY <2>1, <2>e, <2>f, <2>g
<1>8. CASE i = 4
  <2>1. Rules[i].lhs = "FuncType" /\ n = 1
    BY <1>8, LiveRules DEF Sized
  <2> HIDE DEF n, K
  <2>2. Name(K) = 41
    BY <1>2, <1>8 DEF Reduces, Ends
  <2>3. Over(Name(K - 1), Name(K))
    <3>1. K - 1 + 1 = K /\ 1 \in 1..K - 1
      BY <1>1, <1>3, <2>1
    <3> QED
      BY <1>5, <3>1
  <2>4. Name(K - 1) = 10
    BY <2>2, <2>3 DEF Over
  <2>e. \E d : Reduction(i, Name(K - 1), d) /\ Move(Name(K - 1), "FuncType", d)
    <3>1. Name(K - 1) = 10 => Reduction(4, Name(K - 1), 31) /\ Move(Name(K - 1), "FuncType", 31)
      BY DEF Reduction, Move, Operands
    <3> QED
      BY <1>8, <2>4, <3>1
  <2>f. K - n = K - 1 /\ n \in 0..K - 1
    BY <1>1, <1>3, <2>1
  <2> QED
    BY <2>1, <2>e, <2>f
<1>9. CASE i = 5
  <2>1. Rules[i].lhs = "Block" /\ n = 3
    BY <1>9, LiveRules DEF Sized
  <2> HIDE DEF n, K
  <2>2. Name(K) = 53
    BY <1>2, <1>9 DEF Reduces, Ends
  <2>3. Over(Name(K - 1), Name(K))
    <3>1. K - 1 + 1 = K /\ 1 \in 1..K - 1
      BY <1>1, <1>3, <2>1
    <3> QED
      BY <1>5, <3>1
  <2>4. Name(K - 1) = 52
    BY <2>2, <2>3 DEF Over
  <2>5. Over(Name(K - 2), Name(K - 1))
    <3>1. K - 2 + 1 = K - 1 /\ 2 \in 1..K - 1
      BY <1>1, <1>3, <2>1
    <3> QED
      BY <1>5, <3>1
  <2>6. Name(K - 2) = 51
    BY <2>4, <2>5 DEF Over
  <2>7. Over(Name(K - 3), Name(K - 2))
    <3>1. K - 3 + 1 = K - 2 /\ 3 \in 1..K - 1
      BY <1>1, <1>3, <2>1
    <3> QED
      BY <1>5, <3>1
  <2>8. Name(K - 3) = 34
    BY <2>6, <2>7 DEF Over
  <2>e. \E d : Reduction(i, Name(K - 3), d) /\ Move(Name(K - 3), "Block", d)
    <3>1. Name(K - 3) = 34 => Reduction(5, Name(K - 3), 35) /\ Move(Name(K - 3), "Block", 35)
      BY DEF Reduction, Move, Operands
    <3> QED
      BY <1>9, <2>8, <3>1
  <2>f. K - n = K - 3 /\ n \in 0..K - 1
    BY <1>1, <1>3, <2>1
  <2>g. \A k \in 1..n : Name(K - n + k) = 10 * i + k
    <3>s. n = 3 /\ 10 * i = 50
      BY <1>9, <2>1
    <3> SUFFICES ASSUME NEW k \in 1..3 PROVE Name(K - 3 + k) = 50 + k
      BY <3>s
    <3>1. k = 1 \/ k = 2 \/ k = 3
      OBVIOUS
    <3>2. CASE k = 1
      <4>1. K - 3 + k = K - 2
        BY <1>1, <3>2
      <4> QED
        BY <3>2, <4>1, <2>6
    <3>3. CASE k = 2
      <4>1. K - 3 + k = K - 1
        BY <1>1, <3>3
      <4> QED
        BY <3>3, <4>1, <2>4
    <3>4. CASE k = 3
      <4>1. K - 3 + k = K
        BY <1>1, <3>4
      <4> QED
        BY <3>4, <4>1, <2>2
    <3> QED
      BY <3>1, <3>2, <3>3, <3>4
  <2> QED
    BY <2>1, <2>e, <2>f, <2>g
<1>10. CASE i = 6
  <2>1. Rules[i].lhs = "BlockItems" /\ n = 0
    BY <1>10, LiveRules DEF Sized
  <2> HIDE DEF n, K
  <2>2. Top \in {51, 71} /\ Name(K - 0) = Top
    BY <1>1, <1>2, <1>10 DEF Reduces, Ends
  <2>3. Name(K) \in {51, 71}
    BY <1>2, <2>2
  <2>e. \E d : Reduction(i, Name(K), d) /\ Move(Name(K), "BlockItems", d)
    <3>1. Name(K) = 51 => Reduction(6, Name(K), 52) /\ Move(Name(K), "BlockItems", 52)
      BY DEF Reduction, Move, Operands
    <3>2. Name(K) = 71 => Reduction(6, Name(K), 72) /\ Move(Name(K), "BlockItems", 72)
      BY DEF Reduction, Move, Operands
    <3> QED
      BY <1>10, <2>3, <3>1, <3>2 DEF Operands
  <2>f. K - n = K /\ n \in 0..K - 1
    BY <1>1, <1>3, <2>1
  <2> QED
    BY <2>1, <2>e, <2>f
<1>11. CASE i = 7
  <2>1. Rules[i].lhs = "BlockItems" /\ n = 2
    BY <1>11, LiveRules DEF Sized
  <2> HIDE DEF n, K
  <2>2. Name(K) = 72
    BY <1>2, <1>11 DEF Reduces, Ends
  <2>3. Over(Name(K - 1), Name(K))
    <3>1. K - 1 + 1 = K /\ 1 \in 1..K - 1
      BY <1>1, <1>3, <2>1
    <3> QED
      BY <1>5, <3>1
  <2>4. Name(K - 1) = 71
    BY <2>2, <2>3 DEF Over
  <2>5. Over(Name(K - 2), Name(K - 1))
    <3>1. K - 2 + 1 = K - 1 /\ 2 \in 1..K - 1
      BY <1>1, <1>3, <2>1
    <3> QED
      BY <1>5, <3>1
  <2>6. Name(K - 2) \in {51, 71}
    BY <2>4, <2>5 DEF Over
  <2>e. \E d : Reduction(i, Name(K - 2), d) /\ Move(Name(K - 2), "BlockItems", d)
    <3>1. Name(K - 2) = 51 => Reduction(7, Name(K - 2), 52) /\ Move(Name(K - 2), "BlockItems", 52)
      BY DEF Reduction, Move, Operands
    <3>2. Name(K - 2) = 71 => Reduction(7, Name(K - 2), 72) /\ Move(Name(K - 2), "BlockItems", 72)
      BY DEF Reduction, Move, Operands
    <3> QED
      BY <1>11, <2>6, <3>1, <3>2 DEF Operands
  <2>f. K - n = K - 2 /\ n \in 0..K - 1
    BY <1>1, <1>3, <2>1
  <2>g. \A k \in 1..n : Name(K - n + k) = 10 * i + k
    <3>s. n = 2 /\ 10 * i = 70
      BY <1>11, <2>1
    <3> SUFFICES ASSUME NEW k \in 1..2 PROVE Name(K - 2 + k) = 70 + k
      BY <3>s
    <3>1. k = 1 \/ k = 2
      OBVIOUS
    <3>2. CASE k = 1
      <4>1. K - 2 + k = K - 1
        BY <1>1, <3>2
      <4> QED
        BY <3>2, <4>1, <2>4
    <3>3. CASE k = 2
      <4>1. K - 2 + k = K
        BY <1>1, <3>3
      <4> QED
        BY <3>3, <4>1, <2>2
    <3> QED
      BY <3>1, <3>2, <3>3
  <2> QED
    BY <2>1, <2>e, <2>f, <2>g
<1>12. CASE i = 9
  <2>1. Rules[i].lhs = "BlockItem" /\ n = 1
    BY <1>12, LiveRules DEF Sized
  <2> HIDE DEF n, K
  <2>2. Name(K) = 91
    BY <1>2, <1>12 DEF Reduces, Ends
  <2>3. Over(Name(K - 1), Name(K))
    <3>1. K - 1 + 1 = K /\ 1 \in 1..K - 1
      BY <1>1, <1>3, <2>1
    <3> QED
      BY <1>5, <3>1
  <2>4. Name(K - 1) \in {51, 71}
    BY <2>2, <2>3 DEF Over
  <2>e. \E d : Reduction(i, Name(K - 1), d) /\ Move(Name(K - 1), "BlockItem", d)
    <3>1. Name(K - 1) \in {51, 71} => Reduction(9, Name(K - 1), 71) /\ Move(Name(K - 1), "BlockItem", 71)
      BY DEF Reduction, Move, Operands
    <3> QED
      BY <1>12, <2>4, <3>1
  <2>f. K - n = K - 1 /\ n \in 0..K - 1
    BY <1>1, <1>3, <2>1
  <2> QED
    BY <2>1, <2>e, <2>f
<1>13. CASE i = 14
  <2>1. Rules[i].lhs = "BType" /\ n = 1
    BY <1>13, LiveRules DEF Sized
  <2> HIDE DEF n, K
  <2>2. Name(K) = 141
    BY <1>2, <1>13 DEF Reduces, Ends
  <2>3. Over(Name(K - 1), Name(K))
    <3>1. K - 1 + 1 = K /\ 1 \in 1..K - 1
      BY <1>1, <1>3, <2>1
    <3> QED
      BY <1>5, <3>1
  <2>4. Name(K - 1) = 131
    BY <2>2, <2>3 DEF Over
  <2>e. \E d : Reduction(i, Name(K - 1), d) /\ Move(Name(K - 1), "BType", d)
    <3>1. Name(K - 1) = 131 => Reduction(14, Name(K - 1), 132) /\ Move(Name(K - 1), "BType", 132)
      BY DEF Reduction, Move, Operands
    <3> QED
      BY <1>13, <2>4, <3>1
  <2>f. K - n = K - 1 /\ n \in 0..K - 1
    BY <1>1, <1>3, <2>1
  <2> QED
    BY <2>1, <2>e, <2>f
<1>14. CASE i = 26
  <2>1. Rules[i].lhs = "Stmt" /\ n = 3
    BY <1>14, LiveRules DEF Sized
  <2> HIDE DEF n, K
  <2>2. Name(K) = 263
    BY <1>2, <1>14 DEF Reduces, Ends
  <2>3. Over(Name(K - 1), Name(K))
    <3>1. K - 1 + 1 = K /\ 1 \in 1..K - 1
      BY <1>1, <1>3, <2>1
    <3> QED
      BY <1>5, <3>1
  <2>4. Name(K - 1) = 262
    BY <2>2, <2>3 DEF Over
  <2>5. Over(Name(K - 2), Name(K - 1))
    <3>1. K - 2 + 1 = K - 1 /\ 2 \in 1..K - 1
      BY <1>1, <1>3, <2>1
    <3> QED
      BY <1>5, <3>1
  <2>6. Name(K - 2) = 261
    BY <2>4, <2>5 DEF Over
  <2>7. Over(Name(K - 3), Name(K - 2))
    <3>1. K - 3 + 1 = K - 2 /\ 3 \in 1..K - 1
      BY <1>1, <1>3, <2>1
    <3> QED
      BY <1>5, <3>1
  <2>8. Name(K - 3) \in {51, 71}
    BY <2>6, <2>7 DEF Over
  <2>e. \E d : Reduction(i, Name(K - 3), d) /\ Move(Name(K - 3), "Stmt", d)
    <3>1. Name(K - 3) \in {51, 71} => Reduction(26, Name(K - 3), 91) /\ Move(Name(K - 3), "Stmt", 91)
      BY DEF Reduction, Move, Operands
    <3> QED
      BY <1>14, <2>8, <3>1
  <2>f. K - n = K - 3 /\ n \in 0..K - 1
    BY <1>1, <1>3, <2>1
  <2>g. \A k \in 1..n : Name(K - n + k) = 10 * i + k
    <3>s. n = 3 /\ 10 * i = 260
      BY <1>14, <2>1
    <3> SUFFICES ASSUME NEW k \in 1..3 PROVE Name(K - 3 + k) = 260 + k
      BY <3>s
    <3>1. k = 1 \/ k = 2 \/ k = 3
      OBVIOUS
    <3>2. CASE k = 1
      <4>1. K - 3 + k = K - 2
        BY <1>1, <3>2
      <4> QED
        BY <3>2, <4>1, <2>6
    <3>3. CASE k = 2
      <4>1. K - 3 + k = K - 1
        BY <1>1, <3>3
      <4> QED
        BY <3>3, <4>1, <2>4
    <3>4. CASE k = 3
      <4>1. K - 3 + k = K
        BY <1>1, <3>4
      <4> QED
        BY <3>4, <4>1, <2>2
    <3> QED
      BY <3>1, <3>2, <3>3, <3>4
  <2> QED
    BY <2>1, <2>e, <2>f, <2>g
<1>15. CASE i = 27
  <2>1. Rules[i].lhs = "Exp" /\ n = 1
    BY <1>15, LiveRules DEF Sized
  <2> HIDE DEF n, K
  <2>2. Name(K) = 491
    BY <1>2, <1>15 DEF Reduces, Ends
  <2>3. Over(Name(K - 1), Name(K))
    <3>1. K - 1 + 1 = K /\ 1 \in 1..K - 1
      BY <1>1, <1>3, <2>1
    <3> QED
      BY <1>5, <3>1
  <2>4. Name(K - 1) \in {261, 281}
    BY <2>2, <2>3 DEF Over
  <2>e. \E d : Reduction(i, Name(K - 1), d) /\ Move(Name(K - 1), "Exp", d)
    <3>1. Name(K - 1) = 261 => Reduction(27, Name(K - 1), 262) /\ Move(Name(K - 1), "Exp", 262)
      BY DEF Reduction, Move, Operands
    <3>2. Name(K - 1) = 281 => Reduction(27, Name(K - 1), 282) /\ Move(Name(K - 1), "Exp", 282)
      BY DEF Reduction, Move, Operands
    <3> QED
      BY <1>15, <2>4, <3>1, <3>2 DEF Operands
  <2>f. K - n = K - 1 /\ n \in 0..K - 1
    BY <1>1, <1>3, <2>1
  <2> QED
    BY <2>1, <2>e, <2>f
<1>16. CASE i = 28
  <2>1. Rules[i].lhs = "PrimaryExp" /\ n = 3
    BY <1>16, LiveRules DEF Sized
  <2> HIDE DEF n, K
  <2>2. Name(K) = 283
    BY <1>2, <1>16 DEF Reduces, Ends
  <2>3. Over(Name(K - 1), Name(K))
    <3>1. K - 1 + 1 = K /\ 1 \in 1..K - 1
      BY <1>1, <1>3, <2>1
    <3> QED
      BY <1>5, <3>1
  <2>4. Name(K - 1) = 282
    BY <2>2, <2>3 DEF Over
  <2>5. Over(Name(K - 2), Name(K - 1))
    <3>1. K - 2 + 1 = K - 1 /\ 2 \in 1..K - 1
      BY <1>1, <1>3, <2>1
    <3> QED
      BY <1>5, <3>1
  <2>6. Name(K - 2) = 281
    BY <2>4, <2>5 DEF Over
  <2>7. Over(Name(K - 3), Name(K - 2))
    <3>1. K - 3 + 1 = K - 2 /\ 3 \in 1..K - 1
      BY <1>1, <1>3, <2>1
    <3> QED
      BY <1>5, <3>1
  <2>8. Name(K - 3) \in Operands
    BY <2>6, <2>7 DEF Over
  <2>e. \E d : Reduction(i, Name(K - 3), d) /\ Move(Name(K - 3), "PrimaryExp", d)
    <3>1. Name(K - 3) \in Operands => Reduction(28, Name(K - 3), 331) /\ Move(Name(K - 3), "PrimaryExp", 331)
      BY DEF Reduction, Move, Operands
    <3> QED
      BY <1>16, <2>8, <3>1
  <2>f. K - n = K - 3 /\ n \in 0..K - 1
    BY <1>1, <1>3, <2>1
  <2>g. \A k \in 1..n : Name(K - n + k) = 10 * i + k
    <3>s. n = 3 /\ 10 * i = 280
      BY <1>16, <2>1
    <3> SUFFICES ASSUME NEW k \in 1..3 PROVE Name(K - 3 + k) = 280 + k
      BY <3>s
    <3>1. k = 1 \/ k = 2 \/ k = 3
      OBVIOUS
    <3>2. CASE k = 1
      <4>1. K - 3 + k = K - 2
        BY <1>1, <3>2
      <4> QED
        BY <3>2, <4>1, <2>6
    <3>3. CASE k = 2
      <4>1. K - 3 + k = K - 1
        BY <1>1, <3>3
      <4> QED
        BY <3>3, <4>1, <2>4
    <3>4. CASE k = 3
      <4>1. K - 3 + k = K
        BY <1>1, <3>4
      <4> QED
        BY <3>4, <4>1, <2>2
    <3> QED
      BY <3>1, <3>2, <3>3, <3>4
  <2> QED
    BY <2>1, <2>e, <2>f, <2>g
<1>17. CASE i = 29
  <2>1. Rules[i].lhs = "PrimaryExp" /\ n = 1
    BY <1>17, LiveRules DEF Sized
  <2> HIDE DEF n, K
  <2>2. Name(K) = 291
    BY <1>2, <1>17 DEF Reduces, Ends
  <2>3. Over(Name(K - 1), Name(K))
    <3>1. K - 1 + 1 = K /\ 1 \in 1..K - 1
      BY <1>1, <1>3, <2>1
    <3> QED
      BY <1>5, <3>1
  <2>4. Name(K - 1) \in Operands
    BY <2>2, <2>3 DEF Over
  <2>e. \E d : Reduction(i, Name(K - 1), d) /\ Move(Name(K - 1), "PrimaryExp", d)
    <3>1. Name(K - 1) \in Operands => Reduction(29, Name(K - 1), 331) /\ Move(Name(K - 1), "PrimaryExp", 331)
      BY DEF Reduction, Move, Operands
    <3> QED
      BY <1>17, <2>4, <3>1
  <2>f. K - n = K - 1 /\ n \in 0..K - 1
    BY <1>1, <1>3, <2>1
  <2> QED
    BY <2>1, <2>e, <2>f
<1>18. CASE i = 30
  <2>1. Rules[i].lhs = "PrimaryExp" /\ n = 1
    BY <1>18, LiveRules DEF Sized
  <2> HIDE DEF n, K
  <2>2. Name(K) = 301
    BY <1>2, <1>18 DEF Reduces, Ends
  <2>3. Over(Name(K - 1), Name(K))
    <3>1. K - 1 + 1 = K /\ 1 \in 1..K - 1
      BY <1>1, <1>3, <2>1
    <3> QED
      BY <1>5, <3>1
  <2>4. Name(K - 1) \in Operands
    BY <2>2, <2>3 DEF Over
  <2>e. \E d : Reduction(i, Name(K - 1), d) /\ Move(Name(K - 1), "PrimaryExp", d)
    <3>1. Name(K - 1) \in Operands => Reduction(30, Name(K - 1), 331) /\ Move(Name(K - 1), "PrimaryExp", 331)
      BY DEF Reduction, Move, Operands
    <3> QED
      BY <1>18, <2>4, <3>1
  <2>f. K - n = K - 1 /\ n \in 0..K - 1
    BY <1>1, <1>3, <2>1
  <2> QED
    BY <2>1, <2>e, <2>f
<1>19. CASE i = 31
  <2>1. Rules[i].lhs = "LVal" /\ n = 1
    BY <1>19, LiveRules DEF Sized
  <2> HIDE DEF n, K
  <2>2. Name(K) = 311
    BY <1>2, <1>19 DEF Reduces, Ends
  <2>3. Over(Name(K - 1), Name(K))
    <3>1. K - 1 + 1 = K /\ 1 \in 1..K - 1
      BY <1>1, <1>3, <2>1
    <3> QED
      BY <1>5, <3>1
  <2>4. Name(K - 1) \in {51, 71, 261, 281, 341, 372}
    BY <2>2, <2>3 DEF Over
  <2>e. \E d : Reduction(i, Name(K - 1), d) /\ Move(Name(K - 1), "LVal", d)
    <3>1. Name(K - 1) \in {51, 71} => Reduction(31, Name(K - 1), 251) /\ Move(Name(K - 1), "LVal", 251)
      BY DEF Reduction, Move, Operands
    <3>2. Name(K - 1) \in Operands => Reduction(31, Name(K - 1), 301) /\ Move(Name(K - 1), "LVal", 301)
      BY DEF Reduction, Move, Operands
    <3> QED
      BY <1>19, <2>4, <3>1, <3>2 DEF Operands
  <2>f. K - n = K - 1 /\ n \in 0..K - 1
    BY <1>1, <1>3, <2>1
  <2> QED
    BY <2>1, <2>e, <2>f
<1>20. CASE i = 32
  <2>1. Rules[i].lhs = "Number" /\ n = 1
    BY <1>20, LiveRules DEF Sized
  <2> HIDE DEF n, K
  <2>2. Name(K) = 321
    BY <1>2, <1>20 DEF Reduces, Ends
  <2>3. Over(Name(K - 1), Name(K))
    <3>1. K - 1 + 1 = K /\ 1 \in 1..K - 1
      BY <1>1, <1>3, <2>1
    <3> QED
      BY <1>5, <3>1
  <2>4. Name(K - 1) \in Operands
    BY <2>2, <2>3 DEF Over
  <2>e. \E d : Reduction(i, Name(K - 1), d) /\ Move(Name(K - 1), "Number", d)
    <3>1. Name(K - 1) \in Operands => Reduction(32, Name(K - 1), 291) /\ Move(Name(K - 1), "Number", 291)
      BY DEF Reduction, Move, Operands
    <3> QED
      BY <1>20, <2>4, <3>1
  <2>f. K - n = K - 1 /\ n \in 0..K - 1
    BY <1>1, <1>3, <2>1
  <2> QED
    BY <2>1, <2>e, <2>f
<1>21. CASE i = 33
  <2>1. Rules[i].lhs = "UnaryExp" /\ n = 1
    BY <1>21, LiveRules DEF Sized
  <2> HIDE DEF n, K
  <2>2. Name(K) = 331
    BY <1>2, <1>21 DEF Reduces, Ends
  <2>3. Over(Name(K - 1), Name(K))
    <3>1. K - 1 + 1 = K /\ 1 \in 1..K - 1
      BY <1>1, <1>3, <2>1
    <3> QED
      BY <1>5, <3>1
  <2>4. Name(K - 1) \in Operands
    BY <2>2, <2>3 DEF Over
  <2>e. \E d : Reduction(i, Name(K - 1), d) /\ Move(Name(K - 1), "UnaryExp", d)
    <3>1. Name(K - 1) \in {261, 281} => Reduction(33, Name(K - 1), 361) /\ Move(Name(K - 1), "UnaryExp", 361)
      BY DEF Reduction, Move, Operands
    <3>2. Name(K - 1) = 341 => Reduction(33, Name(K - 1), 342) /\ Move(Name(K - 1), "UnaryExp", 342)
      BY DEF Reduction, Move, Operands
    <3>3. Name(K - 1) = 372 => Reduction(33, Name(K - 1), 373) /\ Move(Name(K - 1), "UnaryExp", 373)
      BY DEF Reduction, Move, Operands
    <3> QED
      BY <1>21, <2>4, <3>1, <3>2, <3>3 DEF Operands
  <2>f. K - n = K - 1 /\ n \in 0..K - 1
    BY <1>1, <1>3, <2>1
  <2> QED
    BY <2>1, <2>e, <2>f
<1>22. CASE i = 34
  <2>1. Rules[i].lhs = "UnaryExp" /\ n = 2
    BY <1>22, LiveRules DEF Sized
  <2> HIDE DEF n, K
  <2>2. Name(K) = 342
    BY <1>2, <1>22 DEF Reduces, Ends
  <2>3. Over(Name(K - 1), Name(K))
    <3>1. K - 1 + 1 = K /\ 1 \in 1..K - 1
      BY <1>1, <1>3, <2>1
    <3> QED
      BY <1>5, <3>1
  <2>4. Name(K - 1) = 341
    BY <2>2, <2>3 DEF Over
  <2>5. Over(Name(K - 2), Name(K - 1))
    <3>1. K - 2 + 1 = K - 1 /\ 2 \in 1..K - 1
      BY <1>1, <1>3, <2>1
    <3> QED
      BY <1>5, <3>1
  <2>6. Name(K - 2) \in Operands
    BY <2>4, <2>5 DEF Over
  <2>e. \E d : Reduction(i, Name(K - 2), d) /\ Move(Name(K - 2), "UnaryExp", d)
    <3>1. Name(K - 2) \in {261, 281} => Reduction(34, Name(K - 2), 361) /\ Move(Name(K - 2), "UnaryExp", 361)
      BY DEF Reduction, Move, Operands
    <3>2. Name(K - 2) = 341 => Reduction(34, Name(K - 2), 342) /\ Move(Name(K - 2), "UnaryExp", 342)
      BY DEF Reduction, Move, Operands
    <3>3. Name(K - 2) = 372 => Reduction(34, Name(K - 2), 373) /\ Move(Name(K - 2), "UnaryExp", 373)
      BY DEF Reduction, Move, Operands
    <3> QED
      BY <1>22, <2>6, <3>1, <3>2, <3>3 DEF Operands
  <2>f. K - n = K - 2 /\ n \in 0..K - 1
    BY <1>1, <1>3, <2>1
  <2>g. \A k \in 1..n : Name(K - n + k) = 10 * i + k
    <3>s. n = 2 /\ 10 * i = 340
      BY <1>22, <2>1
    <3> SUFFICES ASSUME NEW k \in 1..2 PROVE Name(K - 2 + k) = 340 + k
      BY <3>s
    <3>1. k = 1 \/ k = 2
      OBVIOUS
    <3>2. CASE k = 1
      <4>1. K - 2 + k = K - 1
        BY <1>1, <3>2
      <4> QED
        BY <3>2, <4>1, <2>4
    <3>3. CASE k = 2
      <4>1. K - 2 + k = K
        BY <1>1, <3>3
      <4> QED
        BY <3>3, <4>1, <2>2
    <3> QED
      BY <3>1, <3>2, <3>3
  <2> QED
    BY <2>1, <2>e, <2>f, <2>g
<1>23. CASE i = 35
  <2>1. Rules[i].lhs = "UnaryOp" /\ n = 1
    BY <1>23, LiveRules DEF Sized
  <2> HIDE DEF n, K
  <2>2. Name(K) = 351
    BY <1>2, <1>23 DEF Reduces, Ends
  <2>3. Over(Name(K - 1), Name(K))
    <3>1. K - 1 + 1 = K /\ 1 \in 1..K - 1
      BY <1>1, <1>3, <2>1
    <3> QED
      BY <1>5, <3>1
  <2>4. Name(K - 1) \in Operands
    BY <2>2, <2>3 DEF Over
  <2>e. \E d : Reduction(i, Name(K - 1), d) /\ Move(Name(K - 1), "UnaryOp", d)
    <3>1. Name(K - 1) \in Operands => Reduction(35, Name(K - 1), 341) /\ Move(Name(K - 1), "UnaryOp", 341)
      BY DEF Reduction, Move, Operands
    <3> QED
      BY <1>23, <2>4, <3>1
  <2>f. K - n = K - 1 /\ n \in 0..K - 1
    BY <1>1, <1>3, <2>1
  <2> QED
    BY <2>1, <2>e, <2>f
<1>24. CASE i = 36
  <2>1. Rules[i].lhs = "MulExp" /\ n = 1
    BY <1>24, LiveRules DEF Sized
  <2> HIDE DEF n, K
  <2>2. Name(K) = 361
    BY <1>2, <1>24 DEF Reduces, Ends
  <2>3. Over(Name(K - 1), Name(K))
    <3>1. K - 1 + 1 = K /\ 1 \in 1..K - 1
      BY <1>1, <1>3, <2>1
    <3> QED
      BY <1>5, <3>1
  <2>4. Name(K - 1) \in {261, 281}
    BY <2>2, <2>3 DEF Over
  <2>e. \E d : Reduction(i, Name(K - 1), d) /\ Move(Name(K - 1), "MulExp", d)
    <3>1. Name(K - 1) \in {261, 281} => Reduction(36, Name(K - 1), 371) /\ Move(Name(K - 1), "MulExp", 371)
      BY DEF Reduction, Move, Operands
    <3> QED
      BY <1>24, <2>4, <3>1
  <2>f. K - n = K - 1 /\ n \in 0..K - 1
    BY <1>1, <1>3, <2>1
  <2> QED
    BY <2>1, <2>e, <2>f
<1>25. CASE i = 37
  <2>1. Rules[i].lhs = "MulExp" /\ n = 3
    BY <1>25, LiveRules DEF Sized
  <2> HIDE DEF n, K
  <2>2. Name(K) = 373
    BY <1>2, <1>25 DEF Reduces, Ends
  <2>3. Over(Name(K - 1), Name(K))
    <3>1. K - 1 + 1 = K /\ 1 \in 1..K - 1
      BY <1>1, <1>3, <2>1
    <3> QED
      BY <1>5, <3>1
  <2>4. Name(K - 1) = 372
    BY <2>2, <2>3 DEF Over
  <2>5. Over(Name(K - 2), Name(K - 1))
    <3>1. K - 2 + 1 = K - 1 /\ 2 \in 1..K - 1
      BY <1>1, <1>3, <2>1
    <3> QED
      BY <1>5, <3>1
  <2>6. Name(K - 2) = 371
    BY <2>4, <2>5 DEF Over
  <2>7. Over(Name(K - 3), Name(K - 2))
    <3>1. K - 3 + 1 = K - 2 /\ 3 \in 1..K - 1
      BY <1>1, <1>3, <2>1
    <3> QED
      BY <1>5, <3>1
  <2>8. Name(K - 3) \in {261, 281}
    BY <2>6, <2>7 DEF Over
  <2>e. \E d : Reduction(i, Name(K - 3), d) /\ Move(Name(K - 3), "MulExp", d)
    <3>1. Name(K - 3) \in {261, 281} => Reduction(37, Name(K - 3), 371) /\ Move(Name(K - 3), "MulExp", 371)
      BY DEF Reduction, Move, Operands
    <3> QED
      BY <1>25, <2>8, <3>1
  <2>f. K - n = K - 3 /\ n \in 0..K - 1
    BY <1>1, <1>3, <2>1
  <2>g. \A k \in 1..n : Name(K - n + k) = 10 * i + k
    <3>s. n = 3 /\ 10 * i = 370
      BY <1>25, <2>1
    <3> SUFFICES ASSUME NEW k \in 1..3 PROVE Name(K - 3 + k) = 370 + k
      BY <3>s
    <3>1. k = 1 \/ k = 2 \/ k = 3
      OBVIOUS
    <3>2. CASE k = 1
      <4>1. K - 3 + k = K - 2
        BY <1>1, <3>2
      <4> QED
        BY <3>2, <4>1, <2>6
    <3>3. CASE k = 2
      <4>1. K - 3 + k = K - 1
        BY <1>1, <3>3
      <4> QED
        BY <3>3, <4>1, <2>4
    <3>4. CASE k = 3
      <4>1. K - 3 + k = K
        BY <1>1, <3>4
      <4> QED
        BY <3>4, <4>1, <2>2
    <3> QED
      BY <3>1, <3>2, <3>3, <3>4
  <2> QED
    BY <2>1, <2>e, <2>f, <2>g
<1>26. CASE i = 38
  <2>1. Rules[i].lhs = "AddExp" /\ n = 1
    BY <1>26, LiveRules DEF Sized
  <2> HIDE DEF n, K
  <2>2. Name(K) = 371
    BY <1>2, <1>26 DEF Reduces, Ends
  <2>3. Over(Name(K - 1), Name(K))
    <3>1. K - 1 + 1 = K /\ 1 \in 1..K - 1
      BY <1>1, <1>3, <2>1
    <3> QED
      BY <1>5, <3>1
  <2>4. Name(K - 1) \in {261, 281}
    BY <2>2, <2>3 DEF Over
  <2>e. \E d : Reduction(i, Name(K - 1), d) /\ Move(Name(K - 1), "AddExp", d)
    <3>1. Name(K - 1) \in {261, 281} => Reduction(38, Name(K - 1), 391) /\ Move(Name(K - 1), "AddExp", 391)
      BY DEF Reduction, Move, Operands
    <3> QED
      BY <1>26, <2>4, <3>1
  <2>f. K - n = K - 1 /\ n \in 0..K - 1
    BY <1>1, <1>3, <2>1
  <2> QED
    BY <2>1, <2>e, <2>f
<1>27. CASE i = 40
  <2>1. Rules[i].lhs = "BinOp" /\ n = 1
    BY <1>27, LiveRules DEF Sized
  <2> HIDE DEF n, K
  <2>2. Name(K) = 401
    BY <1>2, <1>27 DEF Reduces, Ends
  <2>3. Over(Name(K - 1), Name(K))
    <3>1. K - 1 + 1 = K /\ 1 \in 1..K - 1
      BY <1>1, <1>3, <2>1
    <3> QED
      BY <1>5, <3>1
  <2>4. Name(K - 1) = 371
    BY <2>2, <2>3 DEF Over
  <2>e. \E d : Reduction(i, Name(K - 1), d) /\ Move(Name(K - 1), "BinOp", d)
    <3>1. Name(K - 1) = 371 => Reduction(40, Name(K - 1), 372) /\ Move(Name(K - 1), "BinOp", 372)
      BY DEF Reduction, Move, Operands
    <3> QED
      BY <1>27, <2>4, <3>1
  <2>f. K - n = K - 1 /\ n \in 0..K - 1
    BY <1>1, <1>3, <2>1
  <2> QED
    BY <2>1, <2>e, <2>f
<1>28. CASE i = 41
  <2>1. Rules[i].lhs = "RelExp" /\ n = 1
    BY <1>28, LiveRules DEF Sized
  <2> HIDE DEF n, K
  <2>2. Name(K) = 391
    BY <1>2, <1>28 DEF Reduces, Ends
  <2>3. Over(Name(K - 1), Name(K))
    <3>1. K - 1 + 1 = K /\ 1 \in 1..K - 1
      BY <1>1, <1>3, <2>1
    <3> QED
      BY <1>5, <3>1
  <2>4. Name(K - 1) \in {261, 281}
    BY <2>2, <2>3 DEF Over
  <2>e. \E d : Reduction(i, Name(K - 1), d) /\ Move(Name(K - 1), "RelExp", d)
    <3>1. Name(K - 1) \in {261, 281} => Reduction(41, Name(K - 1), 421) /\ Move(Name(K - 1), "RelExp", 421)
      BY DEF Reduction, Move, Operands
    <3> QED
      BY <1>28, <2>4, <3>1
  <2>f. K - n = K - 1 /\ n \in 0..K - 1
    BY <1>1, <1>3, <2>1
  <2> QED
    BY <2>1, <2>e, <2>f
<1>29. CASE i = 43
  <2>1. Rules[i].lhs = "EqExp" /\ n = 1
    BY <1>29, LiveRules DEF Sized
  <2> HIDE DEF n, K
  <2>2. Name(K) = 421
    BY <1>2, <1>29 DEF Reduces, Ends
  <2>3. Over(Name(K - 1), Name(K))
    <3>1. K - 1 + 1 = K /\ 1 \in 1..K - 1
      BY <1>1, <1>3, <2>1
    <3> QED
      BY <1>5, <3>1
  <2>4. Name(K - 1) \in {261, 281}
    BY <2>2, <2>3 DEF Over
  <2>e. \E d : Reduction(i, Name(K - 1), d) /\ Move(Name(K - 1), "EqExp", d)
    <3>1. Name(K - 1) \in {261, 281} => Reduction(43, Name(K - 1), 441) /\ Move(Name(K - 1), "EqExp", 441)
      BY DEF Reduction, Move, Operands
    <3> QED
      BY <1>29, <2>4, <3>1
  <2>f. K - n = K - 1 /\ n \in 0..K - 1
    BY <1>1, <1>3, <2>1
  <2> QED
    BY <2>1, <2>e, <2>f
<1>30. CASE i = 46
  <2>1. Rules[i].lhs = "LAndExp" /\ n = 1
    BY <1>30, LiveRules DEF Sized
  <2> HIDE DEF n, K
  <2>2. Name(K) = 441
    BY <1>2, <1>30 DEF Reduces, Ends
  <2>3. Over(Name(K - 1), Name(K))
    <3>1. K - 1 + 1 = K /\ 1 \in 1..K - 1
      BY <1>1, <1>3, <2>1
    <3> QED
      BY <1>5, <3>1
  <2>4. Name(K - 1) \in {261, 281}
    BY <2>2, <2>3 DEF Over
  <2>e. \E d : Reduction(i, Name(K - 1), d) /\ Move(Name(K - 1), "LAndExp", d)
    <3>1. Name(K - 1) \in {261, 281} => Reduction(46, Name(K - 1), 471) /\ Move(Name(K - 1), "LAndExp", 471)
      BY DEF Reduction, Move, Operands
    <3> QED
      BY <1>30, <2>4, <3>1
  <2>f. K - n = K - 1 /\ n \in 0..K - 1
    BY <1>1, <1>3, <2>1
  <2> QED
    BY <2>1, <2>e, <2>f
<1>31. CASE i = 48
  <2>1. Rules[i].lhs = "LOrExp" /\ n = 1
    BY <1>31, LiveRules DEF Sized
  <2> HIDE DEF n, K
  <2>2. Name(K) = 471
    BY <1>2, <1>31 DEF Reduces, Ends
  <2>3. Over(Name(K - 1), Name(K))
    <3>1. K - 1 + 1 = K /\ 1 \in 1..K - 1
      BY <1>1, <1>3, <2>1
    <3> QED
      BY <1>5, <3>1
  <2>4. Name(K - 1) \in {261, 281}
    BY <2>2, <2>3 DEF Over
  <2>e. \E d : Reduction(i, Name(K - 1), d) /\ Move(Name(K - 1), "LOrExp", d)
    <3>1. Name(K - 1) \in {261, 281} => Reduction(48, Name(K - 1), 491) /\ Move(Name(K - 1), "LOrExp", 491)
      BY DEF Reduction, Move, Operands
    <3> QED
      BY <1>31, <2>4, <3>1
  <2>f. K - n = K - 1 /\ n \in 0..K - 1
    BY <1>1, <1>3, <2>1
  <2> QED
    BY <2>1, <2>e, <2>f
<1>32. \/ i = 2
       \/ i = 3
       \/ i = 4
       \/ i = 5
       \/ i = 6
       \/ i = 7
       \/ i = 9
       \/ i = 14
       \/ i = 26
       \/ i = 27
       \/ i = 28
       \/ i = 29
       \/ i = 30
       \/ i = 31
       \/ i = 32
       \/ i = 33
       \/ i = 34
       \/ i = 35
       \/ i = 36
       \/ i = 37
       \/ i = 38
       \/ i = 40
       \/ i = 41
       \/ i = 43
       \/ i = 46
       \/ i = 48
  BY Zenon DEF Reduces, Ends
<1> HIDE DEF n, K, Goal
<1> QED
  BY <1>6, <1>7, <1>8, <1>9, <1>10, <1>11, <1>12, <1>13, <1>14, <1>15,
     <1>16, <1>17, <1>18, <1>19, <1>20, <1>21, <1>22, <1>23, <1>24, <1>25,
     <1>26, <1>27, <1>28, <1>29, <1>30, <1>31, <1>32

\* What a step leaves on the stacks that keeps m states and pushes the state of
\* number d and a new object v. No argument is under a prime: m is what it is
\* before the step.
Pushed(m, d, v) ==
    /\ Len(states') = m + 1 /\ Len(values') = m
    /\ \A k \in 1..m : Name(k)' = Name(k)
    /\ NameOf(states'[m + 1]) = d /\ Top' = d
    /\ \A k \in 1..m - 1 : values'[k] = values[k]
    /\ values'[m] = Len(nodes) + 1
    /\ nodes' = Append(nodes, v)
    /\ pc' \in {"parse", "exhausted"}

\* What a push along a step of the automaton does.
LEMMA PushTraced ==
    ASSUME ParserInv, Traced, pc = "parse", NEW m \in 1..Len(states), NEW X, X # "$end", NEW d,
           Move(Name(m), X, d), NEW v, Push(X, SubSeq(states, 1, m), v)
    PROVE  Pushed(m, d, v) /\ (Facing' => Traced')
<1> DEFINE K == Len(states)
           S == {values[k] : k \in 1..Len(values)}
<1>1. /\ K \in Nat /\ K >= 1 /\ K = Len(values) + 1 /\ Len(values) \in Nat /\ values \in Seq(S)
  BY DEF ParserInv, ParserTypeOK, StackShape, Linked
<1>2. /\ \A k \in 1..K : Name(k) \in Alive /\ states[k] = Kernel(Name(k))
      /\ Name(1) = 10 /\ \A k \in 1..K - 1 : Over(Name(k), Name(k + 1))
  BY DEF Traced
<1>3. d \in Alive /\ Goto(states[m], X) = Kernel(d) /\ Over(Name(m), d)
  BY <1>2, MoveGoto, MoveOver
<1>4. Kernel(d) # {}
  BY DEF Kernel
<1>5. /\ Len(states') = m + 1 /\ Len(values') = m
      /\ \A k \in 1..m : states'[k] = states[k]
      /\ states'[m+1] = Kernel(d)
      /\ pc' \in {"parse", "exhausted"}
  BY <1>3, <1>4, PushStacks
<1>6. /\ nodes' = Append(nodes, v)
      /\ values' = Append(SubSeq(values, 1, m - 1), Len(nodes) + 1)
  <2>1. Len(SubSeq(states, 1, m)) = m
    BY <1>1 DEF ParserInv, StackShape, Linked
  <2> QED
    BY <2>1 DEF Push
<1>7. (\A k \in 1..m - 1 : values'[k] = values[k]) /\ values'[m] = Len(nodes) + 1
  <2> DEFINE kept == SubSeq(values, 1, m - 1)
             new == Len(nodes) + 1
  <2>1. Len(kept) = m - 1 /\ \A k \in 1..m - 1 : kept[k] = values[k]
    BY <1>1
  <2>2. kept \in Seq(S)
    BY <1>1
  <2> HIDE DEF kept, new
  <2>3. kept \in Seq(S \cup {new}) /\ new \in S \cup {new}
    BY <2>2
  <2> DEFINE longer == Append(kept, new)
  <2>4. longer[m] = new /\ \A k \in 1..m - 1 : longer[k] = kept[k]
    BY <1>1, <2>1, <2>3
  <2> QED
    BY <1>6, <2>1, <2>4 DEF kept, new
<1>8. \A k \in 1..m : Name(k)' = Name(k)
  BY <1>5 DEF Name
<1>9. Name(m + 1)' = d /\ Top' = d
  <2>1. (Name(m + 1))' = NameOf(Kernel(d)) /\ Top' = NameOf(Kernel(d))
    BY <1>5 DEF Name, Top
  <2> QED
    BY <1>3, <2>1, KernelName
<1>10. ASSUME Facing' PROVE Traced'
  <2>1. \A k \in 1..Len(states') : Name(k)' \in Alive /\ states'[k] = Kernel(Name(k)')
    <3> SUFFICES ASSUME NEW k \in 1..m + 1
                 PROVE  Name(k)' \in Alive /\ states'[k] = Kernel(Name(k)')
      BY <1>5
    <3>1. CASE k = m + 1
      BY <1>3, <1>5, <1>9, <3>1
    <3>2. CASE k \in 1..m
      <4>1. k \in 1..K
        BY <1>1, <3>2
      <4> QED
        BY <1>2, <1>5, <1>8, <3>2, <4>1
    <3> QED
      BY <1>1, <3>1, <3>2
  <2>2. Name(1)' = 10
    BY <1>1, <1>2, <1>8
  <2>3. \A k \in 1..Len(states') - 1 : Over(Name(k)', Name(k + 1)')
    <3> SUFFICES ASSUME NEW k \in 1..m
                 PROVE  Over(Name(k)', Name(k + 1)')
      BY <1>1, <1>5
    <3>1. CASE k = m
      BY <1>3, <1>8, <1>9, <3>1
    <3>2. CASE k < m
      <4>1. k \in 1..K - 1 /\ k + 1 \in 1..m
        BY <1>1, <3>2
      <4> QED
        BY <1>2, <1>8, <4>1
    <3> QED
      BY <1>1, <3>1, <3>2
  <2> QED
    BY <1>10, <2>1, <2>2, <2>3 DEF Traced
<1> QED
  BY <1>5, <1>6, <1>7, <1>8, <1>9, <1>10 DEF Pushed, Name

\* The classes of tokens.
LEMMA ClassFacts ==
    ParserInv => (lookahead # <<>> => lookahead[1] = "$end" \/ lookahead[1] \in Classes)
BY DEF ParserInv, ParserTypeOK

\* The lexer has no class "$end" and no class "str=".
LEMMA NoStrClass == "$end" \notin Classes /\ "str=" \notin Classes
BY ClassesAssumption, Zenon

\* A token that a state of the stack expects leads on, unless it ends the file.
LEMMA WantsMove ==
    ASSUME NEW c \in Alive, NEW t, Wants(c, t), t # "$end", t # "str=",
           c \in {391, 421, 441, 471, 491} => t # "OPT"
    PROVE  \E d : Move(c, t, d)
<1>1. CASE c \in {10, 131, 31, 132, 32, 33, 282}
  <2>1. \/ c = 10 /\ t = "INT"
        \/ c = 131 /\ t = "INT"
        \/ c = 31 /\ t = "IDENT"
        \/ c = 132 /\ t = "IDENT"
        \/ c = 32 /\ t = "("
        \/ c = 33 /\ t = ")"
        \/ c = 282 /\ t = ")"
    BY <1>1 DEF Wants, Operands, Chains
  <2> QED
    BY <2>1 DEF Move
<1>2. CASE c \in {34, 52, 262}
  <2>1. \/ c = 34 /\ t = OpenBlock
        \/ c = 52 /\ t = CloseBlock
        \/ c = 262 /\ t = Semicolon
    BY <1>2 DEF Wants, Operands, Chains
  <2> QED
    BY <2>1 DEF Move
<1>3. CASE c \in {51, 71}
  <2>1. t = "CONST" \/ t = "IDENT" \/ t = "RETURN"
    BY <1>3 DEF Wants, Operands, Chains
  <2> QED
    BY <1>3, <2>1 DEF Move
<1>4. CASE c \in Operands
  <2>1. t = "(" \/ t = "IDENT" \/ t = "INT_CONST" \/ t = "OPT"
    BY <1>4 DEF Wants, Operands, Chains
  <2> QED
    BY <1>4, <2>1 DEF Move
<1>5. CASE c = 371
  <2>1. t = "OPT"
    BY <1>5 DEF Wants, Operands, Chains
  <2> QED
    BY <1>5, <2>1 DEF Move
<1> QED
  BY <1>1, <1>2, <1>3, <1>4, <1>5 DEF Wants, Chains

\* What the tokens that can be shifted are, and the state on top.
LEMMA TopFacts ==
    ASSUME ParserInv, Traced
    PROVE  /\ Len(states) \in Nat /\ Len(states) >= 1 /\ Top = Name(Len(states)) /\ Top \in Alive
           /\ Last(states) = Kernel(Top)
           /\ \A t : t \in Shiftable <=> Wants(Top, t)
<1>1. Len(states) \in Nat /\ Len(states) >= 1
  BY DEF ParserInv, StackShape, Linked
<1>2. Top = Name(Len(states)) /\ Top \in Alive /\ Last(states) = Kernel(Top)
  BY <1>1 DEF Traced, Top, Last
<1>3. Shiftable = Expects(Kernel(Top))
  BY <1>2 DEF Shiftable, Expects
<1> QED
  BY <1>1, <1>2, <1>3, StateFacts

\* What a shift does.
LEMMA ShiftStep ==
    ASSUME ParserInv, Traced, Shift
    PROVE  /\ lookahead # <<>> /\ lookahead[1] \in Classes /\ lookahead' = <<>> /\ read' = read
           /\ Wants(Top, lookahead[1])
           /\ \E d : /\ Move(Top, lookahead[1], d)
                     /\ Pushed(Len(states), d, Token(lookahead[1]))
                     /\ Facing' => Traced'
<1> DEFINE X == lookahead[1]
           v == Token(X)
           m == Len(states)
<1>1. /\ X # "$end" /\ X \in Shiftable /\ pc = "parse" /\ lookahead # <<>>
      /\ lookahead' = <<>> /\ read' = read /\ Push(X, states, v)
  BY DEF Shift, Deciding
<1>2. m \in Nat /\ m >= 1 /\ Top = Name(m) /\ Top \in Alive /\ Wants(Top, X)
  BY <1>1, TopFacts
<1>3. X \in Classes /\ X # "str="
  BY <1>1, ClassFacts, NoStrClass
<1>4. Top \in {391, 421, 441, 471, 491} => X # "OPT"
  BY DEF Traced, Facing
<1>5. PICK d : Move(Top, X, d)
  BY <1>1, <1>2, <1>3, <1>4, WantsMove
<1>6. SubSeq(states, 1, m) = states
  BY <1>2, SubSeqFull DEF ParserInv, StackShape, Linked
<1>7. m \in 1..Len(states) /\ Push(X, SubSeq(states, 1, m), v) /\ Move(Name(m), X, d)
  <2>1. m \in 1..Len(states)
    BY <1>2
  <2>2. Move(Name(m), X, d)
    BY <1>2, <1>5
  <2>3. Push(X, SubSeq(states, 1, m), v)
    <3> HIDE DEF v, X, m
    <3> QED
      BY <1>1, <1>6
  <2> QED
    BY <2>1, <2>2, <2>3
<1> HIDE DEF v
<1>8. Pushed(m, d, v) /\ (Facing' => Traced')
  BY <1>1, <1>7, PushTraced
<1> QED
  BY <1>1, <1>2, <1>3, <1>5, <1>8 DEF v

\* What a reduction does: n symbols are replaced.
Reduced(i, d) ==
    LET n == Len(Rules[i].rhs)
        m == Len(states) - n
    IN  /\ Reduces(Top, i) /\ Reduction(i, Name(m), d) /\ Move(Name(m), Rules[i].lhs, d)
        /\ n \in 0..Len(states) - 1
        /\ n > 1 => \A k \in 1..n : Name(m + k) = 10 * i + k
        /\ Pushed(m, d, Build(Rules[i], SubSeq(values, m, Len(values))))

\* A reduction, as one of those that Reduction lists.  The token ahead stays, and
\* is one that the state on top does not want.
LEMMA ReduceStep ==
    ASSUME ParserInv, Traced, Reduce
    PROVE  /\ lookahead # <<>> /\ ~Wants(Top, lookahead[1])
           /\ lookahead' = lookahead /\ read' = read
           /\ \E i, d : Reduced(i, d) /\ (Facing' => Traced')
<1>1. PICK i \in Chosen(Complete(Last(states))) : ReduceBy(i)
  BY DEF Reduce
<1> DEFINE K == Len(states)
           n == Len(Rules[i].rhs)
           m == K - n
           v == Build(Rules[i], SubSeq(values, m, Len(values)))
<1>2. /\ pc = "parse" /\ lookahead # <<>> /\ ~Wants(Top, lookahead[1])
      /\ lookahead' = lookahead /\ read' = read
  BY TopFacts DEF Reduce, Deciding
<1>3. K \in Nat /\ K >= 1 /\ Top \in Alive /\ Last(states) = Kernel(Top)
  BY TopFacts
<1>4. Reduces(Top, i)
  BY <1>1, <1>3, ChosenRule
<1>5. /\ n \in 0..K - 1
      /\ n > 1 => \A k \in 1..n : Name(m + k) = 10 * i + k
      /\ \E d : Reduction(i, Name(m), d) /\ Move(Name(m), Rules[i].lhs, d)
  BY <1>4, Handle
<1>6. PICK d : Reduction(i, Name(m), d) /\ Move(Name(m), Rules[i].lhs, d)
  BY <1>5
<1>7. Push(Rules[i].lhs, SubSeq(states, 1, m), v)
  <2>1. K = Len(values) + 1 /\ Len(values) \in Nat
    BY DEF ParserInv, ParserTypeOK, StackShape, Linked
  <2>2. (Len(values) - n) + 1 = m
    BY <1>5, <2>1
  <2> QED
    BY <1>1, <2>2 DEF ReduceBy
<1>8. Rules[i].lhs # "$end"
  <2>1. i \in 1..49
    BY <1>4 DEF Reduces, Ends
  <2>2. OrderlyRules(Rules) /\ Len(Rules) = 49
    BY RulesOrderly, RuleNumbers
  <2>3. Orderly(Rules[i])
    BY <2>1, <2>2 DEF OrderlyRules
  <2> QED
    BY <2>3 DEF Orderly
<1>9. m \in 1..K
  BY <1>3, <1>5
<1> HIDE DEF v
<1>10. Pushed(m, d, v) /\ (Facing' => Traced')
  <2> DEFINE X == Rules[i].lhs
  <2>1. Move(Name(m), X, d) /\ X # "$end" /\ Push(X, SubSeq(states, 1, m), v)
    BY <1>6, <1>7, <1>8
  <2> HIDE DEF X, m
  <2> QED
    BY <1>2, <1>9, <2>1, PushTraced
<1>11. Reduced(i, d)
  BY <1>4, <1>5, <1>6, <1>10 DEF Reduced, v
<1> QED
  BY <1>2, <1>10, <1>11

\* Above a token that was shifted nothing is known of the next one.
LEMMA ShiftedTop ==
    ASSUME NEW c, NEW t, Wants(c, t), NEW d, Move(c, t, d)
    PROVE  d \notin {262, 282, 391, 421, 441, 471, 491, 52, 72}
<1>1. CASE c \in {10, 131, 31, 132, 32, 33, 282, 34, 52, 262, 371}
  BY <1>1 DEF Move, Operands
<1>2. CASE c \in {51, 71}
  <2>1. t \in {"CONST", "IDENT", "RETURN"}
    BY <1>2 DEF Wants, Operands, Chains
  <2> QED
    BY <1>2, <2>1 DEF Move, Operands
<1>3. CASE c \in Operands
  <2>1. t \in {"(", "IDENT", "INT_CONST", "OPT"}
    BY <1>3 DEF Wants, Operands, Chains
  <2> QED
    BY <1>3, <2>1 DEF Move, Operands
<1>4. \/ c \in {10, 131, 31, 132, 32, 33, 282, 34, 52, 262, 371}
      \/ c \in {51, 71}
      \/ c \in Operands
  BY DEF Move, Operands
<1> QED
  BY <1>1, <1>2, <1>3, <1>4

\* A shift keeps the stack on a path.
LEMMA ShiftTraced == ParserInv /\ Traced /\ Shift => Traced'
<1> SUFFICES ASSUME ParserInv, Traced, Shift PROVE Traced'
  OBVIOUS
<1>1. PICK d : /\ Move(Top, lookahead[1], d)
               /\ Pushed(Len(states), d, Token(lookahead[1]))
               /\ Facing' => Traced'
  BY ShiftStep
<1>2. Top' = d
  BY <1>1 DEF Pushed
<1>3. Wants(Top, lookahead[1])
  BY ShiftStep
<1>4. d \notin {262, 282, 391, 421, 441, 471, 491, 52, 72}
  BY <1>1, <1>3, ShiftedTop
<1>5. Facing'
  BY <1>2, <1>4 DEF Facing
<1> QED
  BY <1>1, <1>5

\* So does a reduction.
LEMMA ReduceTraced == ParserInv /\ Traced /\ Reduce => Traced'
<1> SUFFICES ASSUME ParserInv, Traced, Reduce PROVE Traced'
  OBVIOUS
<1>1. PICK i, d : Reduced(i, d) /\ (Facing' => Traced')
  BY ReduceStep
<1>2. Top' = d
  BY <1>1 DEF Reduced, Pushed
<1> DEFINE p == Name(Len(states) - Len(Rules[i].rhs))
           t == lookahead[1]
<1>3. Reduces(Top, i) /\ Reduction(i, p, d)
  BY <1>1 DEF Reduced
<1>4. lookahead # <<>> /\ lookahead' = lookahead /\ ~Wants(Top, t)
  BY ReduceStep
<1> HIDE DEF p
<1>5. CASE d \in {262, 282, 391, 421, 441, 471, 491}
  <2>1. i \in {27, 38, 41, 43, 46, 48}
    BY <1>3, <1>5 DEF Reduction, Operands
  <2>2. Top \in Chains
    BY <1>3, <2>1 DEF Reduces, Ends, Chains
  <2>3. t # "OPT"
    BY <1>4, <2>2 DEF Wants
  <2> QED
    BY <1>1, <1>2, <1>4, <1>5, <2>3 DEF Facing
<1>6. CASE d \in {52, 72}
  <2>1. i \in {6, 7}
    BY <1>3, <1>6 DEF Reduction, Operands
  <2>2. Top \in {51, 71, 72}
    BY <1>3, <2>1 DEF Reduces, Ends
  <2>3. t \notin {"CONST", "IDENT", "RETURN"}
    <3>1. CASE Top \in {51, 71}
      BY <1>4, <3>1 DEF Wants
    <3>2. CASE Top = 72
      BY <3>2 DEF Traced, Facing
    <3> QED
      BY <2>2, <3>1, <3>2
  <2> QED
    BY <1>1, <1>2, <1>4, <1>6, <2>3 DEF Facing
<1>7. CASE d \notin {262, 282, 391, 421, 441, 471, 491, 52, 72}
  BY <1>1, <1>2, <1>7 DEF Facing
<1> QED
  BY <1>5, <1>6, <1>7

\* The stack begins as a path of one state.
LEMMA TracedInitially == Init => Traced
<1> SUFFICES ASSUME Init PROVE Traced
  OBVIOUS
<1>1. states = <<StartState>> /\ Len(states) = 1 /\ states[1] = StartState
  BY DEF Init
<1>2. StartState = Kernel(10)
  BY HeaderKernels DEF StartState
<1>3. 10 \in Alive
  BY DEF Alive
<1>4. Name(1) = 10 /\ Top = 10
  BY <1>1, <1>2, <1>3, KernelName DEF Name, Top
<1> QED
  BY <1>1, <1>2, <1>3, <1>4 DEF Traced, Facing

\* Every step keeps the stack on a path.
LEMMA TracedNext == ParserInv /\ Traced /\ [Next \/ Returned]_vars => Traced'
<1> SUFFICES ASSUME ParserInv, Traced, [Next \/ Returned]_vars PROVE Traced'
  OBVIOUS
<1>1. CASE Shift
  BY <1>1, ShiftTraced
<1>2. CASE Reduce
  BY <1>2, ReduceTraced
<1>3. CASE Lex
  <2>1. states' = states /\ lookahead = <<>>
    BY <1>3 DEF Lex
  <2>2. Facing' /\ Top' = Top
    BY <2>1 DEF Traced, Facing, Top, Name
  <2> QED
    BY <2>1, <2>2 DEF Traced, Name
<1>4. CASE Error \/ Accept \/ UNCHANGED vars
  <2>1. states' = states /\ lookahead' = lookahead
    BY <1>4 DEF Error, Accept, vars
  <2> QED
    BY <2>1 DEF Traced, Facing, Top, Name
<1> QED
  BY <1>1, <1>2, <1>3, <1>4 DEF Next, Returned

\* In every reachable state the stack of states is a path among the states that
\* are listed above: no other state of the automaton is ever entered.
THEOREM ParserTraced == Spec => []Traced
<1>1. Init => Traced
  BY TracedInitially
<1>2. ParserInv /\ Traced /\ [Next \/ Returned]_vars => Traced'
  BY TracedNext
<1> QED
  BY <1>1, <1>2, ParserInvariant, PTL DEF Spec
=============================================================================
