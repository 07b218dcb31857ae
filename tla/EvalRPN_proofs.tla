---------------------------- MODULE EvalRPN_proofs ----------------------------
(***************************************************************************)
(* Proofs about the two loops of the folder, for every set of operators    *)
(* and every table of priorities.                                          *)
(*                                                                         *)
(* MidExpr2RPN: its types, that it makes an RPN expression of every infix  *)
(* expression, and that it loses no token and keeps the operands in their  *)
(* order.  They begin with facts about the queues of MidExpr: how Count    *)
(* and Height change when a sequence grows or shrinks at the end, which is *)
(* all that the queues and stacks of BasicBlockIR do.                      *)
(*                                                                         *)
(* EvalRPN: its types; that no top() or pop() of evalRPN meets an empty    *)
(* stack and one value is left when the queue was an infix expression; and *)
(* that a queue with an operand left out never folds to a value.           *)
(*                                                                         *)
(* The refinement: midExpr2RPN followed by evalRPN implements ConstFold.   *)
(* For every infix queue the value that the two loops arrive at, or the    *)
(* way they stop, is an outcome of the expression as the table groups it.  *)
(* The argument follows the operator stack.  Between two of its elements   *)
(* lies a part of the queue that was read: nothing, or the left operand    *)
(* of the upper one (Gap).  The result is a sequence in postfix order, and *)
(* evaluating it gives one set of outcomes for each of these operands      *)
(* (Denotes).  Popping an operator joins the two parts around it; that     *)
(* ConstFold takes this operator as the root of the joined part is what    *)
(* the comparisons of priorities are for (OperatorJoinsParts).             *)
(***************************************************************************)
EXTENDS EvalRPN, Induction, FiniteSetTheorems, FunctionTheorems, SequenceTheorems

-----------------------------------------------------------------------------
(* midExpr2RPN                                                             *)

\* Nothing is counted in an empty prefix.
LEMMA CountZero ==
    ASSUME NEW s, NEW S
    PROVE  Count(s, 0, S) = 0
BY FS_EmptySet, {j \in 1..0 : s[j] \in S} = {} DEF Count

\* A count is a number, and one more element adds at most one.
LEMMA CountStep ==
    ASSUME NEW s, NEW S, NEW k \in Nat
    PROVE  /\ Count(s, k, S) \in Nat
           /\ Count(s, k + 1, S) = Count(s, k, S) + IF s[k+1] \in S THEN 1 ELSE 0
<1> DEFINE C == {j \in 1..k : s[j] \in S}
           D == {j \in 1..k+1 : s[j] \in S}
<1>1. IsFiniteSet(1..k)
  BY FS_Interval
<1>2. IsFiniteSet(C) /\ Cardinality(C) \in Nat
  <2>1. C \in SUBSET (1..k)
    OBVIOUS
  <2> QED
    BY <1>1, <2>1, FS_Subset, FS_CardinalityType
<1>3. D = IF s[k+1] \in S THEN C \cup {k+1} ELSE C
  OBVIOUS
<1>4. k+1 \notin C
  OBVIOUS
<1>5. Cardinality(C \cup {k+1}) = Cardinality(C) + 1
  BY <1>2, <1>4, FS_AddElement
<1> QED
  BY <1>2, <1>3, <1>5 DEF Count

\* A prefix holds no more than the whole.
LEMMA CountMonotone ==
    ASSUME NEW s, NEW S, NEW k \in Nat, NEW j \in 0..k
    PROVE  Count(s, j, S) <= Count(s, k, S)
<1> DEFINE C == {i \in 1..j : s[i] \in S}
           D == {i \in 1..k : s[i] \in S}
<1>1. C \in SUBSET D
  OBVIOUS
<1>2. IsFiniteSet(D)
  <2>1. IsFiniteSet(1..k) /\ D \in SUBSET (1..k)
    BY FS_Interval
  <2> QED
    BY <2>1, FS_Subset
<1> QED
  BY <1>1, <1>2, FS_Subset DEF Count

\* Only the elements that are counted matter.
LEMMA CountAgree ==
    ASSUME NEW s, NEW t, NEW S, NEW k \in Nat,
           \A j \in 1..k : s[j] = t[j]
    PROVE  Count(s, k, S) = Count(t, k, S)
<1>1. {j \in 1..k : s[j] \in S} = {j \in 1..k : t[j] \in S}
  OBVIOUS
<1> QED
  BY <1>1 DEF Count

\* The count of all of s.
LEMMA CountAppend ==
    ASSUME NEW A, NEW s \in Seq(A), NEW e \in A, NEW S
    PROVE  Count(Append(s, e), Len(Append(s, e)), S)
             = Count(s, Len(s), S) + IF e \in S THEN 1 ELSE 0
<1> DEFINE t == Append(s, e)
<1>1. Len(t) = Len(s) + 1 /\ Len(s) \in Nat /\ t[Len(s) + 1] = e
  OBVIOUS
<1>2. \A j \in 1..Len(s) : s[j] = t[j]
  OBVIOUS
<1>3. Count(t, Len(s), S) = Count(s, Len(s), S)
  BY <1>1, <1>2, CountAgree
<1>4. Count(t, Len(s) + 1, S) = Count(t, Len(s), S) + IF t[Len(s)+1] \in S THEN 1 ELSE 0
  BY <1>1, CountStep
<1> QED
  BY <1>1, <1>3, <1>4

\* The same for a sequence without its last element.
LEMMA CountFront ==
    ASSUME NEW A, NEW s \in Seq(A), s # <<>>, NEW S
    PROVE  LET f == SubSeq(s, 1, Len(s) - 1)
           IN  Count(s, Len(s), S)
                 = Count(f, Len(f), S) + IF s[Len(s)] \in S THEN 1 ELSE 0
<1> DEFINE f == SubSeq(s, 1, Len(s) - 1)
           n == Len(s) - 1
<1>1. n \in Nat /\ Len(s) = n + 1
  OBVIOUS
<1>2. Len(f) = n /\ \A j \in 1..n : s[j] = f[j]
  OBVIOUS
<1> HIDE DEF n, f
<1>3. Count(f, n, S) = Count(s, n, S)
  BY <1>1, <1>2, CountAgree
<1>4. Count(s, n + 1, S) = Count(s, n, S) + IF s[n+1] \in S THEN 1 ELSE 0
  BY <1>1, CountStep
<1> QED
  BY <1>1, <1>2, <1>3, <1>4 DEF f

\* An element that occurs is counted.
LEMMA CountPositive ==
    ASSUME NEW s, NEW S, NEW k \in Nat, Count(s, k, S) > 0
    PROVE  \E j \in 1..k : s[j] \in S
<1>1. ASSUME {j \in 1..k : s[j] \in S} = {} PROVE FALSE
  BY <1>1, FS_EmptySet DEF Count
<1> QED
  BY <1>1

-----------------------------------------------------------------------------
\* The height of the evaluation stack is a number.
LEMMA HeightType ==
    ASSUME NEW r, NEW k \in Nat
    PROVE  Height(r, k) \in Int
BY CountStep DEF Height

\* An operand at the end of an RPN queue adds a value ...
LEMMA AppendOperand ==
    ASSUME NEW r \in Seq(Num \cup Opt), NEW e \in Num, Num \cap Opt = {},
           NeverUnderflows(r)
    PROVE  LET t == Append(r, e)
           IN  /\ t \in Seq(Num \cup Opt)
               /\ NeverUnderflows(t)
               /\ Height(t, Len(t)) = Height(r, Len(r)) + 1
<1> DEFINE t == Append(r, e)
<1>1. Len(r) \in Nat /\ Len(t) = Len(r) + 1 /\ t[Len(t)] = e
  OBVIOUS
<1>2. \A j \in 1..Len(r) : t[j] = r[j]
  OBVIOUS
<1>3. ASSUME NEW k \in 1..Len(t), t[k] \in Opt
      PROVE  Height(t, k - 1) >= 2
  <2>1. k \in 1..Len(r) /\ k - 1 \in Nat
    BY <1>1, <1>3
  <2>2. r[k] \in Opt
    BY <1>2, <1>3, <2>1
  <2>3. Height(r, k - 1) >= 2
    BY <2>1, <2>2 DEF NeverUnderflows
  <2>4. \A j \in 1..k-1 : t[j] = r[j]
    BY <1>1, <1>2, <2>1
  <2>5. \A S : Count(t, k - 1, S) = Count(r, k - 1, S)
    <3> DEFINE i == k - 1
    <3>1. i \in Nat /\ \A j \in 1..i : t[j] = r[j]
      BY <2>1, <2>4
    <3> HIDE DEF i, t
    <3>2. \A S : Count(t, i, S) = Count(r, i, S)
      BY <3>1, CountAgree
    <3> QED
      BY <3>2 DEF i
  <2>6. Height(t, k - 1) = Height(r, k - 1)
    BY <2>5 DEF Height
  <2> QED
    BY <2>3, <2>6
<1>4. Height(t, Len(t)) = Height(r, Len(r)) + 1
  <2>1. /\ Count(t, Len(t), Num) = Count(r, Len(r), Num) + 1
        /\ Count(t, Len(t), Opt) = Count(r, Len(r), Opt)
    <3>1. e \notin Opt
      OBVIOUS
    <3>2. Count(r, Len(r), Opt) \in Nat
      BY <1>1, CountStep
    <3> QED
      BY <3>1, <3>2, CountAppend
  <2>2. Count(r, Len(r), Num) \in Nat /\ Count(r, Len(r), Opt) \in Nat
    BY <1>1, CountStep
  <2> QED
    BY <2>1, <2>2 DEF Height
<1> QED
  BY <1>3, <1>4 DEF NeverUnderflows

\* ... an operator takes one away, if two are there for it.
LEMMA AppendOperator ==
    ASSUME NEW r \in Seq(Num \cup Opt), NEW e \in Opt, Num \cap Opt = {},
           NeverUnderflows(r), Height(r, Len(r)) >= 2
    PROVE  LET t == Append(r, e)
           IN  /\ t \in Seq(Num \cup Opt)
               /\ NeverUnderflows(t)
               /\ Height(t, Len(t)) = Height(r, Len(r)) - 1
<1> DEFINE t == Append(r, e)
<1>1. Len(r) \in Nat /\ Len(t) = Len(r) + 1 /\ t[Len(t)] = e
  OBVIOUS
<1>2. \A j \in 1..Len(r) : t[j] = r[j]
  OBVIOUS
<1>3. ASSUME NEW k \in 1..Len(t), t[k] \in Opt
      PROVE  Height(t, k - 1) >= 2
  <2>1. k - 1 \in Nat /\ \A j \in 1..k-1 : t[j] = r[j]
    BY <1>1, <1>2
  <2>2. Height(t, k - 1) = Height(r, k - 1)
    <3> DEFINE i == k - 1
    <3>1. i \in Nat /\ \A j \in 1..i : t[j] = r[j]
      BY <2>1
    <3> HIDE DEF i, t
    <3>2. \A S : Count(t, i, S) = Count(r, i, S)
      BY <3>1, CountAgree
    <3> QED
      BY <3>2 DEF i, Height
  <2>3. CASE k = Len(t)
    BY <1>1, <2>2, <2>3
  <2>4. CASE k # Len(t)
    <3>1. k \in 1..Len(r) /\ r[k] \in Opt
      BY <1>1, <1>2, <1>3, <2>4
    <3> QED
      BY <2>2, <3>1 DEF NeverUnderflows
  <2> QED
    BY <2>3, <2>4
<1>4. Height(t, Len(t)) = Height(r, Len(r)) - 1
  <2>1. /\ Count(t, Len(t), Opt) = Count(r, Len(r), Opt) + 1
        /\ Count(t, Len(t), Num) = Count(r, Len(r), Num)
    <3>1. e \notin Num
      OBVIOUS
    <3>2. Count(r, Len(r), Num) \in Nat
      BY <1>1, CountStep
    <3> QED
      BY <3>1, <3>2, CountAppend
  <2>2. Count(r, Len(r), Num) \in Nat /\ Count(r, Len(r), Opt) \in Nat
    BY <1>1, CountStep
  <2> QED
    BY <2>1, <2>2 DEF Height
<1> QED
  BY <1>3, <1>4 DEF NeverUnderflows

\* In an infix expression, what may come next is decided by that alone.
LEMMA TokenOfWellFormed ==
    ASSUME NEW m, WellFormed(m), NEW k \in 1..Len(m),
           Num \cap Opt = {}, (Num \cup Opt) \cap {"(", ")"} = {}
    PROVE  /\ m[k] \in Num \cup {"("} <=> ~OperandBefore(m, k)
           /\ m[k] \in Opt \cup {")"} <=> OperandBefore(m, k)
           /\ m[k] \in Num \cup {"("} \cup Opt \cup {")"}
<1>1. m \in Seq(Num \cup Opt \cup {"(", ")"}) /\ Len(m) \in Nat
  BY DEF WellFormed
<1>2. (Num \cup {"("}) \cap (Opt \cup {")"}) = {}
  OBVIOUS
<1>3. CASE k = 1
  <2>1. m[k] \in Num \cup {"("}
    BY <1>3 DEF WellFormed
  <2> QED
    BY <1>2, <1>3, <2>1 DEF OperandBefore
<1>4. CASE k # 1
  <2>1. k - 1 \in 1..Len(m)-1 /\ k > 1 /\ (k - 1) + 1 = k
    BY <1>1, <1>4
  <2>2. IF EndsOperand(m[k-1]) THEN m[k] \in Opt \cup {")"}
                               ELSE m[k] \in Num \cup {"("}
    BY <2>1 DEF WellFormed
  <2> QED
    BY <1>2, <2>1, <2>2 DEF OperandBefore
<1> QED
  BY <1>3, <1>4

\* In a prefix of an infix expression no more parentheses close than open.
LEMMA DepthOfWellFormed ==
    ASSUME NEW m, WellFormed(m), NEW k \in 1..Len(m)
    PROVE  /\ Depth(m, k) >= 0
           /\ Depth(m, k-1) \in Int
           /\ m[k] = "(" => Depth(m, k) = Depth(m, k-1) + 1
           /\ m[k] = ")" => Depth(m, k) = Depth(m, k-1) - 1
           /\ m[k] \notin {"(", ")"} => Depth(m, k) = Depth(m, k-1)
<1>1. k - 1 \in Nat /\ (k - 1) + 1 = k /\ k \in 0..Len(m)
  OBVIOUS
<1>2. \A S : /\ Count(m, k-1, S) \in Nat
             /\ Count(m, k, S) = Count(m, k-1, S) + IF m[k] \in S THEN 1 ELSE 0
  <2> DEFINE i == k - 1
  <2>1. i \in Nat /\ k = i + 1
    BY <1>1
  <2> HIDE DEF i
  <2>2. \A S : /\ Count(m, i, S) \in Nat
               /\ Count(m, i + 1, S) = Count(m, i, S) + IF m[i+1] \in S THEN 1 ELSE 0
    BY <2>1, CountStep
  <2> QED
    BY <2>1, <2>2 DEF i
<1>3. /\ Count(m, k-1, {"("}) \in Nat /\ Count(m, k-1, {")"}) \in Nat
      /\ Count(m, k, {"("}) = Count(m, k-1, {"("}) + IF m[k] = "(" THEN 1 ELSE 0
      /\ Count(m, k, {")"}) = Count(m, k-1, {")"}) + IF m[k] = ")" THEN 1 ELSE 0
  <2>1. \A p : m[k] \in {p} <=> m[k] = p
    OBVIOUS
  <2> QED
    BY <1>2, <2>1
<1>4. Depth(m, k) >= 0
  BY <1>1 DEF WellFormed
<1> QED
  BY <1>3, <1>4 DEF Depth

-----------------------------------------------------------------------------
\* A prefix of a stack is as long as it should be.
LEMMA PrefixLen ==
    ASSUME NEW A, NEW s \in Seq(A), NEW n \in 0..Len(s)
    PROVE  SubSeq(s, 1, n) \in Seq(A) /\ Len(SubSeq(s, 1, n)) = n
<1>1. n \in Nat /\ \A k \in 1..n : s[k] \in A
  OBVIOUS
<1>2. Len(SubSeq(s, 1, n)) = IF 1 <= n THEN n - 1 + 1 ELSE 0
  BY <1>1, SubSeqProperties
<1> QED
  BY <1>1, <1>2

\* A stack loses its last element and keeps the others.
LEMMA FrontProperties ==
    ASSUME NEW A, NEW s \in Seq(A), s # <<>>
    PROVE  /\ Front(s) \in Seq(A)
           /\ Len(Front(s)) = Len(s) - 1
           /\ \A k \in 1..Len(s)-1 : Front(s)[k] = s[k]
           /\ Last(s) \in A
           /\ Len(s) \in Nat \ {0}
<1>1. Len(s) \in Nat \ {0} /\ \A k \in 1..Len(s) : s[k] \in A
  OBVIOUS
<1>2. Front(s) \in Seq(A)
  BY <1>1 DEF Front
<1>3. Len(Front(s)) = Len(s) - 1
  <2> DEFINE n == Len(s) - 1
  <2>1. n \in 0..Len(s)
    BY <1>1
  <2> HIDE DEF n
  <2>2. Len(SubSeq(s, 1, n)) = n
    BY <2>1, PrefixLen
  <2> QED
    BY <2>2 DEF Front, n
<1>4. \A k \in 1..Len(s)-1 : Front(s)[k] = s[k]
  BY <1>1 DEF Front
<1> QED
  BY <1>1, <1>2, <1>3, <1>4 DEF Last

\* Only the loop over the tokens and the loop after it move anything to the
\* RPN queue: what they move is typed.
LEMMA QueueTypeStep ==
    ASSUME QueueTypeOK, Convert
    PROVE  QueueTypeOK' /\ pc' \in {"scan", "eval", "abort"}
<1> USE TokenAssumption DEF QueueTypeOK
<1>1. CASE Operand
  BY <1>1 DEF Operand, At, Advance
<1>2. CASE PopOperator
  <2>1. Last(tmp_opt_stk) \in Opt \cup {"#", "("} /\ Front(tmp_opt_stk) \in Seq(Opt \cup {"#", "("})
    BY <1>2, FrontProperties DEF PopOperator
  <2> QED
    BY <1>2, <2>1 DEF PopOperator, PopToRPN, At
<1>3. CASE PushOperator
  BY <1>3 DEF PushOperator, At, Advance
<1>4. CASE OpenParen
  BY <1>4 DEF OpenParen, At, Advance
<1>5. CASE PopInParen
  <2>1. Last(tmp_opt_stk) \in Opt \cup {"#", "("} /\ Front(tmp_opt_stk) \in Seq(Opt \cup {"#", "("})
    BY <1>5, FrontProperties DEF PopInParen
  <2> QED
    BY <1>5, <2>1 DEF PopInParen, PopToRPN, At
<1>6. CASE CloseParen
  <2>1. tmp_opt_stk # <<>> => Front(tmp_opt_stk) \in Seq(Opt \cup {"#", "("})
    BY <1>6, FrontProperties
  <2> QED
    BY <1>6, <2>1 DEF CloseParen, At, Advance
<1>7. CASE IllegalToken
  BY <1>7 DEF IllegalToken
<1>8. CASE Flush
  <2>1. tmp_opt_stk # <<>>
    BY <1>8 DEF Flush
  <2>2. Last(tmp_opt_stk) \in Opt \cup {"#", "("} /\ Front(tmp_opt_stk) \in Seq(Opt \cup {"#", "("})
    BY <2>1, FrontProperties
  <2> QED
    BY <1>8, <2>2 DEF Flush, PopToRPN
<1>9. CASE Return
  BY <1>9 DEF Return
<1> QED
  BY <1>1, <1>2, <1>3, <1>4, <1>5, <1>6, <1>7, <1>8, <1>9 DEF Convert

\* midExpr2RPN keeps its stack and its queues typed.
THEOREM ConvertTypeCorrect == ConvertSpec => []ConvertTypeOK
<1>1. ConvertInit => ConvertTypeOK
  BY TokenAssumption DEF ConvertInit, ConvertTypeOK, QueueTypeOK
<1>2. ConvertTypeOK /\ [Convert \/ Converted]_convertVars => ConvertTypeOK'
  <2> SUFFICES ASSUME ConvertTypeOK, [Convert \/ Converted]_convertVars
               PROVE  ConvertTypeOK'
    OBVIOUS
  <2>1. CASE Convert
    BY <2>1, QueueTypeStep DEF ConvertTypeOK
  <2>2. CASE UNCHANGED convertVars
    BY <2>2 DEF convertVars, ConvertTypeOK, QueueTypeOK
  <2> QED
    BY <2>1, <2>2 DEF Converted
<1> QED
  BY <1>1, <1>2, PTL DEF ConvertSpec

-----------------------------------------------------------------------------
(***************************************************************************)
(* The stack of an infix expression: the marker, and operators and open    *)
(* parentheses above it.                                                   *)
(***************************************************************************)
StackElement == Opt \cup {"#", "("}

\* A push leaves the marker where it is and adds one element to the counts.
LEMMA PushOnStack ==
    ASSUME QueueTypeOK, MarkerAtBottom, NEW e \in Opt \cup {"("},
           tmp_opt_stk' = Append(tmp_opt_stk, e)
    PROVE  /\ MarkerAtBottom'
           /\ \A S : Count(tmp_opt_stk, Len(tmp_opt_stk), S)'
                       = Count(tmp_opt_stk, Len(tmp_opt_stk), S)
                           + IF e \in S THEN 1 ELSE 0
<1>1. tmp_opt_stk \in Seq(StackElement) /\ e \in StackElement /\ e # "#"
  BY TokenAssumption DEF QueueTypeOK, StackElement
<1>2. MarkerAtBottom'
  BY <1>1 DEF MarkerAtBottom
<1>3. \A S : Count(Append(tmp_opt_stk, e), Len(Append(tmp_opt_stk, e)), S)
                = Count(tmp_opt_stk, Len(tmp_opt_stk), S) + IF e \in S THEN 1 ELSE 0
  BY <1>1, CountAppend
<1> QED
  BY <1>2, <1>3

\* A pop of anything but the marker takes one element from the counts.
LEMMA PopFromStack ==
    ASSUME QueueTypeOK, MarkerAtBottom, Last(tmp_opt_stk) # "#",
           tmp_opt_stk' = Front(tmp_opt_stk)
    PROVE  /\ MarkerAtBottom'
           /\ \A S : Count(tmp_opt_stk, Len(tmp_opt_stk), S)
                       = Count(tmp_opt_stk, Len(tmp_opt_stk), S)'
                           + IF Last(tmp_opt_stk) \in S THEN 1 ELSE 0
<1>1. tmp_opt_stk \in Seq(StackElement) /\ tmp_opt_stk # <<>>
  BY DEF QueueTypeOK, StackElement, MarkerAtBottom
<1>2. /\ Front(tmp_opt_stk) \in Seq(StackElement)
      /\ Len(Front(tmp_opt_stk)) = Len(tmp_opt_stk) - 1
      /\ \A k \in 1..Len(tmp_opt_stk)-1 : Front(tmp_opt_stk)[k] = tmp_opt_stk[k]
      /\ Len(tmp_opt_stk) \in Nat \ {0}
  BY <1>1, FrontProperties
<1>3. Len(tmp_opt_stk) # 1
  BY DEF MarkerAtBottom, Last
<1>4. MarkerAtBottom'
  BY <1>2, <1>3 DEF MarkerAtBottom
<1>5. \A S : Count(tmp_opt_stk, Len(tmp_opt_stk), S)
                = Count(Front(tmp_opt_stk), Len(Front(tmp_opt_stk)), S)
                    + IF Last(tmp_opt_stk) \in S THEN 1 ELSE 0
  BY <1>1, CountFront DEF Front, Last
<1> QED
  BY <1>4, <1>5

\* While a parenthesis is open, or more than one element is left, the top of
\* the stack is not the marker.
LEMMA MarkerNotOnTop ==
    ASSUME QueueTypeOK, MarkerAtBottom,
           \/ Count(tmp_opt_stk, Len(tmp_opt_stk), {"("}) > 0
           \/ Len(tmp_opt_stk) > 1
    PROVE  Last(tmp_opt_stk) # "#"
<1>1. Len(tmp_opt_stk) \in Nat \ {0}
  BY DEF QueueTypeOK, MarkerAtBottom
<1>2. CASE Len(tmp_opt_stk) > 1
  BY <1>1, <1>2 DEF MarkerAtBottom, Last
<1>3. CASE Count(tmp_opt_stk, Len(tmp_opt_stk), {"("}) > 0
  <2>1. PICK j \in 1..Len(tmp_opt_stk) : tmp_opt_stk[j] \in {"("}
    BY <1>1, <1>3, CountPositive
  <2>2. j # 1
    BY <2>1 DEF MarkerAtBottom
  <2> QED
    BY <1>1, <1>2, <2>2
<1> QED
  BY <1>2, <1>3

\* An operator on the stack has its two operands in the RPN queue once one has
\* just ended: it may be moved there.  This is what the three loops that pop
\* operators have in common.
LEMMA OperatorToRPN ==
    ASSUME QueueTypeOK, ConvertInv, WellFormed(mid_op_stk), pc = "scan",
           OperandBefore(mid_op_stk, token),
           Last(tmp_opt_stk) \in Opt, PopToRPN
    PROVE  ConvertInv'
<1> DEFINE opt == Last(tmp_opt_stk)
<1>1. /\ MarkerAtBottom /\ OpenParensOnStack /\ OperandBalance
      /\ rpn_op_stk \in Seq(Num \cup Opt) /\ NeverUnderflows(rpn_op_stk)
  BY DEF ConvertInv, RPNSoFar
<1>2. /\ MarkerAtBottom'
      /\ \A S : Count(tmp_opt_stk, Len(tmp_opt_stk), S)
                  = Count(tmp_opt_stk, Len(tmp_opt_stk), S)'
                      + IF opt \in S THEN 1 ELSE 0
  BY <1>1, TokenAssumption, PopFromStack DEF PopToRPN
<1>3. Len(tmp_opt_stk') \in Nat /\ \A S : Count(tmp_opt_stk, Len(tmp_opt_stk), S)' \in Nat
  <2>1. tmp_opt_stk # <<>> /\ tmp_opt_stk \in Seq(StackElement)
    BY <1>1 DEF MarkerAtBottom, QueueTypeOK, StackElement
  <2>2. Len(tmp_opt_stk') \in Nat
    BY <2>1, FrontProperties DEF PopToRPN
  <2> QED
    BY <2>2, CountStep
<1>4. OpenParensOnStack'
  <2>1. opt \notin {"("}
    BY TokenAssumption
  <2>2. Count(tmp_opt_stk, Len(tmp_opt_stk), {"("})
           = Count(tmp_opt_stk, Len(tmp_opt_stk), {"("})'
    BY <1>2, <1>3, <2>1
  <2> QED
    BY <1>1, <2>2 DEF OpenParensOnStack, PopToRPN
<1>5. /\ Count(tmp_opt_stk, Len(tmp_opt_stk), Opt) =
            Count(tmp_opt_stk, Len(tmp_opt_stk), Opt)' + 1
      /\ Height(rpn_op_stk, Len(rpn_op_stk)) =
            Count(tmp_opt_stk, Len(tmp_opt_stk), Opt)' + 2
  <2>1. Count(tmp_opt_stk, Len(tmp_opt_stk), Opt) =
            Count(tmp_opt_stk, Len(tmp_opt_stk), Opt)' + 1
    BY <1>2
  <2> QED
    BY <1>1, <1>3, <2>1 DEF OperandBalance
<1>6. /\ rpn_op_stk' \in Seq(Num \cup Opt)
      /\ NeverUnderflows(rpn_op_stk)'
      /\ Height(rpn_op_stk, Len(rpn_op_stk))' = Height(rpn_op_stk, Len(rpn_op_stk)) - 1
  <2>1. Height(rpn_op_stk, Len(rpn_op_stk)) >= 2
    BY <1>3, <1>5
  <2>2. rpn_op_stk' = Append(rpn_op_stk, opt)
    BY DEF PopToRPN
  <2> QED
    BY <1>1, <2>1, <2>2, TokenAssumption, AppendOperator
<1>7. OperandBalance'
  <2>1. OperandBefore(mid_op_stk, token)'
    BY DEF PopToRPN
  <2> QED
    BY <1>3, <1>5, <1>6, <2>1 DEF OperandBalance
<1> QED
  BY <1>2, <1>4, <1>6, <1>7 DEF ConvertInv, RPNSoFar, PopToRPN
\* What the properties of infix expressions say of the loop's token.
LEMMA AtToken ==
    ASSUME QueueTypeOK, ConvertInv, WellFormed(mid_op_stk),
           pc = "scan", token <= Len(mid_op_stk)
    PROVE  LET t == mid_op_stk[token] IN
           /\ token \in 1..Len(mid_op_stk) /\ token \in Nat
           /\ t \in Num \cup {"("} <=> ~OperandBefore(mid_op_stk, token)
           /\ t \in Opt \cup {")"} <=> OperandBefore(mid_op_stk, token)
           /\ t \in Num \cup {"("} \cup Opt \cup {")"}
           /\ token' = token + 1 /\ UNCHANGED mid_op_stk =>
                 OperandBefore(mid_op_stk, token)' = EndsOperand(t)
<1>1. token \in 1..Len(mid_op_stk) /\ token \in Nat
  BY DEF QueueTypeOK
<1>2. token' = token + 1 /\ UNCHANGED mid_op_stk =>
         OperandBefore(mid_op_stk, token)' = EndsOperand(mid_op_stk[token])
  <2> SUFFICES ASSUME token' = token + 1, UNCHANGED mid_op_stk
               PROVE  OperandBefore(mid_op_stk, token)' = EndsOperand(mid_op_stk[token])
    OBVIOUS
  <2>1. token' > 1 /\ token' - 1 = token
    BY <1>1
  <2> QED
    BY <2>1 DEF OperandBefore, EndsOperand
<1> QED
  BY <1>1, <1>2, TokenOfWellFormed, TokenAssumption

\* What a trip round one of the popping loops takes from the stack is an operator
\* whose operands are there.
LEMMA TopIsOperator ==
    ASSUME QueueTypeOK, ConvertInv, WellFormed(mid_op_stk),
           PopOperator \/ PopInParen \/ Flush
    PROVE  /\ OperandBefore(mid_op_stk, token)
           /\ Last(tmp_opt_stk) \in Opt /\ Len(tmp_opt_stk) >= 2
           /\ PopToRPN /\ pc = "scan"
<1>1. pc = "scan" /\ PopToRPN
  BY DEF PopOperator, PopInParen, Flush, At
<1>2. MarkerAtBottom /\ OpenParensOnStack
  BY DEF ConvertInv
<1>3. /\ tmp_opt_stk \in Seq(StackElement) /\ tmp_opt_stk # <<>>
      /\ Last(tmp_opt_stk) \in StackElement /\ Len(tmp_opt_stk) \in Nat \ {0}
  <2>1. tmp_opt_stk \in Seq(StackElement) /\ tmp_opt_stk # <<>>
    BY <1>2 DEF MarkerAtBottom, QueueTypeOK, StackElement
  <2> QED
    BY <2>1, FrontProperties
<1>4. ASSUME PopOperator
      PROVE  OperandBefore(mid_op_stk, token) /\ Last(tmp_opt_stk) \in Opt
  <2>1. token <= Len(mid_op_stk) /\ mid_op_stk[token] \in Opt
    BY <1>4 DEF PopOperator, At
  <2>2. Last(tmp_opt_stk) \in Opt
    BY <1>3, <1>4 DEF PopOperator, OptLess, StackElement
  <2>3. OperandBefore(mid_op_stk, token)
    BY <1>1, <2>1, AtToken
  <2> QED
    BY <2>2, <2>3
<1>5. ASSUME PopInParen
      PROVE  OperandBefore(mid_op_stk, token) /\ Last(tmp_opt_stk) \in Opt
  <2>1. token <= Len(mid_op_stk) /\ mid_op_stk[token] = ")"
    BY <1>5 DEF PopInParen, At
  <2>2. token \in 1..Len(mid_op_stk) /\ OperandBefore(mid_op_stk, token)
    BY <1>1, <2>1, AtToken
  <2>3. Depth(mid_op_stk, token - 1) > 0
    BY <2>1, <2>2, DepthOfWellFormed
  <2>4. Last(tmp_opt_stk) # "#"
    BY <1>2, <2>3, MarkerNotOnTop DEF OpenParensOnStack
  <2>5. Last(tmp_opt_stk) \in Opt
    BY <1>3, <1>5, <2>4 DEF PopInParen, StackElement
  <2> QED
    BY <2>2, <2>5
<1>6. ASSUME Flush
      PROVE  OperandBefore(mid_op_stk, token) /\ Last(tmp_opt_stk) \in Opt
  <2>1. token = Len(mid_op_stk) + 1 /\ Len(mid_op_stk) \in Nat \ {0}
    <3>1. mid_op_stk # <<>>
      BY DEF WellFormed
    <3> QED
      BY <1>6, <3>1 DEF Flush, QueueTypeOK
  <2>2. OperandBefore(mid_op_stk, token)
    BY <2>1 DEF WellFormed, OperandBefore
  <2>3. Last(tmp_opt_stk) # "#"
    BY <1>2, <1>6, MarkerNotOnTop DEF Flush
  <2>4. Last(tmp_opt_stk) # "("
    <3>1. Count(tmp_opt_stk, Len(tmp_opt_stk), {"("}) = 0
      BY <1>2, <2>1 DEF OpenParensOnStack, WellFormed
    <3>2. ASSUME Last(tmp_opt_stk) = "("
          PROVE  Count(tmp_opt_stk, Len(tmp_opt_stk), {"("}) > 0
      <4> DEFINE f == SubSeq(tmp_opt_stk, 1, Len(tmp_opt_stk) - 1)
      <4>1. Count(tmp_opt_stk, Len(tmp_opt_stk), {"("}) = Count(f, Len(f), {"("}) + 1
        BY <1>3, <3>2, CountFront DEF Last
      <4>2. Len(f) \in Nat
        BY <1>3, FrontProperties DEF Front
      <4>3. Count(f, Len(f), {"("}) \in Nat
        BY <4>2, CountStep
      <4> QED
        BY <4>1, <4>3
    <3> QED
      BY <3>1, <3>2
  <2> QED
    BY <1>3, <2>2, <2>3, <2>4 DEF StackElement
<1>7. OperandBefore(mid_op_stk, token) /\ Last(tmp_opt_stk) \in Opt
  BY <1>4, <1>5, <1>6
<1>8. Len(tmp_opt_stk) >= 2
  <2> DEFINE n == Len(tmp_opt_stk)
  <2>1. n \in Nat /\ n # 0
    BY <1>3
  <2>2. n # 1
    BY <1>2, <1>7, TokenAssumption DEF MarkerAtBottom, Last
  <2> HIDE DEF n
  <2>3. n >= 2
    BY <2>1, <2>2
  <2> QED
    BY <2>3 DEF n
<1> QED
  BY <1>1, <1>7, <1>8

\* One step of midExpr2RPN on an infix expression keeps the invariant.
LEMMA ConvertInvStep ==
    ASSUME QueueTypeOK, ConvertInv, Convert
    PROVE  ConvertInv'
<1> SUFFICES ASSUME WellFormed(mid_op_stk)'
             PROVE  ConvertInv'
  BY DEF ConvertInv
<1>1. UNCHANGED mid_op_stk /\ pc = "scan"
  BY DEF Convert, Operand, PopOperator, PushOperator, OpenParen, PopInParen,
         CloseParen, IllegalToken, Flush, Return, At, Advance, PopToRPN
<1>2. WellFormed(mid_op_stk)
  BY <1>1
<1>3. /\ MarkerAtBottom /\ OpenParensOnStack /\ OperandBalance
      /\ rpn_op_stk \in Seq(Num \cup Opt) /\ NeverUnderflows(rpn_op_stk)
  BY <1>2 DEF ConvertInv, RPNSoFar
<1>4. /\ tmp_opt_stk \in Seq(StackElement) /\ tmp_opt_stk # <<>>
      /\ Last(tmp_opt_stk) \in StackElement /\ Len(tmp_opt_stk) \in Nat \ {0}
      /\ \A S : Count(tmp_opt_stk, Len(tmp_opt_stk), S) \in Nat
  <2>1. tmp_opt_stk \in Seq(StackElement) /\ tmp_opt_stk # <<>>
    BY <1>3 DEF MarkerAtBottom, QueueTypeOK, StackElement
  <2>2. Last(tmp_opt_stk) \in StackElement /\ Len(tmp_opt_stk) \in Nat \ {0}
    BY <2>1, FrontProperties
  <2> QED
    BY <2>1, <2>2, CountStep
<1>5. Height(rpn_op_stk, Len(rpn_op_stk)) \in Int
  BY <1>3, HeightType
<1>6. CASE Operand
  <2> DEFINE t == mid_op_stk[token]
  <2>1. t \in Num /\ token <= Len(mid_op_stk)
    BY <1>6 DEF Operand, At
  <2>2. ~OperandBefore(mid_op_stk, token) /\ OperandBefore(mid_op_stk, token)'
    BY <1>1, <1>2, <1>6, <2>1, AtToken DEF Operand, Advance, EndsOperand
  <2>3. OpenParensOnStack'
    <3>1. token \in 1..Len(mid_op_stk)
      BY <1>1, <1>2, <2>1, AtToken
    <3>2. Depth(mid_op_stk, token) = Depth(mid_op_stk, token - 1)
      BY <1>2, <2>1, <3>1, TokenAssumption, DepthOfWellFormed
    <3>3. token' - 1 = token
      BY <1>6, <3>1 DEF Operand, Advance
    <3> QED
      BY <1>3, <1>6, <3>2, <3>3 DEF OpenParensOnStack, Operand, Advance
  <2>4. RPNSoFar' /\ OperandBalance'
    <3>1. /\ rpn_op_stk' \in Seq(Num \cup Opt)
          /\ NeverUnderflows(rpn_op_stk)'
          /\ Height(rpn_op_stk, Len(rpn_op_stk))' = Height(rpn_op_stk, Len(rpn_op_stk)) + 1
      BY <1>3, <1>6, <2>1, TokenAssumption, AppendOperand DEF Operand
    <3> QED
      BY <1>3, <1>4, <1>5, <1>6, <2>2, <3>1 DEF OperandBalance, RPNSoFar, Operand
  <2>5. MarkerAtBottom'
    BY <1>3, <1>6 DEF MarkerAtBottom, Operand
  <2> QED
    BY <1>1, <1>6, <2>3, <2>4, <2>5 DEF ConvertInv, Operand, Advance
<1>7. CASE PopOperator \/ PopInParen \/ Flush
  BY <1>2, <1>7, TopIsOperator, OperatorToRPN
<1>8. CASE PushOperator
  <2> DEFINE t == mid_op_stk[token]
  <2>1. t \in Opt /\ token <= Len(mid_op_stk)
    BY <1>8 DEF PushOperator, At
  <2>2. OperandBefore(mid_op_stk, token) /\ ~OperandBefore(mid_op_stk, token)'
    BY <1>1, <1>2, <1>8, <2>1, TokenAssumption, AtToken
       DEF PushOperator, Advance, EndsOperand
  <2>3. /\ MarkerAtBottom'
        /\ \A S : Count(tmp_opt_stk, Len(tmp_opt_stk), S)'
                    = Count(tmp_opt_stk, Len(tmp_opt_stk), S) + IF t \in S THEN 1 ELSE 0
    BY <1>3, <1>8, <2>1, PushOnStack DEF PushOperator
  <2>4. OpenParensOnStack'
    <3>1. token \in 1..Len(mid_op_stk)
      BY <1>1, <1>2, <2>1, AtToken
    <3>2. Depth(mid_op_stk, token) = Depth(mid_op_stk, token - 1)
      BY <1>2, <2>1, <3>1, TokenAssumption, DepthOfWellFormed
    <3>3. token' - 1 = token
      BY <1>8, <3>1 DEF PushOperator, Advance
    <3>4. t \notin {"("}
      BY <2>1, TokenAssumption
    <3>5. Count(tmp_opt_stk, Len(tmp_opt_stk), {"("})'
             = Count(tmp_opt_stk, Len(tmp_opt_stk), {"("})
      BY <1>4, <2>3, <3>4
    <3> QED
      BY <1>1, <1>3, <3>2, <3>3, <3>5 DEF OpenParensOnStack
  <2>5. OperandBalance'
    <3>1. Count(tmp_opt_stk, Len(tmp_opt_stk), Opt)'
             = Count(tmp_opt_stk, Len(tmp_opt_stk), Opt) + 1
      BY <2>1, <2>3
    <3>2. UNCHANGED rpn_op_stk
      BY <1>8 DEF PushOperator
    <3> QED
      BY <1>3, <1>4, <1>5, <2>2, <3>1, <3>2 DEF OperandBalance
  <2>6. RPNSoFar'
    BY <1>3, <1>8 DEF RPNSoFar, PushOperator
  <2> QED
    BY <1>1, <1>8, <2>3, <2>4, <2>5, <2>6 DEF ConvertInv, PushOperator, Advance
<1>9. CASE OpenParen
  <2> DEFINE t == mid_op_stk[token]
  <2>1. t = "(" /\ token <= Len(mid_op_stk)
    BY <1>9 DEF OpenParen, At
  <2>2. ~OperandBefore(mid_op_stk, token) /\ ~OperandBefore(mid_op_stk, token)'
    BY <1>1, <1>2, <1>9, <2>1, TokenAssumption, AtToken
       DEF OpenParen, Advance, EndsOperand
  <2>3. /\ MarkerAtBottom'
        /\ \A S : Count(tmp_opt_stk, Len(tmp_opt_stk), S)'
                    = Count(tmp_opt_stk, Len(tmp_opt_stk), S) + IF t \in S THEN 1 ELSE 0
    BY <1>3, <1>9, <2>1, PushOnStack DEF OpenParen
  <2>4. OpenParensOnStack'
    <3>1. token \in 1..Len(mid_op_stk)
      BY <1>1, <1>2, <2>1, AtToken
    <3>2. /\ Depth(mid_op_stk, token) = Depth(mid_op_stk, token - 1) + 1
          /\ Depth(mid_op_stk, token - 1) \in Int
      BY <1>2, <2>1, <3>1, DepthOfWellFormed
    <3>3. token' - 1 = token
      BY <1>9, <3>1 DEF OpenParen, Advance
    <3>4. Count(tmp_opt_stk, Len(tmp_opt_stk), {"("})'
             = Count(tmp_opt_stk, Len(tmp_opt_stk), {"("}) + 1
      BY <2>1, <2>3
    <3> QED
      BY <1>1, <1>3, <3>2, <3>3, <3>4 DEF OpenParensOnStack
  <2>5. OperandBalance'
    <3>1. t \notin Opt
      BY <2>1, TokenAssumption
    <3>2. Count(tmp_opt_stk, Len(tmp_opt_stk), Opt)'
             = Count(tmp_opt_stk, Len(tmp_opt_stk), Opt)
      BY <1>4, <2>3, <3>1
    <3>3. UNCHANGED rpn_op_stk
      BY <1>9 DEF OpenParen
    <3> QED
      BY <1>3, <2>2, <3>2, <3>3 DEF OperandBalance
  <2>6. RPNSoFar'
    BY <1>3, <1>9 DEF RPNSoFar, OpenParen
  <2> QED
    BY <1>1, <1>9, <2>3, <2>4, <2>5, <2>6 DEF ConvertInv, OpenParen, Advance
<1>10. CASE CloseParen
  <2> DEFINE t == mid_op_stk[token]
  <2>1. t = ")" /\ token <= Len(mid_op_stk)
    BY <1>10 DEF CloseParen, At
  <2>2. OperandBefore(mid_op_stk, token) /\ OperandBefore(mid_op_stk, token)'
    BY <1>1, <1>2, <1>10, <2>1, AtToken DEF CloseParen, Advance, EndsOperand
  <2>3. Last(tmp_opt_stk) = "(" /\ tmp_opt_stk' = Front(tmp_opt_stk)
    BY <1>4, <1>10 DEF CloseParen
  <2>4. /\ MarkerAtBottom'
        /\ \A S : Count(tmp_opt_stk, Len(tmp_opt_stk), S)
                    = Count(tmp_opt_stk, Len(tmp_opt_stk), S)'
                        + IF "(" \in S THEN 1 ELSE 0
    BY <1>3, <2>3, PopFromStack
  <2>5. \A S : Count(tmp_opt_stk, Len(tmp_opt_stk), S)' \in Nat
    <3>1. Len(tmp_opt_stk') \in Nat
      BY <1>4, <2>3, FrontProperties
    <3> QED
      BY <3>1, CountStep
  <2>6. OpenParensOnStack'
    <3>1. token \in 1..Len(mid_op_stk)
      BY <1>1, <1>2, <2>1, AtToken
    <3>2. /\ Depth(mid_op_stk, token) = Depth(mid_op_stk, token - 1) - 1
          /\ Depth(mid_op_stk, token - 1) \in Int
      BY <1>2, <2>1, <3>1, DepthOfWellFormed
    <3>3. token' - 1 = token
      BY <1>10, <3>1 DEF CloseParen, Advance
    <3>4. Count(tmp_opt_stk, Len(tmp_opt_stk), {"("})
             = Count(tmp_opt_stk, Len(tmp_opt_stk), {"("})' + 1
      BY <2>4
    <3> QED
      BY <1>1, <1>3, <2>5, <3>2, <3>3, <3>4 DEF OpenParensOnStack
  <2>7. OperandBalance'
    <3>1. Count(tmp_opt_stk, Len(tmp_opt_stk), Opt)
             = Count(tmp_opt_stk, Len(tmp_opt_stk), Opt)'
      BY <2>4, <2>5, TokenAssumption
    <3>2. UNCHANGED rpn_op_stk
      BY <1>10 DEF CloseParen
    <3> QED
      BY <1>3, <2>2, <3>1, <3>2 DEF OperandBalance
  <2>8. RPNSoFar'
    BY <1>3, <1>10 DEF RPNSoFar, CloseParen
  <2> QED
    BY <1>1, <1>10, <2>4, <2>6, <2>7, <2>8 DEF ConvertInv, CloseParen, Advance
<1>11. CASE IllegalToken
  <2>1. token <= Len(mid_op_stk)
        /\ mid_op_stk[token] \notin Num \cup {"("} \cup Opt \cup {")"}
    BY <1>11 DEF IllegalToken, At
  <2> QED
    BY <1>1, <1>2, <2>1, AtToken
<1>12. CASE Return
  <2>1. UNCHANGED <<mid_op_stk, token, tmp_opt_stk, rpn_op_stk>>
    BY <1>12 DEF Return
  <2>2. MarkerAtBottom' /\ OpenParensOnStack' /\ OperandBalance' /\ RPNSoFar'
    BY <1>3, <2>1 DEF MarkerAtBottom, OpenParensOnStack, OperandBalance, RPNSoFar
  <2>3. token > Len(mid_op_stk) /\ Len(tmp_opt_stk) = 1
    <3>1. Len(tmp_opt_stk) \in Nat \ {0}
      BY <1>4
    <3> QED
      BY <1>12, <3>1 DEF Return
  <2> QED
    BY <2>1, <2>2, <2>3 DEF ConvertInv
<1> QED
  BY <1>6, <1>7, <1>8, <1>9, <1>10, <1>11, <1>12 DEF Convert

\* The state in which midExpr2RPN starts, on any queue.
ConvertBegins ==
    /\ mid_op_stk \in Seq(Token) /\ token = 1 /\ pc = "scan"
    /\ tmp_opt_stk = <<"#">> /\ rpn_op_stk = <<>>

\* At the start the stack holds the marker alone.
LEMMA ConvertInvInit ==
    ASSUME ConvertBegins
    PROVE  ConvertInv
<1>1. /\ mid_op_stk \in Seq(Token) /\ token = 1 /\ pc = "scan"
      /\ tmp_opt_stk = <<"#">> /\ rpn_op_stk = <<>>
  BY DEF ConvertBegins
<1>2. \A S : Count(mid_op_stk, 0, S) = 0 /\ Count(<<>>, 0, S) = 0
  BY CountZero
<1>3. \A S : Count(<<"#">>, 1, S) = IF "#" \in S THEN 1 ELSE 0
  <2>1. \A S : Count(<<"#">>, 0 + 1, S)
                 = Count(<<"#">>, 0, S) + IF <<"#">>[0 + 1] \in S THEN 1 ELSE 0
    BY CountStep
  <2>2. \A S : Count(<<"#">>, 0, S) = 0
    BY CountZero
  <2> QED
    BY <2>1, <2>2
<1>4. MarkerAtBottom
  BY <1>1 DEF MarkerAtBottom
<1>5. OpenParensOnStack
  BY <1>1, <1>2, <1>3 DEF OpenParensOnStack, Depth
<1>6. OperandBalance
  <2>1. "#" \notin Opt
    BY TokenAssumption
  <2> QED
    BY <1>1, <1>2, <1>3, <2>1 DEF OperandBalance, OperandBefore, Height
<1>7. RPNSoFar
  BY <1>1 DEF RPNSoFar, NeverUnderflows
<1> QED
  BY <1>1, <1>4, <1>5, <1>6, <1>7 DEF ConvertInv

\* The loops of midExpr2RPN keep the invariant on every infix expression.
THEOREM ConvertInvariant == ConvertSpec => []ConvertInv
<1>1. ConvertInit => ConvertInv
  BY ConvertInvInit, TokenAssumption DEF ConvertInit, ConvertBegins
<1>2. ConvertTypeOK /\ ConvertInv /\ [Convert \/ Converted]_convertVars => ConvertInv'
  <2> SUFFICES ASSUME ConvertTypeOK, ConvertInv, [Convert \/ Converted]_convertVars
               PROVE  ConvertInv'
    OBVIOUS
  <2>1. CASE Convert
    BY <2>1, ConvertInvStep DEF ConvertTypeOK
  <2>2. CASE UNCHANGED convertVars
    BY <2>2 DEF convertVars, ConvertInv, MarkerAtBottom, OpenParensOnStack,
                OperandBalance, RPNSoFar
  <2> QED
    BY <2>1, <2>2 DEF Converted
<1> QED
  BY <1>1, <1>2, ConvertTypeCorrect, PTL DEF ConvertSpec

\* Where the invariant holds and only the marker is left, the queue is an RPN
\* expression.
LEMMA MarkerLeftIsRPN ==
    ASSUME QueueTypeOK, ConvertInv, WellFormed(mid_op_stk), pc # "scan"
    PROVE  IsRPN(rpn_op_stk)
<1>1. /\ MarkerAtBottom /\ OperandBalance /\ RPNSoFar
      /\ token > Len(mid_op_stk) /\ Len(tmp_opt_stk) = 1
  BY DEF ConvertInv
<1>2. OperandBefore(mid_op_stk, token)
  <2>1. mid_op_stk # <<>>
    BY DEF WellFormed
  <2>2. token = Len(mid_op_stk) + 1 /\ Len(mid_op_stk) \in Nat \ {0}
    BY <1>1, <2>1 DEF QueueTypeOK
  <2> QED
    BY <2>2 DEF WellFormed, OperandBefore
<1>3. Count(tmp_opt_stk, 1, Opt) = 0
  <2>1. tmp_opt_stk[0 + 1] \notin Opt
    BY <1>1, TokenAssumption DEF MarkerAtBottom
  <2>2. Count(tmp_opt_stk, 0 + 1, Opt) = 0 + 0
    BY <2>1, CountStep, CountZero
  <2> QED
    BY <2>2
<1>4. Height(rpn_op_stk, Len(rpn_op_stk)) = 1
  BY <1>1, <1>2, <1>3 DEF OperandBalance
<1> QED
  BY <1>1, <1>4 DEF IsRPN, RPNSoFar

\* midExpr2RPN makes an RPN expression of every infix expression.
THEOREM ConvertResult == ConvertSpec => []ResultIsRPN
<1>1. ConvertTypeOK /\ ConvertInv => ResultIsRPN
  BY MarkerLeftIsRPN DEF ConvertTypeOK, ResultIsRPN
<1> QED
  BY <1>1, ConvertTypeCorrect, ConvertInvariant, PTL

-----------------------------------------------------------------------------
\* A token that the loop passes adds to the count of what has been read.
LEMMA CountRead ==
    ASSUME QueueTypeOK, token <= Len(mid_op_stk), token' = token + 1,
           UNCHANGED mid_op_stk, NEW t
    PROVE  /\ Count(mid_op_stk, token - 1, {t}) \in Nat
           /\ Count(mid_op_stk, token - 1, {t})'
                = Count(mid_op_stk, token - 1, {t})
                    + IF mid_op_stk[token] = t THEN 1 ELSE 0
<1> DEFINE i == token - 1
<1>1. i \in Nat /\ i + 1 = token /\ (token - 1)' = i + 1
  BY DEF QueueTypeOK
<1> HIDE DEF i
<1>2. /\ Count(mid_op_stk, i, {t}) \in Nat
      /\ Count(mid_op_stk, i + 1, {t})
            = Count(mid_op_stk, i, {t}) + IF mid_op_stk[i + 1] \in {t} THEN 1 ELSE 0
  BY <1>1, CountStep
<1> QED
  BY <1>1, <1>2 DEF i

\* The top of the stack moves to the RPN queue: the counts move with it.
LEMMA CountMoved ==
    ASSUME QueueTypeOK, NothingLost, PopToRPN, tmp_opt_stk # <<>>
    PROVE  NothingLost'
<1> DEFINE T == Num \cup Opt \cup {"#", "("}
           e == Last(tmp_opt_stk)
<1>1. tmp_opt_stk \in Seq(T) /\ rpn_op_stk \in Seq(T)
  BY DEF QueueTypeOK
<1>2. e \in T /\ Len(tmp_opt_stk') \in Nat /\ Len(rpn_op_stk) \in Nat
  BY <1>1, FrontProperties DEF PopToRPN
<1>3. ASSUME NEW t \in Num \cup Opt
      PROVE  Count(rpn_op_stk, Len(rpn_op_stk), {t})'
               + Count(tmp_opt_stk, Len(tmp_opt_stk), {t})'
             = Count(rpn_op_stk, Len(rpn_op_stk), {t})
               + Count(tmp_opt_stk, Len(tmp_opt_stk), {t})
  <2>1. Count(rpn_op_stk, Len(rpn_op_stk), {t})'
          = Count(rpn_op_stk, Len(rpn_op_stk), {t}) + IF e \in {t} THEN 1 ELSE 0
    BY <1>1, <1>2, CountAppend DEF PopToRPN
  <2>2. Count(tmp_opt_stk, Len(tmp_opt_stk), {t})
          = Count(tmp_opt_stk, Len(tmp_opt_stk), {t})' + IF e \in {t} THEN 1 ELSE 0
    BY <1>1, CountFront DEF PopToRPN, Front, Last
  <2>3. /\ Count(rpn_op_stk, Len(rpn_op_stk), {t}) \in Nat
        /\ Count(tmp_opt_stk, Len(tmp_opt_stk), {t})' \in Nat
    BY <1>2, CountStep
  <2> QED
    BY <2>1, <2>2, <2>3
<1> QED
  BY <1>3 DEF NothingLost, PopToRPN

\* No step of midExpr2RPN, on any queue, loses an operand or an operator.
LEMMA NothingLostStep ==
    ASSUME QueueTypeOK, NothingLost, Convert
    PROVE  NothingLost'
<1> DEFINE T == Num \cup Opt \cup {"#", "("}
           R(t) == Count(rpn_op_stk, Len(rpn_op_stk), {t})
           S(t) == Count(tmp_opt_stk, Len(tmp_opt_stk), {t})
           M(t) == Count(mid_op_stk, token - 1, {t})
<1>1. /\ tmp_opt_stk \in Seq(T) /\ rpn_op_stk \in Seq(T)
      /\ Len(tmp_opt_stk) \in Nat /\ Len(rpn_op_stk) \in Nat
  BY DEF QueueTypeOK
<1>2. \A t : R(t) \in Nat /\ S(t) \in Nat
  BY <1>1, CountStep
<1>3. \A t \in Num \cup Opt : R(t) + S(t) = M(t)
  BY DEF NothingLost
<1>4. CASE Operand
  <2>1. /\ mid_op_stk[token] \in T /\ UNCHANGED <<mid_op_stk, tmp_opt_stk>>
        /\ token <= Len(mid_op_stk) /\ token' = token + 1
        /\ rpn_op_stk' = Append(rpn_op_stk, mid_op_stk[token])
    BY <1>4 DEF Operand, At, Advance
  <2>2. \A t : M(t)' = M(t) + IF mid_op_stk[token] = t THEN 1 ELSE 0
    BY <2>1, CountRead
  <2>3. \A t : R(t)' = R(t) + IF mid_op_stk[token] \in {t} THEN 1 ELSE 0
    BY <1>1, <2>1, CountAppend
  <2>4. \A t : S(t)' = S(t)
    BY <2>1
  <2>5. ASSUME NEW t \in Num \cup Opt PROVE R(t)' + S(t)' = M(t)'
    <3> HIDE DEF R, S, M
    <3>1. CASE mid_op_stk[token] = t
      BY <1>2, <1>3, <2>2, <2>3, <2>4, <3>1
    <3>2. CASE mid_op_stk[token] # t
      BY <1>2, <1>3, <2>2, <2>3, <2>4, <3>2
    <3> QED
      BY <3>1, <3>2
  <2> QED
    BY <2>5 DEF NothingLost
<1>5. CASE PushOperator
  <2>1. /\ mid_op_stk[token] \in T /\ UNCHANGED <<mid_op_stk, rpn_op_stk>>
        /\ token <= Len(mid_op_stk) /\ token' = token + 1
        /\ tmp_opt_stk' = Append(tmp_opt_stk, mid_op_stk[token])
    BY <1>5 DEF PushOperator, At, Advance
  <2>2. \A t : M(t)' = M(t) + IF mid_op_stk[token] = t THEN 1 ELSE 0
    BY <2>1, CountRead
  <2>3. \A t : S(t)' = S(t) + IF mid_op_stk[token] \in {t} THEN 1 ELSE 0
    BY <1>1, <2>1, CountAppend
  <2>4. \A t : R(t)' = R(t)
    BY <2>1
  <2>5. ASSUME NEW t \in Num \cup Opt PROVE R(t)' + S(t)' = M(t)'
    <3> HIDE DEF R, S, M
    <3>1. CASE mid_op_stk[token] = t
      BY <1>2, <1>3, <2>2, <2>3, <2>4, <3>1
    <3>2. CASE mid_op_stk[token] # t
      BY <1>2, <1>3, <2>2, <2>3, <2>4, <3>2
    <3> QED
      BY <3>1, <3>2
  <2> QED
    BY <2>5 DEF NothingLost
<1>6. CASE OpenParen
  <2>1. /\ mid_op_stk[token] = "(" /\ UNCHANGED <<mid_op_stk, rpn_op_stk>>
        /\ token <= Len(mid_op_stk) /\ token' = token + 1
        /\ tmp_opt_stk' = Append(tmp_opt_stk, "(")
    BY <1>6 DEF OpenParen, At, Advance
  <2>2. ASSUME NEW t \in Num \cup Opt
        PROVE  M(t)' = M(t) /\ S(t)' = S(t) /\ R(t)' = R(t)
    <3>1. t # "(" /\ "(" \in T
      BY TokenAssumption
    <3>2. M(t) \in Nat /\ M(t)' = M(t) + IF mid_op_stk[token] = t THEN 1 ELSE 0
      BY <2>1, CountRead
    <3>3. S(t)' = S(t)
      <4>1. S(t)' = S(t) + IF "(" \in {t} THEN 1 ELSE 0
        BY <1>1, <2>1, <3>1, CountAppend
      <4>2. S(t) \in Nat /\ "(" \notin {t}
        BY <1>2, <3>1
      <4> HIDE DEF S
      <4> QED
        BY <4>1, <4>2
    <3>4. M(t)' = M(t)
      BY <2>1, <3>1, <3>2
    <3>5. R(t)' = R(t)
      BY <2>1
    <3> QED
      BY <3>3, <3>4, <3>5
  <2>3. \A t \in Num \cup Opt : R(t)' + S(t)' = M(t)'
    BY <1>3, <2>2
  <2> QED
    BY <2>3 DEF NothingLost
<1>7. CASE CloseParen
  <2>1. /\ mid_op_stk[token] = ")" /\ UNCHANGED <<mid_op_stk, rpn_op_stk>>
        /\ token <= Len(mid_op_stk) /\ token' = token + 1
    BY <1>7 DEF CloseParen, At, Advance
  <2>2. ASSUME NEW t \in Num \cup Opt
        PROVE  M(t)' = M(t) /\ S(t)' = S(t) /\ R(t)' = R(t)
    <3>1. t # "(" /\ t # ")"
      BY TokenAssumption
    <3>2. M(t) \in Nat /\ M(t)' = M(t) + IF mid_op_stk[token] = t THEN 1 ELSE 0
      BY <2>1, CountRead
    <3>3. S(t)' = S(t)
      <4>1. CASE UNCHANGED tmp_opt_stk
        BY <4>1
      <4>2. CASE /\ tmp_opt_stk # <<>> /\ Last(tmp_opt_stk) = "("
                 /\ tmp_opt_stk' = Front(tmp_opt_stk)
        <5>1. S(t) = S(t)' + IF "(" \in {t} THEN 1 ELSE 0
          BY <1>1, <4>2, CountFront DEF Front, Last
        <5>2. Len(tmp_opt_stk') \in Nat
          BY <1>1, <4>2, FrontProperties
        <5>3. S(t)' \in Nat
          BY <5>2, CountStep
        <5> QED
          BY <3>1, <5>1, <5>3
      <4> QED
        BY <1>7, <4>1, <4>2 DEF CloseParen
    <3>4. M(t)' = M(t)
      BY <2>1, <3>1, <3>2
    <3>5. R(t)' = R(t)
      BY <2>1
    <3> QED
      BY <3>3, <3>4, <3>5
  <2>3. \A t \in Num \cup Opt : R(t)' + S(t)' = M(t)'
    BY <1>3, <2>2
  <2> QED
    BY <2>3 DEF NothingLost
<1>8. CASE PopOperator \/ PopInParen \/ Flush
  <2>1. PopToRPN /\ tmp_opt_stk # <<>>
    BY <1>1, <1>8 DEF PopOperator, PopInParen, Flush
  <2> QED
    BY <2>1, CountMoved
<1>9. CASE IllegalToken \/ Return
  BY <1>9 DEF IllegalToken, Return, NothingLost
<1> QED
  BY <1>4, <1>5, <1>6, <1>7, <1>8, <1>9 DEF Convert

\* Whatever the queue holds, midExpr2RPN loses no operand and no operator.
THEOREM ConvertLosesNothing == ConvertSpec => []NothingLost
<1>1. ConvertInit => NothingLost
  <2> SUFFICES ASSUME ConvertInit PROVE NothingLost
    OBVIOUS
  <2>1. ASSUME NEW t \in Num \cup Opt
        PROVE  /\ Count(rpn_op_stk, 0, {t}) = 0 /\ Count(mid_op_stk, 0, {t}) = 0
               /\ Count(tmp_opt_stk, 1, {t}) = 0
    <3>1. tmp_opt_stk[0 + 1] \notin {t}
      BY TokenAssumption DEF ConvertInit
    <3>2. Count(tmp_opt_stk, 0 + 1, {t}) = 0 + 0
      BY <3>1, CountStep, CountZero
    <3> QED
      BY <3>2, CountZero
  <2> QED
    BY <2>1 DEF ConvertInit, NothingLost
<1>2. ConvertTypeOK /\ NothingLost /\ [Convert \/ Converted]_convertVars => NothingLost'
  <2> SUFFICES ASSUME ConvertTypeOK, NothingLost, [Convert \/ Converted]_convertVars
               PROVE  NothingLost'
    OBVIOUS
  <2>1. CASE Convert
    BY <2>1, NothingLostStep DEF ConvertTypeOK
  <2>2. CASE UNCHANGED convertVars
    BY <2>2 DEF convertVars, NothingLost
  <2> QED
    BY <2>1, <2>2 DEF Converted
<1> QED
  BY <1>1, <1>2, ConvertTypeCorrect, PTL DEF ConvertSpec

-----------------------------------------------------------------------------
\* The n-th element of S in the first b of m is the n-th in the first a of r,
\* and there are as many.
SameOrder(r, a, m, b, S) ==
    /\ Count(r, a, S) = Count(m, b, S)
    /\ \A i \in 1..a, j \in 1..b :
          r[i] \in S /\ m[j] \in S /\ Count(r, i, S) = Count(m, j, S) => r[i] = m[j]

\* Another element of m that is not in S changes nothing.
LEMMA SameOrderSkip ==
    ASSUME NEW r, NEW m, NEW S, NEW a \in Nat, NEW b \in Nat,
           SameOrder(r, a, m, b, S), m[b+1] \notin S
    PROVE  SameOrder(r, a, m, b + 1, S)
<1>1. Count(m, b + 1, S) = Count(m, b, S)
  <2>1. Count(m, b, S) \in Nat /\ Count(m, b + 1, S) = Count(m, b, S) + 0
    BY CountStep
  <2> QED
    BY <2>1
<1>2. \A j \in 1..b+1 : m[j] \in S => j \in 1..b
  OBVIOUS
<1> QED
  BY <1>1, <1>2 DEF SameOrder

\* Neither does an element at the end of r that is not in S ...
LEMMA SameOrderAppend ==
    ASSUME NEW A, NEW r \in Seq(A), NEW e \in A, NEW m, NEW S, NEW b \in Nat,
           SameOrder(r, Len(r), m, b, S), e \notin S
    PROVE  SameOrder(Append(r, e), Len(Append(r, e)), m, b, S)
<1> DEFINE t == Append(r, e)
           a == Len(r)
<1>1. a \in Nat /\ Len(t) = a + 1 /\ t[a+1] = e /\ \A i \in 1..a : t[i] = r[i]
  OBVIOUS
<1>2. SameOrder(r, a, m, b, S)
  OBVIOUS
<1> HIDE DEF t, a
<1>3. \A i \in 0..a : Count(t, i, S) = Count(r, i, S)
  BY <1>1, CountAgree
<1>4. Count(t, a + 1, S) = Count(r, a, S)
  <2>1. Count(t, a, S) \in Nat /\ Count(t, a + 1, S) = Count(t, a, S) + 0
    BY <1>1, CountStep
  <2> QED
    BY <1>1, <1>3, <2>1
<1>5. \A i \in 1..a+1 : t[i] \in S => i \in 1..a /\ r[i] \in S
  BY <1>1
<1>6. SameOrder(t, a + 1, m, b, S)
  BY <1>1, <1>2, <1>3, <1>4, <1>5 DEF SameOrder
<1> QED
  BY <1>1, <1>6 DEF t

\* ... and one that is in S continues the order if it is the next of m.
LEMMA SameOrderNext ==
    ASSUME NEW A, NEW r \in Seq(A), NEW m, NEW S, NEW b \in Nat,
           SameOrder(r, Len(r), m, b, S), m[b+1] \in S, m[b+1] \in A
    PROVE  LET t == Append(r, m[b+1]) IN SameOrder(t, Len(t), m, b + 1, S)
<1> DEFINE t == Append(r, m[b+1])
           a == Len(r)
<1>1. a \in Nat /\ Len(t) = a + 1 /\ t[a+1] = m[b+1] /\ \A i \in 1..a : t[i] = r[i]
  OBVIOUS
<1>2. SameOrder(r, a, m, b, S)
  OBVIOUS
<1> HIDE DEF t, a
<1>3. \A i \in 0..a : Count(t, i, S) = Count(r, i, S)
  BY <1>1, CountAgree
<1>4. /\ Count(t, a + 1, S) = Count(r, a, S) + 1
      /\ Count(m, b + 1, S) = Count(r, a, S) + 1
      /\ Count(r, a, S) \in Nat
  <2>1. Count(t, a + 1, S) = Count(t, a, S) + 1 /\ Count(r, a, S) \in Nat
    BY <1>1, CountStep
  <2>2. Count(m, b + 1, S) = Count(m, b, S) + 1
    BY CountStep
  <2>3. Count(t, a, S) = Count(r, a, S) /\ Count(r, a, S) = Count(m, b, S)
    BY <1>1, <1>2, <1>3 DEF SameOrder
  <2> QED
    BY <2>1, <2>2, <2>3
<1>5. ASSUME NEW i \in 1..a
      PROVE  Count(r, i, S) \in Nat /\ Count(r, i, S) <= Count(r, a, S)
  <2>1. i \in Nat /\ i \in 0..a
    BY <1>1
  <2>2. Count(r, i, S) \in Nat
    BY <2>1, CountStep
  <2>3. Count(r, i, S) <= Count(r, a, S)
    BY <1>1, <2>1, CountMonotone
  <2> QED
    BY <2>2, <2>3
<1>6. ASSUME NEW j \in 1..b
      PROVE  Count(m, j, S) \in Nat /\ Count(m, j, S) <= Count(r, a, S)
  <2>1. j \in Nat /\ j \in 0..b
    OBVIOUS
  <2>2. Count(m, j, S) \in Nat
    BY <2>1, CountStep
  <2>3. Count(m, j, S) <= Count(m, b, S)
    BY <2>1, CountMonotone
  <2> QED
    BY <1>2, <2>2, <2>3 DEF SameOrder
<1>7. ASSUME NEW i \in 1..a+1, NEW j \in 1..b+1, t[i] \in S, m[j] \in S,
             Count(t, i, S) = Count(m, j, S)
      PROVE  t[i] = m[j]
  <2>1. CASE i \in 1..a /\ j \in 1..b
    BY <1>1, <1>2, <1>3, <1>7, <2>1 DEF SameOrder
  <2>2. CASE i \in 1..a /\ j = b + 1
    BY <1>3, <1>4, <1>5, <1>7, <2>2
  <2>3. CASE i = a + 1 /\ j \in 1..b
    BY <1>4, <1>6, <1>7, <2>3
  <2>4. CASE i = a + 1 /\ j = b + 1
    BY <1>1, <2>4
  <2> QED
    BY <1>1, <2>1, <2>2, <2>3, <2>4
<1>8. SameOrder(t, a + 1, m, b + 1, S)
  BY <1>4, <1>7 DEF SameOrder
<1> QED
  BY <1>1, <1>8 DEF t

\* No step of midExpr2RPN, on any queue, changes the order of the operands: only
\* Operand moves one.
LEMMA OperandOrderStep ==
    ASSUME QueueTypeOK, OperandOrder, Convert
    PROVE  OperandOrder'
<1> DEFINE T == Num \cup Opt \cup {"#", "("}
           Order(r, b) == SameOrder(r, Len(r), mid_op_stk, b, Num)
<1>1. /\ rpn_op_stk \in Seq(T) /\ tmp_opt_stk \in Seq(Opt \cup {"#", "("})
      /\ token \in Nat \ {0}
  BY DEF QueueTypeOK
<1>2. Order(rpn_op_stk, token - 1)
  BY DEF OperandOrder, SameOrder
<1>3. ASSUME UNCHANGED mid_op_stk, Order(rpn_op_stk', token' - 1)
      PROVE  OperandOrder'
  BY <1>3 DEF OperandOrder, SameOrder
<1> HIDE DEF Order
<1>4. ASSUME mid_op_stk[token] \notin Num, token' = token + 1,
             UNCHANGED <<mid_op_stk, rpn_op_stk>>
      PROVE  OperandOrder'
  <2> DEFINE b == token - 1
  <2>1. b \in Nat /\ b + 1 = token /\ token' - 1 = b + 1
    BY <1>1, <1>4
  <2>2. SameOrder(rpn_op_stk, Len(rpn_op_stk), mid_op_stk, b, Num) /\ Len(rpn_op_stk) \in Nat
    BY <1>1, <1>2 DEF Order
  <2> HIDE DEF b
  <2>3. SameOrder(rpn_op_stk, Len(rpn_op_stk), mid_op_stk, b + 1, Num)
    BY <1>4, <2>1, <2>2, SameOrderSkip
  <2> QED
    BY <1>3, <1>4, <2>1, <2>3 DEF Order
<1>5. CASE Operand
  <2> DEFINE b == token - 1
  <2>1. b \in Nat /\ b + 1 = token /\ token' - 1 = b + 1
    BY <1>1, <1>5 DEF Operand, Advance
  <2>2. /\ mid_op_stk[token] \in Num /\ UNCHANGED mid_op_stk
        /\ rpn_op_stk' = Append(rpn_op_stk, mid_op_stk[token])
    BY <1>5 DEF Operand, At, Advance
  <2>3. SameOrder(rpn_op_stk, Len(rpn_op_stk), mid_op_stk, b, Num)
    BY <1>2 DEF Order
  <2> HIDE DEF b
  <2>4. SameOrder(rpn_op_stk', Len(rpn_op_stk'), mid_op_stk, b + 1, Num)
    BY <1>1, <2>1, <2>2, <2>3, SameOrderNext
  <2> QED
    BY <1>3, <2>1, <2>2, <2>4 DEF Order
<1>6. CASE PushOperator \/ OpenParen \/ CloseParen
  <2>1. /\ mid_op_stk[token] \in Opt \cup {"(", ")"} /\ token' = token + 1
        /\ UNCHANGED <<mid_op_stk, rpn_op_stk>>
    BY <1>6 DEF PushOperator, OpenParen, CloseParen, At, Advance
  <2>2. mid_op_stk[token] \notin Num
    BY <2>1, TokenAssumption
  <2> QED
    BY <1>4, <2>1, <2>2
<1>7. CASE PopOperator \/ PopInParen \/ Flush
  <2>1. PopToRPN /\ tmp_opt_stk # <<>>
    BY <1>1, <1>7 DEF PopOperator, PopInParen, Flush
  <2>2. Last(tmp_opt_stk) \in Opt \cup {"#", "("}
    BY <1>1, <2>1, FrontProperties
  <2>3. Last(tmp_opt_stk) \in T /\ Last(tmp_opt_stk) \notin Num
    BY <2>2, TokenAssumption
  <2>4. /\ rpn_op_stk' = Append(rpn_op_stk, Last(tmp_opt_stk))
        /\ UNCHANGED <<mid_op_stk, token>>
    BY <2>1 DEF PopToRPN
  <2>5. token - 1 \in Nat
    BY <1>1
  <2>6. SameOrder(rpn_op_stk', Len(rpn_op_stk'), mid_op_stk, token - 1, Num)
    BY <1>1, <1>2, <2>3, <2>4, <2>5, SameOrderAppend DEF Order
  <2> QED
    BY <1>3, <2>4, <2>6 DEF Order
<1>8. CASE IllegalToken \/ Return
  BY <1>8 DEF IllegalToken, Return, OperandOrder
<1> QED
  BY <1>5, <1>6, <1>7, <1>8 DEF Convert

\* Whatever the queue holds, midExpr2RPN keeps the operands in order.
THEOREM ConvertKeepsOrder == ConvertSpec => []OperandOrder
<1>1. ConvertInit => OperandOrder
  BY CountZero DEF ConvertInit, OperandOrder
<1>2. ConvertTypeOK /\ OperandOrder /\ [Convert \/ Converted]_convertVars => OperandOrder'
  <2> SUFFICES ASSUME ConvertTypeOK, OperandOrder, [Convert \/ Converted]_convertVars
               PROVE  OperandOrder'
    OBVIOUS
  <2>1. CASE Convert
    BY <2>1, OperandOrderStep DEF ConvertTypeOK
  <2>2. CASE UNCHANGED convertVars
    BY <2>2 DEF convertVars, OperandOrder
  <2> QED
    BY <2>1, <2>2 DEF Converted
<1> QED
  BY <1>1, <1>2, ConvertTypeCorrect, PTL DEF ConvertSpec

-----------------------------------------------------------------------------
(* evalRPN                                                                 *)

\* An outcome is a value in I32, or one of two ways to stop.
LEMMA OutcomeType ==
    ASSUME NEW l \in I32, NEW o \in Opt \cup {"#"}, NEW r \in I32,
           NEW out \in OptOutcomes(l, o, r)
    PROVE  (out[1] = "val" /\ out[2] \in I32) \/ out[1] \in {"abort", "trap"}
<1>1. out \in ({"val"} \X I32) \cup ({"abort", "trap"} \X {0})
  BY OutcomesAssumption DEF OutcomesAssumption
<1> QED
  BY <1>1

\* A conversion step is one of midExpr2RPN that leaves the evaluation alone.
LEMMA EvalTypeStep ==
    ASSUME EvalTypeOK, EvalNext
    PROVE  EvalTypeOK'
<1>1. CASE ConvertStep
  <2>1. QueueTypeOK' /\ pc' \in {"scan", "eval", "abort"}
    BY <1>1, QueueTypeStep DEF EvalTypeOK, ConvertStep
  <2>2. pc = "scan"
    BY <1>1 DEF ConvertStep, Convert, Operand, PopOperator, PushOperator, OpenParen,
                PopInParen, CloseParen, IllegalToken, Flush, Return, At
  <2>3. opof' = <<>> /\ rpn' = 1 /\ const_expr' = const_expr
    BY <1>1, <2>2 DEF ConvertStep, evalVars, EvalTypeOK
  <2>4. Len(rpn_op_stk') \in Nat
    BY <2>1 DEF QueueTypeOK
  <2> QED
    BY <2>1, <2>3, <2>4 DEF EvalTypeOK
<1>2. CASE EvalOperand
  <2>1. StrToInt(rpn_op_stk[rpn]) \in I32
    BY OutcomesAssumption DEF StrToInt, OutcomesAssumption
  <2> QED
    BY <1>2, <2>1 DEF EvalOperand, EvalAt, EvalTypeOK, QueueTypeOK
<1>3. CASE EvalOpt
  <2>1. /\ UNCHANGED <<mid_op_stk, token, tmp_opt_stk, rpn_op_stk, const_expr>>
        /\ rpn \in 1..Len(rpn_op_stk) /\ rpn_op_stk[rpn] \in Opt \cup {"#"}
        /\ Len(opof) >= 2 /\ opof \in Seq(I32) /\ pc = "eval"
    BY <1>3 DEF EvalOpt, EvalAt, EvalTypeOK, QueueTypeOK
  <2>2. QueueTypeOK'
    BY <2>1 DEF EvalTypeOK, QueueTypeOK
  <2>3. opof[Len(opof)-1] \in I32 /\ Last(opof) \in I32
    BY <2>1 DEF Last
  <2>4. PICK out \in OptOutcomes(opof[Len(opof)-1], rpn_op_stk[rpn], Last(opof)) :
          IF out[1] = "val"
          THEN /\ opof' = Append(SubSeq(opof, 1, Len(opof)-2), out[2])
               /\ rpn' = rpn + 1
               /\ UNCHANGED pc
          ELSE /\ pc' = out[1]
               /\ UNCHANGED <<opof, rpn>>
    BY <1>3 DEF EvalOpt
  <2>5. (out[1] = "val" /\ out[2] \in I32) \/ out[1] \in {"abort", "trap"}
    BY <2>1, <2>3, OutcomeType
  <2>6. CASE out[1] = "val"
    <3>1. SubSeq(opof, 1, Len(opof)-2) \in Seq(I32)
      BY <2>1
    <3>2. opof' \in Seq(I32)
      BY <2>4, <2>5, <2>6, <3>1
    <3>3. rpn' \in 1..Len(rpn_op_stk')+1 /\ pc' = "eval"
      BY <2>1, <2>4, <2>6
    <3> QED
      BY <2>1, <2>2, <3>2, <3>3 DEF EvalTypeOK
  <2>7. CASE out[1] # "val"
    BY <2>1, <2>2, <2>4, <2>5, <2>7 DEF EvalTypeOK
  <2> QED
    BY <2>6, <2>7
<1>4. CASE Underflow
  BY <1>4 DEF Underflow, EvalAt, EvalTypeOK, QueueTypeOK
<1>5. CASE EvalEnd
  <2>1. opof # <<>> => Last(opof) \in I32
    BY FrontProperties DEF EvalTypeOK
  <2>2. const_expr' \in {<<>>} \cup {<<v>> : v \in I32} /\ pc' \in {"val", "undefined"}
    BY <1>5, <2>1 DEF EvalEnd, EvalTypeOK
  <2> QED
    BY <1>5, <2>2 DEF EvalEnd, EvalTypeOK, QueueTypeOK
<1> QED
  BY <1>1, <1>2, <1>3, <1>4, <1>5 DEF EvalNext

\* The state in which the folder starts, on any queue.
EvalBegins == ConvertBegins /\ opof = <<>> /\ rpn = 1 /\ const_expr = <<>>

\* The initial states are states in which the folder begins.
LEMMA EvalInitBegins == EvalInit => EvalBegins
BY TokenAssumption DEF EvalInit, ConvertInit, EvalBegins, ConvertBegins

\* Where the folder begins, its stacks are well typed.
LEMMA EvalTypeInit ==
    ASSUME EvalBegins
    PROVE  EvalTypeOK
BY DEF EvalBegins, ConvertBegins, EvalTypeOK, QueueTypeOK

\* The folder keeps its stacks and its result typed.
THEOREM EvalTypeCorrect == EvalSpec => []EvalTypeOK
<1>1. EvalInit => EvalTypeOK
  BY EvalInitBegins, EvalTypeInit
<1>2. EvalTypeOK /\ [EvalNext \/ Terminated]_folderVars => EvalTypeOK'
  <2> SUFFICES ASSUME EvalTypeOK, [EvalNext \/ Terminated]_folderVars
               PROVE  EvalTypeOK'
    OBVIOUS
  <2>1. CASE EvalNext
    BY <2>1, EvalTypeStep
  <2>2. CASE UNCHANGED folderVars
    BY <2>2 DEF folderVars, convertVars, evalVars, EvalTypeOK, QueueTypeOK
  <2> QED
    BY <2>1, <2>2 DEF Terminated
<1> QED
  BY <1>1, <1>2, PTL DEF EvalSpec

-----------------------------------------------------------------------------
\* The inductive invariant: that of midExpr2RPN, which holds on because the
\* evaluation changes nothing of its, and the height of the evaluation stack.
EvalInv == ConvertInv /\ OneValueLeft /\ NoUnderflow

\* Where the folder begins, the invariant of both passes holds.
LEMMA EvalInvInit ==
    ASSUME EvalBegins
    PROVE  EvalInv
BY ConvertInvInit DEF EvalBegins, ConvertBegins, EvalInv, OneValueLeft, NoUnderflow

\* One more token of the RPN queue changes the height by its own weight.
LEMMA HeightStep ==
    ASSUME NEW r, NEW k \in 1..Len(r), Len(r) \in Nat
    PROVE  /\ Height(r, k - 1) \in Int
           /\ Height(r, k) = Height(r, k - 1) + (IF r[k] \in Num THEN 1 ELSE 0)
                                             - (IF r[k] \in Opt THEN 1 ELSE 0)
<1> DEFINE i == k - 1
<1>1. i \in Nat /\ k = i + 1
  OBVIOUS
<1> HIDE DEF i
<1>2. \A S : /\ Count(r, i, S) \in Nat
             /\ Count(r, i + 1, S) = Count(r, i, S) + IF r[i+1] \in S THEN 1 ELSE 0
  BY <1>1, CountStep
<1>3. /\ Count(r, i, Num) \in Nat /\ Count(r, i, Opt) \in Nat
      /\ Count(r, i + 1, Num) = Count(r, i, Num) + IF r[i+1] \in Num THEN 1 ELSE 0
      /\ Count(r, i + 1, Opt) = Count(r, i, Opt) + IF r[i+1] \in Opt THEN 1 ELSE 0
  BY <1>2
<1> QED
  BY <1>1, <1>3 DEF Height, i

\* While evalRPN runs on what came from an infix expression, the queue is an
\* RPN expression and the marker is not in it.
LEMMA EvalQueue ==
    ASSUME EvalTypeOK, EvalInv, WellFormed(mid_op_stk), pc = "eval"
    PROVE  /\ rpn_op_stk \in Seq(Num \cup Opt)
           /\ \A k \in 1..Len(rpn_op_stk) :
                 /\ rpn_op_stk[k] \in Num \cup Opt
                 /\ rpn_op_stk[k] \in Opt => Height(rpn_op_stk, k - 1) >= 2
           /\ Height(rpn_op_stk, Len(rpn_op_stk)) = 1
           /\ Len(opof) = Height(rpn_op_stk, rpn - 1)
           /\ Len(rpn_op_stk) \in Nat /\ Len(opof) \in Nat
           /\ rpn \in 1..Len(rpn_op_stk)+1
<1>1. IsRPN(rpn_op_stk)
  BY MarkerLeftIsRPN DEF EvalTypeOK, EvalInv
<1>2. Len(opof) = Height(rpn_op_stk, rpn - 1)
  BY DEF EvalInv, OneValueLeft
<1> QED
  BY <1>1, <1>2 DEF IsRPN, NeverUnderflows, EvalTypeOK

\* A step of evalRPN leaves the state of midExpr2RPN and its invariant alone.
LEMMA EvalKeepsConvertInv ==
    ASSUME EvalTypeOK, ConvertInv, pc = "eval", pc' # "scan",
           UNCHANGED <<mid_op_stk, token, tmp_opt_stk, rpn_op_stk>>
    PROVE  ConvertInv'
BY DEF ConvertInv, MarkerAtBottom, OpenParensOnStack, OperandBalance, RPNSoFar

\* Every step of the folder keeps EvalInv.
LEMMA EvalInvStep ==
    ASSUME EvalTypeOK, EvalInv, EvalNext
    PROVE  EvalInv'
<1>1. CASE ConvertStep
  <2>1. Convert /\ UNCHANGED <<opof, rpn, const_expr>> /\ pc = "scan"
    BY <1>1 DEF ConvertStep, evalVars, Convert, Operand, PopOperator, PushOperator,
                OpenParen, PopInParen, CloseParen, IllegalToken, Flush, Return, At
  <2>2. ConvertInv'
    BY <2>1, ConvertInvStep DEF EvalTypeOK, EvalInv
  <2>3. pc' \in {"scan", "eval", "abort"}
    BY <2>1, QueueTypeStep DEF EvalTypeOK
  <2>4. opof' = <<>> /\ rpn' = 1
    BY <2>1 DEF EvalTypeOK
  <2>5. Len(opof') = Height(rpn_op_stk, rpn - 1)'
    <3>1. Height(rpn_op_stk', 0) = 0
      BY CountZero DEF Height
    <3> QED
      BY <2>4, <3>1
  <2> QED
    BY <2>2, <2>3, <2>5 DEF EvalInv, OneValueLeft, NoUnderflow
<1>2. CASE EvalOperand
  <2>1. /\ UNCHANGED <<mid_op_stk, token, tmp_opt_stk, rpn_op_stk, const_expr, pc>>
        /\ pc = "eval" /\ rpn \in 1..Len(rpn_op_stk) /\ rpn' = rpn + 1
        /\ rpn_op_stk[rpn] \notin Opt /\ Len(opof') = Len(opof) + 1
    BY <1>2 DEF EvalOperand, EvalAt, EvalTypeOK
  <2>2. ASSUME WellFormed(mid_op_stk)
        PROVE  Len(opof') = Height(rpn_op_stk, rpn' - 1)
    <3>1. /\ Len(opof) = Height(rpn_op_stk, rpn - 1) /\ rpn_op_stk[rpn] \in Num
          /\ Len(rpn_op_stk) \in Nat
      BY <2>1, <2>2, EvalQueue
    <3>2. Height(rpn_op_stk, rpn) = Height(rpn_op_stk, rpn - 1) + 1
      BY <2>1, <3>1, HeightStep
    <3>3. rpn' - 1 = rpn
      BY <2>1
    <3> QED
      BY <2>1, <3>1, <3>2, <3>3
  <2>3. ConvertInv'
    BY <2>1, EvalKeepsConvertInv DEF EvalInv
  <2> QED
    BY <2>1, <2>2, <2>3 DEF EvalInv, OneValueLeft, NoUnderflow
<1>3. CASE EvalOpt
  <2>1. /\ UNCHANGED <<mid_op_stk, token, tmp_opt_stk, rpn_op_stk, const_expr>>
        /\ pc = "eval" /\ rpn \in 1..Len(rpn_op_stk)
        /\ rpn_op_stk[rpn] \in Opt \cup {"#"}
        /\ Len(opof) >= 2 /\ opof \in Seq(I32)
    BY <1>3 DEF EvalOpt, EvalAt, EvalTypeOK
  <2>2. PICK out \in OptOutcomes(opof[Len(opof)-1], rpn_op_stk[rpn], Last(opof)) :
          IF out[1] = "val"
          THEN /\ opof' = Append(SubSeq(opof, 1, Len(opof)-2), out[2])
               /\ rpn' = rpn + 1
               /\ UNCHANGED pc
          ELSE /\ pc' = out[1]
               /\ UNCHANGED <<opof, rpn>>
    BY <1>3 DEF EvalOpt
  <2>3. (out[1] = "val" /\ out[2] \in I32) \/ out[1] \in {"abort", "trap"}
    <3>1. opof[Len(opof)-1] \in I32 /\ Last(opof) \in I32
      BY <2>1 DEF Last
    <3> QED
      BY <2>1, <3>1, OutcomeType
  <2>4. CASE out[1] # "val"
    <3>1. pc' \in {"abort", "trap"}
      BY <2>2, <2>3, <2>4
    <3>2. ConvertInv'
      BY <2>1, <3>1, EvalKeepsConvertInv DEF EvalInv
    <3> QED
      BY <3>1, <3>2 DEF EvalInv, OneValueLeft, NoUnderflow
  <2>5. CASE out[1] = "val"
    <3>1. /\ opof' = Append(SubSeq(opof, 1, Len(opof)-2), out[2])
          /\ rpn' = rpn + 1 /\ pc' = "eval" /\ out[2] \in I32
      BY <2>1, <2>2, <2>3, <2>5
    <3>2. Len(opof') = Len(opof) - 1
      <4> DEFINE n == Len(opof) - 2
      <4>1. n \in 0..Len(opof) /\ Len(opof) - 1 = n + 1
        BY <2>1
      <4>2. SubSeq(opof, 1, n) \in Seq(I32) /\ Len(SubSeq(opof, 1, n)) = n
        <5> HIDE DEF n
        <5> QED
          BY <2>1, <4>1, PrefixLen
      <4>3. opof' = Append(SubSeq(opof, 1, n), out[2])
        BY <3>1
      <4> HIDE DEF n
      <4> QED
        BY <3>1, <4>1, <4>2, <4>3
    <3>3. ASSUME WellFormed(mid_op_stk)
          PROVE  Len(opof') = Height(rpn_op_stk, rpn' - 1)
      <4>1. /\ Len(opof) = Height(rpn_op_stk, rpn - 1) /\ Len(rpn_op_stk) \in Nat
            /\ rpn_op_stk[rpn] \in Num \cup Opt
        BY <2>1, <3>3, EvalQueue
      <4>2. rpn_op_stk[rpn] \in Opt /\ rpn_op_stk[rpn] \notin Num
        BY <2>1, <4>1, TokenAssumption
      <4>3. Height(rpn_op_stk, rpn) = Height(rpn_op_stk, rpn - 1) - 1
        BY <2>1, <4>1, <4>2, HeightStep
      <4>4. rpn' - 1 = rpn
        BY <2>1, <3>1
      <4> QED
        BY <3>2, <4>1, <4>3, <4>4
    <3>4. ConvertInv'
      BY <2>1, <3>1, EvalKeepsConvertInv DEF EvalInv
    <3> QED
      BY <2>1, <3>1, <3>3, <3>4 DEF EvalInv, OneValueLeft, NoUnderflow
  <2> QED
    BY <2>4, <2>5
<1>4. CASE Underflow
  <2>1. /\ UNCHANGED <<mid_op_stk, token, tmp_opt_stk, rpn_op_stk>>
        /\ pc = "eval" /\ pc' = "undefined" /\ rpn \in 1..Len(rpn_op_stk)
        /\ rpn_op_stk[rpn] \in Opt \cup {"#"} /\ Len(opof) < 2
    BY <1>4 DEF Underflow, EvalAt, EvalTypeOK
  <2>2. ASSUME WellFormed(mid_op_stk) PROVE FALSE
    <3>1. /\ rpn_op_stk[rpn] \in Num \cup Opt
          /\ rpn_op_stk[rpn] \in Opt => Height(rpn_op_stk, rpn - 1) >= 2
          /\ Len(opof) = Height(rpn_op_stk, rpn - 1)
      BY <2>1, <2>2, EvalQueue
    <3>2. rpn_op_stk[rpn] \in Opt
      BY <2>1, <3>1, TokenAssumption
    <3> QED
      BY <2>1, <3>1, <3>2
  <2>3. ConvertInv'
    BY <2>1, EvalKeepsConvertInv DEF EvalInv
  <2> QED
    BY <2>1, <2>2, <2>3 DEF EvalInv, OneValueLeft, NoUnderflow
<1>5. CASE EvalEnd
  <2>1. /\ UNCHANGED <<mid_op_stk, token, tmp_opt_stk, rpn_op_stk, opof, rpn>>
        /\ pc = "eval" /\ rpn > Len(rpn_op_stk) /\ opof \in Seq(I32)
    BY <1>5 DEF EvalEnd, EvalTypeOK
  <2>2. ASSUME WellFormed(mid_op_stk) PROVE Len(opof) = 1
    <3>1. /\ Len(opof) = Height(rpn_op_stk, rpn - 1) /\ Len(rpn_op_stk) \in Nat
          /\ rpn \in 1..Len(rpn_op_stk)+1 /\ Height(rpn_op_stk, Len(rpn_op_stk)) = 1
      BY <2>1, <2>2, EvalQueue
    <3>2. rpn - 1 = Len(rpn_op_stk)
      BY <2>1, <3>1
    <3> QED
      BY <3>1, <3>2
  <2>3. CASE opof # <<>> /\ const_expr' = <<Last(opof)>> /\ pc' = "val"
    <3>1. ASSUME WellFormed(mid_op_stk) PROVE const_expr' = opof
      <4>1. Len(opof) = 1 /\ const_expr' = <<opof[1]>>
        BY <2>2, <2>3, <3>1 DEF Last
      <4> QED
        BY <2>1, <4>1
    <3>2. ConvertInv'
      BY <2>1, <2>3, EvalKeepsConvertInv DEF EvalInv
    <3> QED
      BY <2>1, <2>2, <2>3, <3>1, <3>2 DEF EvalInv, OneValueLeft, NoUnderflow
  <2>4. CASE opof = <<>> /\ pc' = "undefined"
    <3>1. ~WellFormed(mid_op_stk)
      BY <2>2, <2>4
    <3>2. ConvertInv'
      BY <2>1, <2>4, EvalKeepsConvertInv DEF EvalInv
    <3> QED
      BY <2>1, <3>1, <3>2 DEF EvalInv, OneValueLeft, NoUnderflow
  <2> QED
    BY <1>5, <2>3, <2>4 DEF EvalEnd
<1> QED
  BY <1>1, <1>2, <1>3, <1>4, <1>5 DEF EvalNext

\* The invariant holds of every run of the folder.
THEOREM EvalInvariant == EvalSpec => []EvalInv
<1>1. EvalInit => EvalInv
  BY EvalInitBegins, EvalInvInit
<1>2. EvalTypeOK /\ EvalInv /\ [EvalNext \/ Terminated]_folderVars => EvalInv'
  <2> SUFFICES ASSUME EvalTypeOK, EvalInv, [EvalNext \/ Terminated]_folderVars
               PROVE  EvalInv'
    OBVIOUS
  <2>1. CASE EvalNext
    BY <2>1, EvalInvStep
  <2>2. CASE UNCHANGED folderVars
    BY <2>2 DEF folderVars, convertVars, evalVars, EvalInv, OneValueLeft, NoUnderflow,
                ConvertInv, MarkerAtBottom, OpenParensOnStack, OperandBalance, RPNSoFar
  <2> QED
    BY <2>1, <2>2 DEF Terminated
<1> QED
  BY <1>1, <1>2, EvalTypeCorrect, PTL DEF EvalSpec

\* No infix expression makes evalRPN read an empty stack.
THEOREM EvalNeverUnderflows == EvalSpec => []NoUnderflow
<1>1. EvalInv => NoUnderflow
  BY DEF EvalInv
<1> QED
  BY <1>1, EvalInvariant, PTL

\* Every infix expression that folds leaves exactly its value on the stack.
THEOREM EvalLeavesOneValue == EvalSpec => []OneValueLeft
<1>1. EvalInv => OneValueLeft
  BY DEF EvalInv
<1> QED
  BY <1>1, EvalInvariant, PTL

-----------------------------------------------------------------------------
(***************************************************************************)
(* Queues whose parentheses match but which are no infix expressions: what *)
(* traverseExpr makes of an expression that names a variable. Such a queue *)
(* folds to a value only if it has more operands than operators.           *)
(***************************************************************************)

\* What a token adds to the height of evalRPN's stack.
Weight(e) == (IF e \in Num THEN 1 ELSE 0) - (IF e \in Opt THEN 1 ELSE 0)

\* Operators on the stack of midExpr2RPN.
Waiting == Count(tmp_opt_stk, Len(tmp_opt_stk), Opt)

\* On every queue: the weights of the tokens read are in the result, or wait on
\* the stack.
WeightKept ==
    Height(rpn_op_stk, Len(rpn_op_stk)) - Waiting = Height(mid_op_stk, token - 1)

\* On a balanced queue no parenthesis and no marker gets into the result, and
\* after a return the marker alone is left.
StackKept ==
    Balanced(mid_op_stk) =>
        /\ MarkerAtBottom
        /\ OpenParensOnStack
        /\ rpn_op_stk \in Seq(Num \cup Opt)
        /\ pc \in {"eval", "val"} => token > Len(mid_op_stk) /\ Len(tmp_opt_stk) = 1

\* On a balanced queue the stack of evalRPN is as high as the weights of the
\* tokens it has read.
StackHasWeight ==
    Balanced(mid_op_stk) =>
        /\ pc \in {"eval", "val"} => Len(opof) = Height(rpn_op_stk, rpn - 1)
        /\ pc = "val" => rpn = Len(rpn_op_stk) + 1 /\ Len(opof) >= 1

\* The inductive invariant.
BalancedInv == WeightKept /\ StackKept /\ StackHasWeight

-----------------------------------------------------------------------------
\* One more token at the end adds its weight.
LEMMA HeightAppend ==
    ASSUME NEW A, NEW r \in Seq(A), NEW e \in A
    PROVE  /\ Height(r, Len(r)) \in Int
           /\ Height(Append(r, e), Len(Append(r, e))) = Height(r, Len(r)) + Weight(e)
<1>1. \A S : Count(Append(r, e), Len(Append(r, e)), S)
                = Count(r, Len(r), S) + IF e \in S THEN 1 ELSE 0
  BY CountAppend
<1>2. Len(r) \in Nat /\ \A S : Count(r, Len(r), S) \in Nat
  BY CountStep
<1> QED
  BY <1>1, <1>2 DEF Height, Weight

\* One more token read adds its weight, and a parenthesis to the depth.
LEMMA ReadStep ==
    ASSUME QueueTypeOK, token <= Len(mid_op_stk), token' = token + 1,
           UNCHANGED mid_op_stk
    PROVE  LET t == mid_op_stk[token] IN
           /\ token \in 1..Len(mid_op_stk)
           /\ Height(mid_op_stk, token - 1) \in Int
           /\ Height(mid_op_stk, token - 1)' = Height(mid_op_stk, token - 1) + Weight(t)
           /\ Depth(mid_op_stk, token - 1) \in Int
           /\ Depth(mid_op_stk, token - 1)' = Depth(mid_op_stk, token)
           /\ t = "(" => Depth(mid_op_stk, token) = Depth(mid_op_stk, token - 1) + 1
           /\ t = ")" => Depth(mid_op_stk, token) = Depth(mid_op_stk, token - 1) - 1
           /\ t \notin {"(", ")"} => Depth(mid_op_stk, token) = Depth(mid_op_stk, token - 1)
<1> DEFINE i == token - 1
           t == mid_op_stk[token]
<1>1. i \in Nat /\ token = i + 1 /\ token' - 1 = i + 1 /\ token \in 1..Len(mid_op_stk)
  BY DEF QueueTypeOK
<1>2. t = mid_op_stk[i + 1]
  BY <1>1
<1> HIDE DEF i, t
<1>3. \A S : /\ Count(mid_op_stk, i, S) \in Nat
             /\ Count(mid_op_stk, i + 1, S)
                   = Count(mid_op_stk, i, S) + IF t \in S THEN 1 ELSE 0
  BY <1>1, <1>2, CountStep
<1>4. /\ Height(mid_op_stk, i) \in Int
      /\ Height(mid_op_stk, i + 1) = Height(mid_op_stk, i) + Weight(t)
  BY <1>3 DEF Height, Weight
<1>5. /\ Depth(mid_op_stk, i) \in Int
      /\ t = "(" => Depth(mid_op_stk, i + 1) = Depth(mid_op_stk, i) + 1
      /\ t = ")" => Depth(mid_op_stk, i + 1) = Depth(mid_op_stk, i) - 1
      /\ t \notin {"(", ")"} => Depth(mid_op_stk, i + 1) = Depth(mid_op_stk, i)
  <2>1. /\ Count(mid_op_stk, i, {"("}) \in Nat /\ Count(mid_op_stk, i, {")"}) \in Nat
        /\ Count(mid_op_stk, i + 1, {"("})
              = Count(mid_op_stk, i, {"("}) + IF t = "(" THEN 1 ELSE 0
        /\ Count(mid_op_stk, i + 1, {")"})
              = Count(mid_op_stk, i, {")"}) + IF t = ")" THEN 1 ELSE 0
    <3>1. \A p : t \in {p} <=> t = p
      OBVIOUS
    <3> QED
      BY <1>3, <3>1
  <2> QED
    BY <2>1 DEF Depth
<1> QED
  BY <1>1, <1>4, <1>5 DEF i, t

\* The weights of what the stack and the queues of midExpr2RPN may hold.
LEMMA Weights ==
    /\ \A e \in Num : Weight(e) = 1
    /\ \A e \in Opt : Weight(e) = -1
    /\ \A e \in {"(", ")", "#"} : Weight(e) = 0
BY TokenAssumption DEF Weight

\* What a pop does to the stack of midExpr2RPN, whatever it holds.
LEMMA PopWaiting ==
    ASSUME QueueTypeOK, tmp_opt_stk # <<>>, tmp_opt_stk' = Front(tmp_opt_stk)
    PROVE  /\ Last(tmp_opt_stk) \in StackElement
           /\ Waiting \in Nat /\ Waiting' \in Nat
           /\ Waiting' = Waiting + Weight(Last(tmp_opt_stk))
<1>1. tmp_opt_stk \in Seq(StackElement)
  BY DEF QueueTypeOK, StackElement
<1>2. Last(tmp_opt_stk) \in StackElement /\ Len(tmp_opt_stk') \in Nat /\ Len(tmp_opt_stk) \in Nat
  BY <1>1, FrontProperties
<1>3. Waiting \in Nat /\ Waiting' \in Nat
  BY <1>2, CountStep DEF Waiting
<1>4. Waiting = Waiting' + IF Last(tmp_opt_stk) \in Opt THEN 1 ELSE 0
  BY <1>1, CountFront DEF Waiting, Front, Last
<1>5. Weight(Last(tmp_opt_stk)) = IF Last(tmp_opt_stk) \in Opt THEN -1 ELSE 0
  BY <1>2, Weights DEF StackElement
<1>6. Waiting' = Waiting + Weight(Last(tmp_opt_stk))
  <2> DEFINE w == Waiting
             v == Waiting'
             e == Last(tmp_opt_stk)
  <2>1. w \in Nat /\ v \in Nat /\ w = v + (IF e \in Opt THEN 1 ELSE 0)
        /\ Weight(e) = IF e \in Opt THEN -1 ELSE 0
    BY <1>3, <1>4, <1>5
  <2> HIDE DEF w, v, e
  <2>2. v = w + Weight(e)
    BY <2>1
  <2> QED
    BY <2>2 DEF w, v, e
<1> QED
  BY <1>2, <1>3, <1>6

\* No step of midExpr2RPN, on any queue, loses a weight.
LEMMA WeightKeptStep ==
    ASSUME QueueTypeOK, WeightKept, Convert
    PROVE  WeightKept'
<1> DEFINE T == Num \cup Opt \cup {"#", "("}
           R == Height(rpn_op_stk, Len(rpn_op_stk))
           M == Height(mid_op_stk, token - 1)
<1>1. /\ rpn_op_stk \in Seq(T) /\ tmp_opt_stk \in Seq(StackElement)
      /\ Len(rpn_op_stk) \in Nat /\ Len(tmp_opt_stk) \in Nat
  BY DEF QueueTypeOK, StackElement
<1>2. Waiting \in Nat /\ R \in Int
  BY <1>1, CountStep, HeightType DEF Waiting
<1>3. R - Waiting = M
  BY DEF WeightKept
<1>4. CASE Operand
  <2>1. /\ token <= Len(mid_op_stk) /\ token' = token + 1
        /\ UNCHANGED <<mid_op_stk, tmp_opt_stk>> /\ mid_op_stk[token] \in Num
        /\ rpn_op_stk' = Append(rpn_op_stk, mid_op_stk[token])
    BY <1>4 DEF Operand, At, Advance
  <2>2. M \in Int /\ M' = M + 1
    BY <2>1, ReadStep, Weights
  <2>3. R' = R + 1
    BY <1>1, <2>1, HeightAppend, Weights
  <2>4. Waiting' = Waiting
    BY <2>1 DEF Waiting
  <2>5. R' - Waiting' = M'
    <3> HIDE DEF R, M
    <3> QED
      BY <1>2, <1>3, <2>2, <2>3, <2>4
  <2> QED
    BY <2>5 DEF WeightKept
<1>5. CASE PushOperator
  <2>1. /\ token <= Len(mid_op_stk) /\ token' = token + 1
        /\ UNCHANGED <<mid_op_stk, rpn_op_stk>> /\ mid_op_stk[token] \in Opt
        /\ tmp_opt_stk' = Append(tmp_opt_stk, mid_op_stk[token])
    BY <1>5 DEF PushOperator, At, Advance
  <2>2. M \in Int /\ M' = M - 1
    BY <2>1, ReadStep, Weights
  <2>3. Waiting' = Waiting + 1
    BY <1>1, <2>1, CountAppend DEF Waiting, StackElement
  <2>4. R' = R
    BY <2>1
  <2>5. R' - Waiting' = M'
    <3> HIDE DEF R, M
    <3> QED
      BY <1>2, <1>3, <2>2, <2>3, <2>4
  <2> QED
    BY <2>5 DEF WeightKept
<1>6. CASE OpenParen
  <2>1. /\ token <= Len(mid_op_stk) /\ token' = token + 1
        /\ UNCHANGED <<mid_op_stk, rpn_op_stk>> /\ mid_op_stk[token] = "("
        /\ tmp_opt_stk' = Append(tmp_opt_stk, "(")
    BY <1>6 DEF OpenParen, At, Advance
  <2>2. M \in Int /\ M' = M
    BY <2>1, ReadStep, Weights
  <2>3. Waiting' = Waiting
    <3>1. "(" \notin Opt /\ "(" \in StackElement
      BY TokenAssumption DEF StackElement
    <3> QED
      BY <1>1, <1>2, <2>1, <3>1, CountAppend DEF Waiting
  <2>4. R' = R
    BY <2>1
  <2> QED
    BY <1>3, <2>2, <2>3, <2>4 DEF WeightKept
<1>7. CASE CloseParen
  <2>1. /\ token <= Len(mid_op_stk) /\ token' = token + 1
        /\ UNCHANGED <<mid_op_stk, rpn_op_stk>> /\ mid_op_stk[token] = ")"
    BY <1>7 DEF CloseParen, At, Advance
  <2>2. M \in Int /\ M' = M
    BY <2>1, ReadStep, Weights
  <2>3. Waiting' = Waiting
    <3>1. CASE UNCHANGED tmp_opt_stk
      BY <3>1 DEF Waiting
    <3>2. CASE /\ tmp_opt_stk # <<>> /\ Last(tmp_opt_stk) = "("
               /\ tmp_opt_stk' = Front(tmp_opt_stk)
      BY <3>2, PopWaiting, Weights
    <3> QED
      BY <1>7, <3>1, <3>2 DEF CloseParen
  <2>4. R' = R
    BY <2>1
  <2> QED
    BY <1>3, <2>2, <2>3, <2>4 DEF WeightKept
<1>8. CASE PopOperator \/ PopInParen \/ Flush
  <2>1. PopToRPN /\ tmp_opt_stk # <<>>
    BY <1>1, <1>8 DEF PopOperator, PopInParen, Flush
  <2> DEFINE e == Last(tmp_opt_stk)
  <2>2. /\ e \in StackElement /\ Waiting' \in Nat
        /\ Waiting' = Waiting + Weight(e)
    BY <2>1, PopWaiting DEF PopToRPN
  <2>3. e \in T /\ rpn_op_stk' = Append(rpn_op_stk, e) /\ M' = M
    BY <2>1, <2>2 DEF PopToRPN, StackElement
  <2>4. R' = R + Weight(e)
    BY <1>1, <2>3, HeightAppend
  <2>5. Weight(e) \in Int
    BY DEF Weight
  <2>6. R' - Waiting' = M'
    <3> HIDE DEF R, M, e
    <3> QED
      BY <1>2, <1>3, <2>2, <2>3, <2>4, <2>5
  <2> QED
    BY <2>6 DEF WeightKept
<1>9. CASE IllegalToken \/ Return
  BY <1>9 DEF IllegalToken, Return, WeightKept, Waiting
<1> QED
  BY <1>4, <1>5, <1>6, <1>7, <1>8, <1>9 DEF Convert

\* On a balanced queue the stack of midExpr2RPN always has what the next pop
\* takes: what moves to the result is an operator.
LEMMA StackKeptStep ==
    ASSUME QueueTypeOK, StackKept, Convert
    PROVE  StackKept'
<1> SUFFICES ASSUME Balanced(mid_op_stk)'
             PROVE  StackKept'
  BY DEF StackKept
<1>1. UNCHANGED mid_op_stk /\ pc = "scan"
  BY DEF Convert, Operand, PopOperator, PushOperator, OpenParen, PopInParen,
         CloseParen, IllegalToken, Flush, Return, At, Advance, PopToRPN
<1>2. /\ Balanced(mid_op_stk) /\ MarkerAtBottom /\ OpenParensOnStack
      /\ rpn_op_stk \in Seq(Num \cup Opt)
  BY <1>1 DEF StackKept
<1>3. /\ tmp_opt_stk \in Seq(StackElement) /\ tmp_opt_stk # <<>>
      /\ Last(tmp_opt_stk) \in StackElement /\ Len(tmp_opt_stk) \in Nat \ {0}
      /\ \A S : Count(tmp_opt_stk, Len(tmp_opt_stk), S) \in Nat
  <2>1. tmp_opt_stk \in Seq(StackElement) /\ tmp_opt_stk # <<>>
    BY <1>2 DEF MarkerAtBottom, QueueTypeOK, StackElement
  <2>2. Last(tmp_opt_stk) \in StackElement /\ Len(tmp_opt_stk) \in Nat \ {0}
    BY <2>1, FrontProperties
  <2> QED
    BY <2>1, <2>2, CountStep
<1>4. ASSUME PopToRPN, pc' = "scan", Last(tmp_opt_stk) \in Opt
      PROVE  StackKept'
  <2>1. /\ MarkerAtBottom'
        /\ \A S : Count(tmp_opt_stk, Len(tmp_opt_stk), S)
                    = Count(tmp_opt_stk, Len(tmp_opt_stk), S)'
                        + IF Last(tmp_opt_stk) \in S THEN 1 ELSE 0
    BY <1>2, <1>4, TokenAssumption, PopFromStack DEF PopToRPN
  <2>2. Last(tmp_opt_stk) \notin {"("}
    BY <1>4, TokenAssumption
  <2>3. Count(tmp_opt_stk, Len(tmp_opt_stk), {"("})' \in Nat
    <3>1. Len(tmp_opt_stk') \in Nat
      BY <1>3, <1>4, FrontProperties DEF PopToRPN
    <3> QED
      BY <3>1, CountStep
  <2>4. OpenParensOnStack'
    <3>1. Count(tmp_opt_stk, Len(tmp_opt_stk), {"("})
             = Count(tmp_opt_stk, Len(tmp_opt_stk), {"("})'
      BY <2>1, <2>2, <2>3
    <3> QED
      BY <1>2, <1>4, <3>1 DEF OpenParensOnStack, PopToRPN
  <2>5. rpn_op_stk' \in Seq(Num \cup Opt)
    BY <1>2, <1>4 DEF PopToRPN
  <2> QED
    BY <1>4, <2>1, <2>4, <2>5 DEF StackKept
<1>5. CASE Operand
  <2>1. /\ token <= Len(mid_op_stk) /\ token' = token + 1
        /\ UNCHANGED <<mid_op_stk, tmp_opt_stk, pc>> /\ mid_op_stk[token] \in Num
        /\ rpn_op_stk' = Append(rpn_op_stk, mid_op_stk[token])
    BY <1>5 DEF Operand, At, Advance
  <2>2. OpenParensOnStack'
    <3>1. mid_op_stk[token] \notin {"(", ")"}
      BY <2>1, TokenAssumption
    <3>2. Depth(mid_op_stk, token - 1)' = Depth(mid_op_stk, token - 1)
      BY <2>1, <3>1, ReadStep
    <3> QED
      BY <1>2, <2>1, <3>2 DEF OpenParensOnStack
  <2>3. MarkerAtBottom' /\ rpn_op_stk' \in Seq(Num \cup Opt)
    BY <1>2, <2>1 DEF MarkerAtBottom
  <2> QED
    BY <1>1, <2>1, <2>2, <2>3 DEF StackKept
<1>6. CASE PopOperator
  <2>1. Last(tmp_opt_stk) \in Opt
    BY <1>3, <1>6 DEF PopOperator, OptLess, StackElement
  <2> QED
    BY <1>1, <1>4, <1>6, <2>1 DEF PopOperator, PopToRPN
<1>7. CASE PushOperator \/ OpenParen
  <2> DEFINE t == mid_op_stk[token]
  <2>1. /\ token <= Len(mid_op_stk) /\ token' = token + 1
        /\ UNCHANGED <<mid_op_stk, rpn_op_stk, pc>> /\ t \in Opt \cup {"("}
        /\ tmp_opt_stk' = Append(tmp_opt_stk, t)
    BY <1>7 DEF PushOperator, OpenParen, At, Advance
  <2>2. /\ MarkerAtBottom'
        /\ \A S : Count(tmp_opt_stk, Len(tmp_opt_stk), S)'
                    = Count(tmp_opt_stk, Len(tmp_opt_stk), S) + IF t \in S THEN 1 ELSE 0
    BY <1>2, <2>1, PushOnStack
  <2>3. Depth(mid_op_stk, token - 1)'
           = Depth(mid_op_stk, token - 1) + IF t = "(" THEN 1 ELSE 0
    <3>1. t = "(" \/ t \notin {"(", ")"}
      BY <2>1, TokenAssumption
    <3> QED
      BY <2>1, <3>1, ReadStep
  <2>4. OpenParensOnStack'
    <3>1. Count(tmp_opt_stk, Len(tmp_opt_stk), {"("})'
             = Count(tmp_opt_stk, Len(tmp_opt_stk), {"("}) + IF t = "(" THEN 1 ELSE 0
      BY <2>2
    <3> QED
      BY <1>2, <2>3, <3>1 DEF OpenParensOnStack
  <2> QED
    BY <1>1, <1>2, <2>1, <2>2, <2>4 DEF StackKept
<1>8. CASE PopInParen
  <2>1. /\ token <= Len(mid_op_stk) /\ mid_op_stk[token] = ")" /\ PopToRPN
        /\ Last(tmp_opt_stk) # "("
    BY <1>8 DEF PopInParen, At
  <2>2. Depth(mid_op_stk, token - 1) > 0
    <3> DEFINE i == token - 1
    <3>1. i \in Nat /\ token = i + 1 /\ token \in 0..Len(mid_op_stk)
      BY <2>1 DEF QueueTypeOK
    <3>2. Depth(mid_op_stk, token) >= 0
      BY <1>2, <3>1 DEF Balanced
    <3>3. mid_op_stk[i + 1] = ")"
      BY <2>1, <3>1
    <3> HIDE DEF i
    <3>4. /\ Count(mid_op_stk, i, {"("}) \in Nat /\ Count(mid_op_stk, i, {")"}) \in Nat
          /\ Count(mid_op_stk, i + 1, {"("}) = Count(mid_op_stk, i, {"("}) + 0
          /\ Count(mid_op_stk, i + 1, {")"}) = Count(mid_op_stk, i, {")"}) + 1
      <4>1. \A S : /\ Count(mid_op_stk, i, S) \in Nat
                   /\ Count(mid_op_stk, i + 1, S)
                        = Count(mid_op_stk, i, S) + IF mid_op_stk[i + 1] \in S THEN 1 ELSE 0
        BY <3>1, CountStep
      <4>2. mid_op_stk[i + 1] \notin {"("} /\ mid_op_stk[i + 1] \in {")"}
        BY <3>3
      <4> QED
        BY <4>1, <4>2
    <3>5. Depth(mid_op_stk, i) > 0
      BY <3>1, <3>2, <3>4 DEF Depth
    <3> QED
      BY <3>5 DEF i
  <2>3. Last(tmp_opt_stk) # "#"
    BY <1>2, <2>2, MarkerNotOnTop DEF OpenParensOnStack
  <2> QED
    BY <1>1, <1>3, <1>4, <2>1, <2>3 DEF StackElement, PopToRPN
<1>9. CASE CloseParen
  <2>1. /\ token <= Len(mid_op_stk) /\ token' = token + 1
        /\ UNCHANGED <<mid_op_stk, rpn_op_stk, pc>> /\ mid_op_stk[token] = ")"
        /\ Last(tmp_opt_stk) = "(" /\ tmp_opt_stk' = Front(tmp_opt_stk)
    BY <1>3, <1>9 DEF CloseParen, At, Advance
  <2>2. /\ MarkerAtBottom'
        /\ \A S : Count(tmp_opt_stk, Len(tmp_opt_stk), S)
                    = Count(tmp_opt_stk, Len(tmp_opt_stk), S)'
                        + IF "(" \in S THEN 1 ELSE 0
    BY <1>2, <2>1, PopFromStack
  <2>3. Count(tmp_opt_stk, Len(tmp_opt_stk), {"("})' \in Nat
    <3>1. Len(tmp_opt_stk') \in Nat
      BY <1>3, <2>1, FrontProperties
    <3> QED
      BY <3>1, CountStep
  <2>4. OpenParensOnStack'
    <3>1. Count(tmp_opt_stk, Len(tmp_opt_stk), {"("})
             = Count(tmp_opt_stk, Len(tmp_opt_stk), {"("})' + 1
      BY <2>2
    <3>2. /\ Depth(mid_op_stk, token - 1)' = Depth(mid_op_stk, token - 1) - 1
          /\ Depth(mid_op_stk, token - 1) \in Int
      BY <2>1, ReadStep
    <3> QED
      BY <1>2, <2>3, <3>1, <3>2 DEF OpenParensOnStack
  <2> QED
    BY <1>1, <1>2, <2>1, <2>2, <2>4 DEF StackKept
<1>10. CASE IllegalToken
  BY <1>2, <1>10 DEF IllegalToken, StackKept, MarkerAtBottom, OpenParensOnStack
<1>11. CASE Flush
  <2>1. token - 1 = Len(mid_op_stk) /\ PopToRPN
    BY <1>11 DEF Flush, QueueTypeOK
  <2>2. Last(tmp_opt_stk) # "#"
    BY <1>2, <1>11, MarkerNotOnTop DEF Flush
  <2>3. Last(tmp_opt_stk) # "("
    <3> DEFINE f == SubSeq(tmp_opt_stk, 1, Len(tmp_opt_stk) - 1)
    <3>1. Count(tmp_opt_stk, Len(tmp_opt_stk), {"("}) = 0
      BY <1>2, <2>1 DEF OpenParensOnStack, Balanced
    <3>2. Count(tmp_opt_stk, Len(tmp_opt_stk), {"("})
             = Count(f, Len(f), {"("}) + IF Last(tmp_opt_stk) \in {"("} THEN 1 ELSE 0
      BY <1>3, CountFront DEF Last
    <3>3. Len(f) \in Nat
      BY <1>3, FrontProperties DEF Front
    <3>4. Count(f, Len(f), {"("}) \in Nat
      BY <3>3, CountStep
    <3> HIDE DEF f
    <3> QED
      BY <3>1, <3>2, <3>4
  <2> QED
    BY <1>1, <1>3, <1>4, <2>1, <2>2, <2>3 DEF StackElement, PopToRPN
<1>12. CASE Return
  <2>1. token > Len(mid_op_stk) /\ Len(tmp_opt_stk) = 1
    <3> DEFINE n == Len(tmp_opt_stk)
    <3>1. n \in Nat \ {0} /\ n <= 1 /\ token > Len(mid_op_stk)
      BY <1>3, <1>12 DEF Return
    <3> HIDE DEF n
    <3>2. n = 1
      BY <3>1
    <3> QED
      BY <3>1, <3>2 DEF n
  <2> QED
    BY <1>2, <1>12, <2>1 DEF Return, StackKept, MarkerAtBottom, OpenParensOnStack
<1> QED
  BY <1>5, <1>6, <1>7, <1>8, <1>9, <1>10, <1>11, <1>12 DEF Convert

-----------------------------------------------------------------------------
\* A step of evalRPN leaves the state of midExpr2RPN alone.
LEMMA EvalKeepsQueues ==
    ASSUME WeightKept, StackKept, pc = "eval",
           UNCHANGED <<mid_op_stk, token, tmp_opt_stk, rpn_op_stk>>
    PROVE  WeightKept' /\ StackKept'
BY DEF WeightKept, Waiting, StackKept, MarkerAtBottom, OpenParensOnStack

\* evalRPN reads one more token of weight w, its stack grows by w.
LEMMA StackGrows ==
    ASSUME EvalTypeOK, StackKept, StackHasWeight, Balanced(mid_op_stk), pc = "eval",
           rpn <= Len(rpn_op_stk), rpn' = rpn + 1, UNCHANGED rpn_op_stk,
           Len(opof') = Len(opof) + Weight(rpn_op_stk[rpn])
    PROVE  Len(opof') = Height(rpn_op_stk, rpn - 1)'
<1>1. /\ rpn \in 1..Len(rpn_op_stk) /\ Len(rpn_op_stk) \in Nat
      /\ rpn' - 1 = rpn /\ Len(opof) = Height(rpn_op_stk, rpn - 1)
  BY DEF EvalTypeOK, QueueTypeOK, StackHasWeight
<1>2. Height(rpn_op_stk, rpn) = Height(rpn_op_stk, rpn - 1) + Weight(rpn_op_stk[rpn])
  <2>1. /\ Height(rpn_op_stk, rpn - 1) \in Int
        /\ Height(rpn_op_stk, rpn) = Height(rpn_op_stk, rpn - 1)
               + (IF rpn_op_stk[rpn] \in Num THEN 1 ELSE 0)
               - (IF rpn_op_stk[rpn] \in Opt THEN 1 ELSE 0)
    BY <1>1, HeightStep
  <2> QED
    BY <2>1 DEF Weight
<1> QED
  BY <1>1, <1>2

\* What a balanced queue leaves for evalRPN is operands and operators.
LEMMA BalancedToken ==
    ASSUME EvalTypeOK, StackKept, Balanced(mid_op_stk), rpn <= Len(rpn_op_stk)
    PROVE  rpn_op_stk[rpn] \in Num \cup Opt
<1>1. rpn_op_stk \in Seq(Num \cup Opt) /\ rpn \in 1..Len(rpn_op_stk)
  BY DEF StackKept, EvalTypeOK
<1> QED
  BY <1>1

\* Every step of the folder keeps the height of evalRPN's stack what it should be.
LEMMA StackHasWeightStep ==
    ASSUME EvalTypeOK, StackKept, StackHasWeight, EvalNext
    PROVE  StackHasWeight'
<1>1. CASE ConvertStep
  <2>1. Convert /\ UNCHANGED <<opof, rpn>> /\ pc = "scan"
    BY <1>1 DEF ConvertStep, evalVars, Convert, Operand, PopOperator, PushOperator,
                OpenParen, PopInParen, CloseParen, IllegalToken, Flush, Return, At
  <2>2. pc' \in {"scan", "eval", "abort"}
    BY <2>1, QueueTypeStep DEF EvalTypeOK
  <2>3. opof' = <<>> /\ rpn' = 1
    BY <2>1 DEF EvalTypeOK
  <2>4. Height(rpn_op_stk', 0) = 0
    BY CountZero DEF Height
  <2>5. Len(opof') = Height(rpn_op_stk, rpn - 1)'
    BY <2>3, <2>4
  <2> QED
    BY <2>2, <2>5 DEF StackHasWeight
<1>2. CASE EvalOperand
  <2> SUFFICES ASSUME Balanced(mid_op_stk)' PROVE StackHasWeight'
    BY DEF StackHasWeight
  <2>1. /\ UNCHANGED <<mid_op_stk, rpn_op_stk, pc>> /\ pc = "eval"
        /\ rpn <= Len(rpn_op_stk) /\ rpn_op_stk[rpn] \notin Opt
        /\ rpn' = rpn + 1 /\ Len(opof') = Len(opof) + 1
    BY <1>2 DEF EvalOperand, EvalAt, EvalTypeOK
  <2>2. rpn_op_stk[rpn] \in Num
    BY <2>1, BalancedToken
  <2>3. Len(opof') = Height(rpn_op_stk, rpn - 1)'
    BY <2>1, <2>2, StackGrows, Weights
  <2> QED
    BY <2>1, <2>3 DEF StackHasWeight
<1>3. CASE EvalOpt
  <2> SUFFICES ASSUME Balanced(mid_op_stk)' PROVE StackHasWeight'
    BY DEF StackHasWeight
  <2>1. /\ UNCHANGED <<mid_op_stk, rpn_op_stk>> /\ pc = "eval"
        /\ rpn <= Len(rpn_op_stk) /\ rpn_op_stk[rpn] \in Opt \cup {"#"}
        /\ Len(opof) >= 2 /\ opof \in Seq(I32) /\ Len(opof) \in Nat
    BY <1>3 DEF EvalOpt, EvalAt, EvalTypeOK
  <2>2. rpn_op_stk[rpn] \in Opt
    BY <2>1, BalancedToken, TokenAssumption
  <2>3. opof[Len(opof)-1] \in I32 /\ Last(opof) \in I32
    BY <2>1 DEF Last
  <2>4. PICK out \in OptOutcomes(opof[Len(opof)-1], rpn_op_stk[rpn], Last(opof)) :
          IF out[1] = "val"
          THEN /\ opof' = Append(SubSeq(opof, 1, Len(opof)-2), out[2])
               /\ rpn' = rpn + 1
               /\ UNCHANGED pc
          ELSE /\ pc' = out[1]
               /\ UNCHANGED <<opof, rpn>>
    BY <1>3 DEF EvalOpt
  <2>5. (out[1] = "val" /\ out[2] \in I32) \/ out[1] \in {"abort", "trap"}
    BY <2>1, <2>3, OutcomeType
  <2>6. CASE out[1] # "val"
    <3>1. pc' \in {"abort", "trap"}
      BY <2>4, <2>5, <2>6
    <3> QED
      BY <3>1 DEF StackHasWeight
  <2>7. CASE out[1] = "val"
    <3> DEFINE n == Len(opof) - 2
    <3>1. /\ n \in 0..Len(opof) /\ Len(opof) = n + 2 /\ rpn' = rpn + 1 /\ UNCHANGED pc
          /\ opof' = Append(SubSeq(opof, 1, n), out[2])
      BY <2>1, <2>4, <2>7
    <3> HIDE DEF n
    <3>2. SubSeq(opof, 1, n) \in Seq(I32) /\ Len(SubSeq(opof, 1, n)) = n
      BY <2>1, <3>1, PrefixLen
    <3>3. Len(opof') = n + 1
      BY <2>5, <2>7, <3>1, <3>2
    <3>4. Len(opof') = Len(opof) + Weight(rpn_op_stk[rpn])
      <4>1. Weight(rpn_op_stk[rpn]) = -1 /\ n \in Nat
        BY <2>1, <2>2, <3>1, Weights
      <4> QED
        BY <3>1, <3>3, <4>1
    <3>5. Len(opof') = Height(rpn_op_stk, rpn - 1)'
      BY <2>1, <3>1, <3>4, StackGrows
    <3> QED
      BY <2>1, <3>1, <3>5 DEF StackHasWeight
  <2> QED
    BY <2>6, <2>7
<1>4. CASE Underflow
  BY <1>4 DEF Underflow, StackHasWeight
<1>5. CASE EvalEnd
  <2> SUFFICES ASSUME Balanced(mid_op_stk)' PROVE StackHasWeight'
    BY DEF StackHasWeight
  <2>1. /\ UNCHANGED <<mid_op_stk, rpn_op_stk, opof, rpn>> /\ pc = "eval"
        /\ rpn = Len(rpn_op_stk) + 1 /\ opof \in Seq(I32) /\ pc' \in {"val", "undefined"}
        /\ pc' = "val" => opof # <<>>
    BY <1>5 DEF EvalEnd, EvalTypeOK, QueueTypeOK
  <2>2. Len(opof) = Height(rpn_op_stk, rpn - 1)
    BY <2>1 DEF StackHasWeight
  <2>3. pc' = "val" => Len(opof) >= 1
    BY <2>1
  <2> QED
    BY <2>1, <2>2, <2>3 DEF StackHasWeight
<1> QED
  BY <1>1, <1>2, <1>3, <1>4, <1>5 DEF EvalNext

\* At the start nothing has been read.
LEMMA BalancedInvInit ==
    ASSUME EvalBegins
    PROVE  BalancedInv
<1>1. /\ mid_op_stk \in Seq(Token) /\ token = 1 /\ pc = "scan"
      /\ tmp_opt_stk = <<"#">> /\ rpn_op_stk = <<>>
  BY DEF EvalBegins, ConvertBegins
<1>2. \A s, S : Count(s, 0, S) = 0
  BY CountZero
<1>3. \A S : "#" \notin S => Count(tmp_opt_stk, 1, S) = 0
  <2>1. \A S : Count(tmp_opt_stk, 0 + 1, S)
                 = Count(tmp_opt_stk, 0, S) + IF tmp_opt_stk[0 + 1] \in S THEN 1 ELSE 0
    BY CountStep
  <2> QED
    BY <1>1, <1>2, <2>1
<1>4. WeightKept
  <2>1. Waiting = 0
    BY <1>1, <1>3, TokenAssumption DEF Waiting
  <2>2. Height(rpn_op_stk, 0) = 0 /\ Height(mid_op_stk, 0) = 0
    BY <1>2 DEF Height
  <2> QED
    BY <1>1, <2>1, <2>2 DEF WeightKept
<1>5. StackKept
  <2>1. Count(tmp_opt_stk, 1, {"("}) = 0
    BY <1>3
  <2>2. Depth(mid_op_stk, 0) = 0
    BY <1>2 DEF Depth
  <2> QED
    BY <1>1, <2>1, <2>2 DEF StackKept, MarkerAtBottom, OpenParensOnStack
<1> QED
  BY <1>1, <1>4, <1>5 DEF BalancedInv, StackHasWeight

\* Every step of the folder keeps the invariant.
LEMMA BalancedInvStep ==
    ASSUME EvalTypeOK, BalancedInv, EvalNext
    PROVE  BalancedInv'
<1>1. StackHasWeight'
  BY StackHasWeightStep DEF BalancedInv
<1>2. CASE ConvertStep
  BY <1>1, <1>2, WeightKeptStep, StackKeptStep DEF BalancedInv, ConvertStep, EvalTypeOK
<1>3. CASE EvalOperand \/ EvalOpt \/ Underflow \/ EvalEnd
  <2>1. pc = "eval" /\ UNCHANGED <<mid_op_stk, token, tmp_opt_stk, rpn_op_stk>>
    BY <1>3 DEF EvalOperand, EvalOpt, Underflow, EvalEnd, EvalAt
  <2> QED
    BY <1>1, <2>1, EvalKeepsQueues DEF BalancedInv
<1> QED
  BY <1>2, <1>3 DEF EvalNext

\* The invariant holds of every run of the folder, on every queue.
THEOREM BalancedInvariant == EvalSpec => []BalancedInv
<1>1. EvalInit => BalancedInv
  BY EvalInitBegins, BalancedInvInit
<1>2. EvalTypeOK /\ BalancedInv /\ [EvalNext \/ Terminated]_folderVars => BalancedInv'
  <2> SUFFICES ASSUME EvalTypeOK, BalancedInv, [EvalNext \/ Terminated]_folderVars
               PROVE  BalancedInv'
    OBVIOUS
  <2>1. CASE EvalNext
    BY <2>1, BalancedInvStep
  <2>2. CASE UNCHANGED folderVars
    BY <2>2 DEF folderVars, convertVars, evalVars, BalancedInv, WeightKept, Waiting,
                StackKept, StackHasWeight, MarkerAtBottom, OpenParensOnStack
  <2> QED
    BY <2>1, <2>2 DEF Terminated
<1> QED
  BY <1>1, <1>2, EvalTypeCorrect, PTL DEF EvalSpec

\* In a balanced queue the value left has its weight in the queue.
LEMMA BalancedNeverFolds ==
    ASSUME EvalTypeOK, BalancedInv
    PROVE  MissingOperandNeverFolds
<1> SUFFICES ASSUME Balanced(mid_op_stk), pc = "val"
             PROVE  Height(mid_op_stk, Len(mid_op_stk)) >= 1
  BY DEF MissingOperandNeverFolds
<1>1. /\ token - 1 = Len(mid_op_stk) /\ Len(tmp_opt_stk) = 1 /\ MarkerAtBottom
      /\ rpn - 1 = Len(rpn_op_stk) /\ Len(opof) = Height(rpn_op_stk, rpn - 1)
      /\ Len(opof) >= 1 /\ Len(opof) \in Nat
  BY DEF BalancedInv, StackKept, StackHasWeight, EvalTypeOK, QueueTypeOK
<1>2. Waiting = 0
  <2>1. tmp_opt_stk[0 + 1] \notin Opt
    BY <1>1, TokenAssumption DEF MarkerAtBottom
  <2>2. Count(tmp_opt_stk, 0 + 1, Opt) = 0 + 0
    BY <2>1, CountStep, CountZero
  <2> QED
    BY <1>1, <2>2 DEF Waiting
<1>3. Height(rpn_op_stk, Len(rpn_op_stk)) - Waiting = Height(mid_op_stk, Len(mid_op_stk))
  BY <1>1 DEF BalancedInv, WeightKept
<1> QED
  BY <1>1, <1>2, <1>3

\* A queue whose parentheses match folds to a value only if it has more operands
\* than operators, whatever its tokens, their priorities and the operators are.
THEOREM EvalMissingNeverFolds == EvalSpec => []MissingOperandNeverFolds
<1>1. EvalTypeOK /\ BalancedInv => MissingOperandNeverFolds
  BY BalancedNeverFolds
<1> QED
  BY <1>1, EvalTypeCorrect, BalancedInvariant, PTL

-----------------------------------------------------------------------------
(* The outcomes of the parts of a queue                                    *)

\* f gives every part of m its outcomes.
Groups(f, m) == f = [p \in Table!Parts(m) |-> Table!PartOutcomes(f, m, p)]

\* The outcomes of the parts of m, by first and last position.
PartValues(m) == CHOOSE f : Groups(f, m)

\* The operators that are outside every parenthesis of m[i..j].
Tops(m, i, j) == {k \in i..j : m[k] \in Opt /\ Depth(m, k) = Depth(m, i - 1)}

\* The outcomes of m are those of the part that is all of it.
LEMMA ValueIsOutcomes ==
    ASSUME NEW m
    PROVE  Table!Outcomes(m) = PartValues(m)[<<1, Len(m)>>]
BY DEF Table!Outcomes, PartValues, Groups

\* Tops is what ConstFold looks for its root among.
LEMMA TopsAreTable ==
    ASSUME NEW m, NEW i, NEW j
    PROVE  Table!TopOperators(m, i, j) = Tops(m, i, j)
BY DEF Table!TopOperators, Table!Depth, Table!Count, Tops, Depth, Count, Cardinality, Table!Cardinality

\* The loosest operator of a part, the last one if several are.
IsRoot(m, i, j, k) ==
    /\ k \in Tops(m, i, j)
    /\ \A l \in Tops(m, i, j) :
          /\ Prio[m[l]] <= Prio[m[k]]
          /\ Prio[m[l]] = Prio[m[k]] => l <= k

\* There is one root at most, and ConstFold chooses it.
LEMMA RootOfTable ==
    ASSUME NEW m, NEW i \in Int, NEW j \in Int, NEW k, IsRoot(m, i, j, k)
    PROVE  Table!Root(m, i, j) = k
<1> DEFINE T == Tops(m, i, j)
           best == {a \in T : \A l \in T : Prio[m[l]] <= Prio[m[a]]}
<1>1. \A a \in T : a \in Int /\ Prio[m[a]] \in Int
  BY TokenAssumption DEF Tops
<1>2. k \in best /\ \A a \in best : k >= a
  BY <1>1 DEF IsRoot
<1>3. \A x \in best : (\A a \in best : x >= a) => x = k
  BY <1>1, <1>2
<1>4. Table!Root(m, i, j) = CHOOSE x \in best : \A a \in best : x >= a
  BY TopsAreTable DEF Table!Root, Table!Max
<1> HIDE DEF best
<1> QED
  BY <1>2, <1>3, <1>4

\* Among finitely many operators there is a root.
LEMMA RootExists ==
    ASSUME NEW m, NEW i \in Int, NEW j \in Int, Tops(m, i, j) # {}
    PROVE  \E k : IsRoot(m, i, j, k)
<1> DEFINE T == Tops(m, i, j)
           w == [a \in T |-> Prio[m[a]]]
<1>1. T # {} /\ \A a \in T : a \in i..j /\ w[a] \in Int
  BY TokenAssumption DEF Tops
<1>2. \A a \in T : w[a] = Prio[m[a]]
  OBVIOUS
<1> HIDE DEF T, w
<1>3. PICK k : LastBest(T, w, k)
  BY <1>1, LastBestExists
<1> QED
  BY <1>2, <1>3 DEF LastBest, IsRoot, T

\* A part is a pair of positions, in any order.
LEMMA PartsOfQueue ==
    ASSUME NEW m
    PROVE  Table!Parts(m) = (1..Len(m)+1) \X (0..Len(m))
BY DEF Table!Parts

\* The outcomes of an operand.
OperandValue(t) == {<<"val", IntOf[t]>>}

\* The three cases of PartOutcomes: one token, parentheses around a part, and
\* an operator with its operands.
LEMMA ShortPart ==
    ASSUME NEW m, NEW f, NEW i \in Int, NEW j \in Int, i >= j
    PROVE  Table!PartOutcomes(f, m, <<i, j>>) = OperandValue(m[i])
BY DEF Table!PartOutcomes, OperandValue

\* No operator is outside the parentheses of m[i..j].
Enclosed(m, i, j) == Tops(m, i, j) = {}

\* A part with no operator outside its parentheses.
LEMMA EnclosedPart ==
    ASSUME NEW m, NEW f, NEW i \in Int, NEW j \in Int, i < j, Enclosed(m, i, j)
    PROVE  Table!PartOutcomes(f, m, <<i, j>>) = f[<<i+1, j-1>>]
BY TopsAreTable DEF Table!PartOutcomes, Enclosed

\* A part with operators outside its parentheses.
LEMMA OperatorPart ==
    ASSUME NEW m, NEW f, NEW i \in Int, NEW j \in Int, i < j,
           NEW k, IsRoot(m, i, j, k)
    PROVE  Table!PartOutcomes(f, m, <<i, j>>)
              = Table!Apply(f[<<i, k-1>>], m[k], f[<<k+1, j>>])
<1>1. Tops(m, i, j) # {} /\ Table!Root(m, i, j) = k
  BY RootOfTable DEF IsRoot
<1> QED
  BY <1>1, TopsAreTable DEF Table!PartOutcomes

\* f and g give the parts of m that are shorter than n the same outcomes.
AgreeBelow(f, g, m, n) ==
    \A a \in 1..Len(m)+1, b \in 0..Len(m) : b - a < n => f[<<a, b>>] = g[<<a, b>>]

\* The outcomes of a part depend on those of shorter parts only.
LEMMA PartIsLocal ==
    ASSUME NEW m, Len(m) \in Nat, NEW f, NEW g,
           NEW i \in 1..Len(m)+1, NEW j \in 0..Len(m),
           AgreeBelow(f, g, m, j - i)
    PROVE  Table!PartOutcomes(f, m, <<i, j>>) = Table!PartOutcomes(g, m, <<i, j>>)
<1>0. i \in Int /\ j \in Int
  OBVIOUS
<1>1. CASE i >= j
  <2>1. \A e : Table!PartOutcomes(e, m, <<i, j>>) = OperandValue(m[i])
    BY <1>0, <1>1, ShortPart
  <2> QED
    BY <2>1
<1>2. CASE i < j /\ Enclosed(m, i, j)
  <2>1. i + 1 \in 1..Len(m)+1 /\ j - 1 \in 0..Len(m) /\ (j - 1) - (i + 1) < j - i
    BY <1>2
  <2>2. f[<<i+1, j-1>>] = g[<<i+1, j-1>>]
    BY <2>1 DEF AgreeBelow
  <2>3. \A e : Table!PartOutcomes(e, m, <<i, j>>) = e[<<i+1, j-1>>]
    BY <1>0, <1>2, EnclosedPart
  <2> QED
    BY <2>2, <2>3
<1>3. CASE i < j /\ ~Enclosed(m, i, j)
  <2>1. PICK k : IsRoot(m, i, j, k)
    BY <1>0, <1>3, RootExists DEF Enclosed
  <2>2. k \in i..j
    BY <2>1 DEF IsRoot, Tops
  <2>3. /\ k - 1 \in 0..Len(m) /\ (k - 1) - i < j - i
        /\ k + 1 \in 1..Len(m)+1 /\ j - (k + 1) < j - i
    BY <1>3, <2>2
  <2>4. f[<<i, k-1>>] = g[<<i, k-1>>] /\ f[<<k+1, j>>] = g[<<k+1, j>>]
    BY <2>3 DEF AgreeBelow
  <2>5. \A e : Table!PartOutcomes(e, m, <<i, j>>)
                 = Table!Apply(e[<<i, k-1>>], m[k], e[<<k+1, j>>])
    BY <1>0, <1>3, <2>1, OperatorPart
  <2> QED
    BY <2>4, <2>5
<1> QED
  BY <1>1, <1>2, <1>3

\* The recursion of ConstFold has a solution; by induction on the length of the
\* parts for which it has one.
LEMMA ValueExists ==
    ASSUME NEW m, Len(m) \in Nat
    PROVE  Groups(PartValues(m), m)
<1> DEFINE P == Table!Parts(m)
           Good(f, n) == \A a \in 1..Len(m)+1, b \in 0..Len(m) :
                            b - a <= n => f[<<a, b>>] = Table!PartOutcomes(f, m, <<a, b>>)
           S == {n \in Nat : \E f : Good(f, n)}
<1>1. \A a \in 1..Len(m)+1, b \in 0..Len(m) : <<a, b>> \in P
  BY PartsOfQueue
<1>2. 0 \in S
  <2> DEFINE f == [p \in P |-> OperandValue(m[p[1]])]
  <2>1. ASSUME NEW a \in 1..Len(m)+1, NEW b \in 0..Len(m), b - a <= 0
        PROVE  f[<<a, b>>] = Table!PartOutcomes(f, m, <<a, b>>)
    <3>1. a \in Int /\ b \in Int /\ a >= b /\ <<a, b>> \in P
      BY <1>1, <2>1
    <3>2. f[<<a, b>>] = OperandValue(m[a])
      BY <3>1
    <3> HIDE DEF f
    <3> QED
      BY <3>1, <3>2, ShortPart
  <2>2. Good(f, 0)
    BY <2>1
  <2> QED
    BY <2>2
<1>3. ASSUME NEW n \in Nat, n \in S PROVE n + 1 \in S
  <2>1. PICK f : Good(f, n)
    BY <1>3
  <2> DEFINE g == [p \in P |-> Table!PartOutcomes(f, m, p)]
  <2>2. ASSUME NEW a \in 1..Len(m)+1, NEW b \in 0..Len(m)
        PROVE  g[<<a, b>>] = Table!PartOutcomes(f, m, <<a, b>>)
    BY <1>1
  <2> HIDE DEF g
  <2>3. ASSUME NEW a \in 1..Len(m)+1, NEW b \in 0..Len(m), b - a <= n
        PROVE  f[<<a, b>>] = g[<<a, b>>]
    BY <2>1, <2>2, <2>3
  <2>4. ASSUME NEW a \in 1..Len(m)+1, NEW b \in 0..Len(m), b - a <= n + 1
        PROVE  g[<<a, b>>] = Table!PartOutcomes(g, m, <<a, b>>)
    <3>1. AgreeBelow(f, g, m, b - a)
      BY <2>3, <2>4 DEF AgreeBelow
    <3>2. Table!PartOutcomes(f, m, <<a, b>>) = Table!PartOutcomes(g, m, <<a, b>>)
      BY <3>1, PartIsLocal
    <3> QED
      BY <2>2, <3>2
  <2>5. Good(g, n + 1)
    BY <2>4
  <2>6. \E e : Good(e, n + 1)
    BY <2>5
  <2> HIDE DEF Good
  <2> QED
    BY <2>6
<1> HIDE DEF S
<1>4. Len(m) \in S
  BY <1>2, <1>3, SetInduction
<1>5. PICK f : Good(f, Len(m))
  BY <1>4 DEF S
<1> DEFINE h == [p \in P |-> f[p]]
<1>6. \A a \in 1..Len(m)+1, b \in 0..Len(m) : h[<<a, b>>] = f[<<a, b>>]
  BY <1>1
<1> HIDE DEF h
<1>7. ASSUME NEW p \in P PROVE h[p] = Table!PartOutcomes(h, m, p)
  <2>1. PICK a \in 1..Len(m)+1, b \in 0..Len(m) : p = <<a, b>>
    BY PartsOfQueue
  <2>2. Table!PartOutcomes(h, m, <<a, b>>) = Table!PartOutcomes(f, m, <<a, b>>)
    <3>1. AgreeBelow(h, f, m, b - a)
      BY <1>6 DEF AgreeBelow
    <3> QED
      BY <3>1, PartIsLocal
  <2>3. b - a <= Len(m)
    OBVIOUS
  <2> QED
    BY <1>5, <1>6, <2>1, <2>2, <2>3
<1>8. Groups(h, m)
  BY <1>7 DEF Groups, h
<1> QED
  BY <1>8 DEF PartValues

\* So that PartValues obeys the three cases above.
LEMMA ValueEquation ==
    ASSUME NEW m, Len(m) \in Nat, NEW i \in 1..Len(m), NEW j \in i..Len(m)
    PROVE  /\ i \in Int /\ j \in Int
           /\ PartValues(m)[<<i, j>>] = Table!PartOutcomes(PartValues(m), m, <<i, j>>)
<1>1. <<i, j>> \in Table!Parts(m)
  BY PartsOfQueue
<1> QED
  BY <1>1, ValueExists DEF Groups

\* One token has the value that it denotes.
LEMMA ValueOfOperand ==
    ASSUME NEW m, Len(m) \in Nat, NEW i \in 1..Len(m)
    PROVE  PartValues(m)[<<i, i>>] = OperandValue(m[i])
<1>1. i \in Int /\ PartValues(m)[<<i, i>>] = Table!PartOutcomes(PartValues(m), m, <<i, i>>)
  BY ValueEquation
<1>2. PICK f : f = PartValues(m)
  OBVIOUS
<1>3. Table!PartOutcomes(f, m, <<i, i>>) = OperandValue(m[i])
  BY <1>1, ShortPart
<1> QED
  BY <1>1, <1>2, <1>3

\* Parentheses have the outcomes of what is between them.
LEMMA ValueOfEnclosed ==
    ASSUME NEW m, Len(m) \in Nat, NEW i \in 1..Len(m), NEW j \in i..Len(m), i < j,
           Tops(m, i, j) = {}
    PROVE  PartValues(m)[<<i, j>>] = PartValues(m)[<<i+1, j-1>>]
<1>1. /\ i \in Int /\ j \in Int /\ Enclosed(m, i, j)
      /\ PartValues(m)[<<i, j>>] = Table!PartOutcomes(PartValues(m), m, <<i, j>>)
  BY ValueEquation DEF Enclosed
<1>2. PICK f : f = PartValues(m)
  OBVIOUS
<1>3. Table!PartOutcomes(f, m, <<i, j>>) = f[<<i+1, j-1>>]
  BY <1>1, EnclosedPart
<1> QED
  BY <1>1, <1>2, <1>3

\* An operator has the outcomes of applying it to those of its operands.
LEMMA ValueOfRoot ==
    ASSUME NEW m, Len(m) \in Nat, NEW i \in 1..Len(m), NEW j \in i..Len(m), i < j,
           NEW k, IsRoot(m, i, j, k)
    PROVE  PartValues(m)[<<i, j>>]
              = Table!Apply(PartValues(m)[<<i, k-1>>], m[k], PartValues(m)[<<k+1, j>>])
<1>1. /\ i \in Int /\ j \in Int
      /\ PartValues(m)[<<i, j>>] = Table!PartOutcomes(PartValues(m), m, <<i, j>>)
  BY ValueEquation
<1>2. PICK f : f = PartValues(m)
  OBVIOUS
<1>3. Table!PartOutcomes(f, m, <<i, j>>) = Table!Apply(f[<<i, k-1>>], m[k], f[<<k+1, j>>])
  BY <1>1, OperatorPart
<1> QED
  BY <1>1, <1>2, <1>3

-----------------------------------------------------------------------------
(* Parts of an infix expression                                            *)

\* m[i..j] is an expression or several without a parenthesis of the others.
IsPart(m, i, j) ==
    /\ i \in 1..Len(m) /\ j \in i..Len(m)
    /\ Depth(m, j) = Depth(m, i - 1)
    /\ \A k \in i..j : Depth(m, k) >= Depth(m, i - 1)

\* The depth changes at parentheses only, by one.
LEMMA DepthSteps ==
    ASSUME NEW m, WellFormed(m)
    PROVE  /\ Len(m) \in Nat
           /\ \A k \in 0..Len(m) : Depth(m, k) \in Int
           /\ \A k \in 1..Len(m) :
                 /\ m[k] = "(" => Depth(m, k) = Depth(m, k-1) + 1
                 /\ m[k] = ")" => Depth(m, k) = Depth(m, k-1) - 1
                 /\ m[k] \in Num \cup Opt => Depth(m, k) = Depth(m, k-1)
<1>1. Len(m) \in Nat
  BY DEF WellFormed
<1>2. \A k \in 1..Len(m) : m[k] \in Num \cup Opt => m[k] \notin {"(", ")"}
  BY TokenAssumption
<1>3. ASSUME NEW k \in 0..Len(m) PROVE Depth(m, k) \in Int
  <2>1. \A S : Count(m, k, S) \in Nat
    BY <1>1, CountStep
  <2> QED
    BY <2>1 DEF Depth
<1> QED
  BY <1>1, <1>2, <1>3, DepthOfWellFormed

\* An operand is a part of its own.
LEMMA OperandIsPart ==
    ASSUME NEW m, WellFormed(m), NEW k \in 1..Len(m), m[k] \in Num
    PROVE  /\ IsPart(m, k, k)
           /\ Tops(m, k, k) = {}
           /\ PartValues(m)[<<k, k>>] = OperandValue(m[k])
<1>1. Len(m) \in Nat /\ k \in k..Len(m) /\ Depth(m, k) = Depth(m, k - 1) /\ Depth(m, k) \in Int
  BY DepthSteps
<1>2. IsPart(m, k, k)
  BY <1>1 DEF IsPart
<1>3. m[k] \notin Opt
  BY TokenAssumption
<1>4. Tops(m, k, k) = {}
  BY <1>3 DEF Tops
<1> QED
  BY <1>1, <1>2, <1>4, ValueOfOperand

\* A part in parentheses is a part, with the same outcomes.
LEMMA ParenIsPart ==
    ASSUME NEW m, WellFormed(m), NEW i \in 1..Len(m), NEW j \in 1..Len(m),
           IsPart(m, i + 1, j - 1), m[i] = "(", m[j] = ")"
    PROVE  /\ IsPart(m, i, j)
           /\ Tops(m, i, j) = {}
           /\ PartValues(m)[<<i, j>>] = PartValues(m)[<<i+1, j-1>>]
<1>1. Len(m) \in Nat /\ i + 1 <= j - 1 /\ i \in Int /\ j \in Int
  BY DepthSteps DEF IsPart
<1> DEFINE d == Depth(m, i - 1)
<1>2. /\ d \in Int /\ Depth(m, i) = d + 1 /\ Depth(m, j) = d
      /\ \A k \in i+1..j-1 : Depth(m, k) >= d + 1
  <2>1. Depth(m, i) = d + 1 /\ Depth(m, j) = Depth(m, j - 1) - 1
    BY DepthSteps
  <2>2. d \in Int /\ Depth(m, j - 1) \in Int
    BY <1>1, DepthSteps
  <2>3. (i + 1) - 1 = i
    BY <1>1
  <2> QED
    BY <2>1, <2>2, <2>3 DEF IsPart
<1>3. \A k \in 0..Len(m) : Depth(m, k) \in Int
  BY DepthSteps
<1>4. IsPart(m, i, j)
  <2>1. j \in i..Len(m)
    BY <1>1
  <2>2. \A k \in i..j : k = i \/ k = j \/ k \in i+1..j-1
    BY <1>1
  <2>3. \A k \in i..j : Depth(m, k) >= d
    <3> HIDE DEF d
    <3>1. d + 1 >= d /\ d >= d
      BY <1>2
    <3>2. ASSUME NEW k \in i+1..j-1 PROVE Depth(m, k) >= d
      <4>1. k \in 0..Len(m)
        BY <1>1
      <4>2. Depth(m, k) \in Int /\ Depth(m, k) >= d + 1
        BY <1>2, <1>3, <4>1
      <4> QED
        BY <1>2, <4>2
    <3> QED
      BY <1>2, <2>2, <3>1, <3>2
  <2> QED
    BY <1>2, <2>1, <2>3 DEF IsPart
<1>5. m[i] \notin Opt /\ m[j] \notin Opt
  BY TokenAssumption
<1>6. Tops(m, i, j) = {}
  <2> SUFFICES ASSUME NEW k \in i..j, m[k] \in Opt, Depth(m, k) = d PROVE FALSE
    BY DEF Tops
  <2>1. k \in i+1..j-1
    BY <1>1, <1>5
  <2> QED
    BY <1>1, <1>2, <1>3, <2>1
<1>7. j \in i..Len(m) /\ i < j
  BY <1>1
<1> QED
  BY <1>1, <1>4, <1>6, <1>7, ValueOfEnclosed

\* Two parts with an operator between them that binds no tighter than those of
\* the left one, and looser than those of the right one, are a part that has this
\* operator as its root.  It is why midExpr2RPN may pop the operator.
LEMMA OperatorJoinsParts ==
    ASSUME NEW m, WellFormed(m), NEW i, NEW j, NEW k \in Int,
           IsPart(m, i, k - 1), IsPart(m, k + 1, j), m[k] \in Opt,
           \A l \in Tops(m, i, k - 1) : Prio[m[l]] <= Prio[m[k]],
           \A l \in Tops(m, k + 1, j) : Prio[m[l]] < Prio[m[k]]
    PROVE  /\ IsPart(m, i, j)
           /\ Tops(m, i, j) = Tops(m, i, k - 1) \cup {k} \cup Tops(m, k + 1, j)
           /\ PartValues(m)[<<i, j>>]
                 = Table!Apply(PartValues(m)[<<i, k-1>>], m[k], PartValues(m)[<<k+1, j>>])
<1>1. /\ Len(m) \in Nat /\ i \in 1..Len(m) /\ j \in 1..Len(m) /\ k \in 1..Len(m)
      /\ i < k /\ k < j
  BY DepthSteps DEF IsPart
<1> DEFINE d == Depth(m, i - 1)
<1>2. (k + 1) - 1 = k
  BY <1>1
<1>3. Depth(m, k - 1) = d /\ Depth(m, k) = d /\ Depth(m, j) = d
  <2>1. Depth(m, k) = Depth(m, k - 1)
    BY <1>1, DepthSteps
  <2> QED
    BY <1>2, <2>1 DEF IsPart
<1>4. \A l \in i..j : l \in i..k-1 \/ l = k \/ l \in k+1..j
  BY <1>1
<1>5. \A l \in i..j : Depth(m, l) >= d
  <2>1. d \in Int
    BY <1>1, DepthSteps
  <2> QED
    BY <1>2, <1>3, <1>4, <2>1 DEF IsPart
<1>6. IsPart(m, i, j)
  BY <1>1, <1>3, <1>5 DEF IsPart
<1>7. Tops(m, i, j) = Tops(m, i, k - 1) \cup {k} \cup Tops(m, k + 1, j)
  <2>1. k \in Tops(m, i, j)
    BY <1>1, <1>3 DEF Tops
  <2>2. Tops(m, k + 1, j) = {l \in k+1..j : m[l] \in Opt /\ Depth(m, l) = d}
    BY <1>2, <1>3 DEF Tops
  <2>3. Tops(m, i, k - 1) = {l \in i..k-1 : m[l] \in Opt /\ Depth(m, l) = d}
    BY DEF Tops
  <2>4. Tops(m, i, j) = {l \in i..j : m[l] \in Opt /\ Depth(m, l) = d}
    BY DEF Tops
  <2>5. i..k-1 \subseteq i..j /\ k+1..j \subseteq i..j
    BY <1>1
  <2> QED
    BY <1>4, <2>1, <2>2, <2>3, <2>4, <2>5
<1>8. IsRoot(m, i, j, k)
  <2>1. \A l \in Tops(m, i, k - 1) : l < k
    BY <1>1 DEF Tops
  <2>2. Prio[m[k]] \in Int
    BY TokenAssumption
  <2>3. \A l \in Tops(m, i, j) : Prio[m[l]] \in Int
    BY TokenAssumption DEF Tops
  <2>4. k \in Tops(m, i, j)
    BY <1>7
  <2>5. ASSUME NEW l \in Tops(m, i, j)
        PROVE  Prio[m[l]] <= Prio[m[k]] /\ (Prio[m[l]] = Prio[m[k]] => l <= k)
    <3>1. CASE l \in Tops(m, i, k - 1)
      <4>1. l < k /\ Prio[m[l]] <= Prio[m[k]] /\ l \in Int
        BY <2>1, <3>1 DEF Tops
      <4> QED
        BY <1>1, <4>1
    <3>2. CASE l = k
      BY <1>1, <2>2, <3>2
    <3>3. CASE l \in Tops(m, k + 1, j)
      BY <2>2, <2>3, <3>3
    <3> QED
      BY <1>7, <3>1, <3>2, <3>3
  <2> QED
    BY <2>4, <2>5 DEF IsRoot
<1>9. j \in i..Len(m) /\ i < j
  BY <1>1
<1> QED
  BY <1>1, <1>6, <1>7, <1>8, <1>9, ValueOfRoot

-----------------------------------------------------------------------------
(* What a sequence in postfix order denotes                                *)

\* The outcomes that are possible at all.
Outcome == ({"val"} \X I32) \cup ({"abort", "trap"} \X {0})

\* What evaluating the token t makes of a stack of sets of outcomes.
Evaluated(D, t) ==
    IF t \in Opt
    THEN Append(SubSeq(D, 1, Len(D)-2), Table!Apply(D[Len(D)-1], t, D[Len(D)]))
    ELSE Append(D, OperandValue(t))

\* d[k] holds the outcomes of the values that are on the stack of evalRPN after
\* the first k tokens of r.
Denotes(d, r) ==
    /\ d \in [0..Len(r) -> Seq(SUBSET Outcome)]
    /\ d[0] = <<>>
    /\ \A k \in 1..Len(r) :
          /\ r[k] \in Opt => Len(d[k-1]) >= 2
          /\ d[k] = Evaluated(d[k-1], r[k])

\* Applying an operator to outcomes gives outcomes.
LEMMA ApplyType ==
    ASSUME NEW L \in SUBSET Outcome, NEW R \in SUBSET Outcome, NEW o \in Opt
    PROVE  Table!Apply(L, o, R) \in SUBSET Outcome
<1>1. ASSUME NEW l \in L, l[1] = "val", NEW r \in R, r[1] = "val"
      PROVE  OptOutcomes(l[2], o, r[2]) \subseteq Outcome
  <2>1. l[2] \in I32 /\ r[2] \in I32
    BY <1>1 DEF Outcome
  <2>2. OptOutcomes(l[2], o, r[2]) \in SUBSET Outcome
    BY <2>1, OutcomesAssumption DEF Outcome
  <2> QED
    BY <2>2
<1> QED
  BY <1>1 DEF Table!Apply

\* An operand has an outcome, its value.
LEMMA OperandValueType ==
    ASSUME NEW t \in Num
    PROVE  OperandValue(t) \in SUBSET Outcome
BY OutcomesAssumption DEF OperandValue, Outcome

\* An operand adds one set of outcomes.
LEMMA EvaluatedOperand ==
    ASSUME NEW D \in Seq(SUBSET Outcome), NEW t \in Num
    PROVE  LET E == Evaluated(D, t) IN
           /\ E \in Seq(SUBSET Outcome)
           /\ Len(E) = Len(D) + 1
           /\ \A q \in 1..Len(D) : E[q] = D[q]
           /\ E[Len(D) + 1] = OperandValue(t)
<1>1. t \notin Opt
  BY TokenAssumption
<1>2. Evaluated(D, t) = Append(D, OperandValue(t))
  BY <1>1 DEF Evaluated
<1>3. OperandValue(t) \in SUBSET Outcome
  BY OperandValueType
<1> DEFINE A == SUBSET Outcome
           x == OperandValue(t)
<1> HIDE DEF A, x
<1>4. D \in Seq(A) /\ x \in A
  BY <1>3 DEF A, x
<1>5. LET E == Append(D, x) IN
      E \in Seq(A) /\ Len(E) = Len(D) + 1 /\ (\A q \in 1..Len(D) : E[q] = D[q]) /\ E[Len(D) + 1] = x
  BY <1>4
<1> QED
  BY <1>2, <1>5 DEF A, x

\* An operator replaces the last two by one.
LEMMA EvaluatedOperator ==
    ASSUME NEW D \in Seq(SUBSET Outcome), NEW t \in Opt, Len(D) >= 2
    PROVE  LET E == Evaluated(D, t) IN
           /\ E \in Seq(SUBSET Outcome)
           /\ Len(E) = Len(D) - 1
           /\ \A q \in 1..Len(D)-2 : E[q] = D[q]
           /\ E[Len(D) - 1] = Table!Apply(D[Len(D)-1], t, D[Len(D)])
<1> DEFINE A == SUBSET Outcome
           x == Table!Apply(D[Len(D)-1], t, D[Len(D)])
           B == SubSeq(D, 1, Len(D) - 2)
<1>1. Evaluated(D, t) = Append(B, x)
  BY DEF Evaluated
<1>2. D \in Seq(A) /\ D[Len(D)-1] \in A /\ D[Len(D)] \in A
  OBVIOUS
<1>3. x \in A
  BY <1>2, ApplyType
<1> HIDE DEF A, x
<1>4. B \in Seq(A) /\ Len(B) = Len(D) - 2 /\ \A q \in 1..Len(D)-2 : B[q] = D[q]
  <2>1. Len(D) - 2 \in 0..Len(D)
    BY <1>2
  <2>2. B \in Seq(A) /\ Len(B) = Len(D) - 2
    BY <1>2, <2>1, PrefixLen
  <2> QED
    BY <1>2, <2>1, <2>2
<1> HIDE DEF B
<1>5. LET E == Append(B, x) IN
      E \in Seq(A) /\ Len(E) = Len(D) - 1 /\ (\A q \in 1..Len(D)-2 : E[q] = D[q]) /\ E[Len(D) - 1] = x
  BY <1>2, <1>3, <1>4
<1> QED
  BY <1>1, <1>5 DEF A, x

\* A token appended to a sequence in postfix order leaves the denotations of
\* its prefixes alone and adds one.
LEMMA DenotesAppend ==
    ASSUME NEW r \in Seq(Num \cup Opt), NEW e \in Num \cup Opt, NEW d, Denotes(d, r),
           e \in Opt => Len(d[Len(r)]) >= 2
    PROVE  \E f : Denotes(f, Append(r, e)) /\ f[Len(r) + 1] = Evaluated(d[Len(r)], e)
<1> DEFINE t == Append(r, e)
           x == Evaluated(d[Len(r)], e)
           f == [k \in 0..Len(t) |-> IF k <= Len(r) THEN d[k] ELSE x]
           A == Seq(SUBSET Outcome)
<1>1. /\ Len(r) \in Nat /\ Len(t) = Len(r) + 1 /\ t[Len(r) + 1] = e
      /\ \A k \in 1..Len(r) : t[k] = r[k]
  OBVIOUS
<1>2. d \in [0..Len(r) -> A]
  BY DEF Denotes
<1>3. d[Len(r)] \in Seq(SUBSET Outcome)
  BY <1>1, <1>2
<1>4. x \in A
  BY <1>3, EvaluatedOperand, EvaluatedOperator
<1> HIDE DEF t, x, A
<1>5. f \in [0..Len(t) -> A] /\ f[Len(r) + 1] = x /\ \A k \in 0..Len(r) : f[k] = d[k]
  BY <1>1, <1>2, <1>4
<1> HIDE DEF f
<1>6. f[0] = <<>>
  BY <1>1, <1>5 DEF Denotes
<1>7. ASSUME NEW k \in 1..Len(t)
      PROVE  (t[k] \in Opt => Len(f[k-1]) >= 2) /\ f[k] = Evaluated(f[k-1], t[k])
  <2>1. CASE k \in 1..Len(r)
    <3>1. f[k] = d[k] /\ f[k-1] = d[k-1] /\ t[k] = r[k]
      BY <1>1, <1>5, <2>1
    <3> QED
      BY <2>1, <3>1 DEF Denotes
  <2>2. CASE k = Len(r) + 1
    <3>1. f[k] = x /\ f[k-1] = d[Len(r)] /\ t[k] = e
      BY <1>1, <1>5, <2>2
    <3> QED
      BY <3>1 DEF x
  <2> QED
    BY <1>1, <2>1, <2>2
<1>8. Denotes(f, t)
  BY <1>5, <1>6, <1>7 DEF Denotes, A
<1> QED
  BY <1>5, <1>8 DEF t, x

-----------------------------------------------------------------------------
(* The operands between the elements of the operator stack                 *)

\* The operators of m[i..j] that are outside its parentheses bind tighter than
\* o, or no less.
TighterThan(m, i, j, o) == \A l \in Tops(m, i, j) : o \in Opt => Prio[m[l]] < Prio[o]
NotLooserThan(m, i, j, o) == \A l \in Tops(m, i, j) : o \in Opt => Prio[m[l]] <= Prio[o]

\* What lies between the elements s-1 and s of the operator stack S, which are
\* the tokens P[s-1] and P[s] of m: nothing before a parenthesis, and before an
\* operator its left operand, whose outcomes D holds.
Gap(m, S, P, D, s) ==
    /\ S[s] = "(" => P[s] = P[s-1] + 1
    /\ S[s] \in Opt =>
          /\ IsPart(m, P[s-1] + 1, P[s] - 1)
          /\ TighterThan(m, P[s-1] + 1, P[s] - 1, S[s-1])
          /\ NotLooserThan(m, P[s-1] + 1, P[s] - 1, S[s])
          /\ S[s-1] \in Opt => Prio[S[s]] < Prio[S[s-1]]
          /\ D[Count(S, s, Opt)] = PartValues(m)[<<P[s-1] + 1, P[s] - 1>>]

\* What lies between the top of the stack and the t-th token: nothing or an
\* operand, which is the last that D holds.
LastGap(m, S, P, D, t) ==
    LET n == Len(S) IN
    /\ ~OperandBefore(m, t) => P[n] = t - 1 /\ Len(D) = Count(S, n, Opt)
    /\ OperandBefore(m, t) =>
          /\ IsPart(m, P[n] + 1, t - 1)
          /\ TighterThan(m, P[n] + 1, t - 1, S[n])
          /\ t <= Len(m) => NotLooserThan(m, P[n] + 1, t - 1, m[t])
          /\ Len(D) = Count(S, n, Opt) + 1
          /\ D[Len(D)] = PartValues(m)[<<P[n] + 1, t - 1>>]

\* Stack and outcomes group the tokens of m before the t-th: P[s] is the position
\* at which the s-th element of the stack was read.
Grouping(m, S, P, D, t) ==
    /\ P \in [1..Len(S) -> 0..t-1]
    /\ P[1] = 0
    /\ \A s \in 2..Len(S) : m[P[s]] = S[s] /\ Gap(m, S, P, D, s)
    /\ LastGap(m, S, P, D, t)

\* A gap depends on the stack up to it and on one set of outcomes only.
LEMMA GapAgrees ==
    ASSUME NEW m, NEW S, NEW P, NEW D, NEW U, NEW Q, NEW E, NEW s \in Nat, s >= 2,
           \A k \in 1..s : S[k] = U[k] /\ P[k] = Q[k],
           S[s] \in Opt => D[Count(S, s, Opt)] = E[Count(S, s, Opt)],
           Gap(m, S, P, D, s)
    PROVE  Gap(m, U, Q, E, s)
<1>1. Count(S, s, Opt) = Count(U, s, Opt)
  BY CountAgree
<1>2. s - 1 \in 1..s /\ s \in 1..s
  OBVIOUS
<1>3. S[s] = U[s] /\ S[s-1] = U[s-1] /\ P[s] = Q[s] /\ P[s-1] = Q[s-1]
  BY <1>2
<1> QED
  BY <1>1, <1>3 DEF Gap

\* D has an element for every operator on the stack, and maybe one more.
LEMMA GroupingLength ==
    ASSUME NEW m, NEW S \in Seq(StackElement), NEW P, NEW D, NEW t,
           Grouping(m, S, P, D, t), NEW s \in 1..Len(S)
    PROVE  /\ Count(S, s, Opt) \in Nat
           /\ Count(S, s, Opt) <= Len(D)
           /\ S[s] \in Opt => Count(S, s, Opt) >= 1
<1>1. Len(S) \in Nat /\ s \in Nat /\ s - 1 \in Nat /\ s \in 0..Len(S)
  OBVIOUS
<1>2. Count(S, s, Opt) \in Nat /\ Count(S, Len(S), Opt) \in Nat
  BY <1>1, CountStep
<1>3. Count(S, s, Opt) <= Count(S, Len(S), Opt)
  BY <1>1, CountMonotone
<1>4. Len(D) >= Count(S, Len(S), Opt)
  BY <1>2 DEF Grouping, LastGap
<1>5. /\ Count(S, s - 1, Opt) \in Nat
      /\ Count(S, (s - 1) + 1, Opt) = Count(S, s - 1, Opt) + IF S[(s-1)+1] \in Opt THEN 1 ELSE 0
  BY <1>1, CountStep
<1>6. (s - 1) + 1 = s
  BY <1>1
<1>7. S[s] \in Opt => Count(S, s, Opt) >= 1
  BY <1>5, <1>6
<1> HIDE DEF StackElement
<1>8. Count(S, s, Opt) <= Len(D)
  <2>1. CASE OperandBefore(m, t)
    BY <1>2, <1>3, <2>1 DEF Grouping, LastGap
  <2>2. CASE ~OperandBefore(m, t)
    BY <1>2, <1>3, <2>2 DEF Grouping, LastGap
  <2> QED
    BY <2>1, <2>2
<1> QED
  BY <1>2, <1>7, <1>8

\* Nothing is read.
LEMMA GroupingStart ==
    ASSUME NEW m
    PROVE  Grouping(m, <<"#">>, [k \in {1} |-> 0], <<>>, 1)
<1>1. Count(<<"#">>, 1, Opt) = 0
  <2>1. Count(<<"#">>, 0, Opt) = 0
    BY CountZero
  <2>2. <<"#">>[0+1] = "#" /\ "#" \notin Opt
    BY TokenAssumption
  <2>3. Count(<<"#">>, 0 + 1, Opt) = Count(<<"#">>, 0, Opt) + IF <<"#">>[0+1] \in Opt THEN 1 ELSE 0
    BY CountStep
  <2> QED
    BY <2>1, <2>2, <2>3
<1>2. ~OperandBefore(m, 1)
  BY DEF OperandBefore
<1> QED
  BY <1>1, <1>2 DEF Grouping, LastGap

\* An operand is read.
LEMMA GroupingOperand ==
    ASSUME NEW m, WellFormed(m), NEW S \in Seq(StackElement), S # <<>>, NEW P,
           NEW D \in Seq(SUBSET Outcome), NEW t \in 1..Len(m),
           Grouping(m, S, P, D, t), m[t] \in Num
    PROVE  Grouping(m, S, P, Evaluated(D, m[t]), t + 1)
<1> DEFINE E == Evaluated(D, m[t])
           n == Len(S)
<1>1. n \in Nat /\ n >= 1 /\ n \in 1..Len(S) /\ t \in Nat /\ Len(m) \in Nat
  BY DepthSteps
<1>2. ~OperandBefore(m, t) /\ OperandBefore(m, t + 1)
  <2>1. ~OperandBefore(m, t)
    BY TokenOfWellFormed, TokenAssumption
  <2>2. (t + 1) - 1 = t /\ t + 1 > 1
    BY <1>1
  <2> QED
    BY <2>1, <2>2 DEF OperandBefore, EndsOperand
<1>3. P[n] = t - 1 /\ Len(D) = Count(S, n, Opt)
  BY <1>2 DEF Grouping, LastGap
<1>4. /\ Len(E) = Len(D) + 1 /\ \A q \in 1..Len(D) : E[q] = D[q]
      /\ E[Len(D) + 1] = OperandValue(m[t])
  BY EvaluatedOperand
<1> HIDE DEF E
<1>5. ASSUME NEW s \in 2..Len(S) PROVE m[P[s]] = S[s] /\ Gap(m, S, P, E, s)
  <2>1. Gap(m, S, P, D, s) /\ m[P[s]] = S[s]
    BY DEF Grouping
  <2>2. S[s] \in Opt => D[Count(S, s, Opt)] = E[Count(S, s, Opt)]
    <3>1. s \in 1..Len(S)
      BY <1>1
    <3>2. S[s] \in Opt => Count(S, s, Opt) \in 1..Len(D)
      BY <3>1, GroupingLength
    <3> QED
      BY <1>4, <3>2
  <2>3. s \in Nat /\ s >= 2
    OBVIOUS
  <2> QED
    BY <2>1, <2>2, <2>3, GapAgrees
<1>6. /\ IsPart(m, t, t) /\ Tops(m, t, t) = {} /\ PartValues(m)[<<t, t>>] = OperandValue(m[t])
  BY OperandIsPart
<1>7. P[n] + 1 = t /\ (t + 1) - 1 = t
  BY <1>1, <1>3
<1>8. LastGap(m, S, P, E, t + 1)
  BY <1>2, <1>3, <1>4, <1>6, <1>7 DEF LastGap, TighterThan, NotLooserThan
<1>9. P \in [1..Len(S) -> 0..(t+1)-1] /\ P[1] = 0
  BY <1>1 DEF Grouping
<1> QED
  BY <1>5, <1>8, <1>9 DEF Grouping, E

\* The positions of the stack's elements when the t-th token is pushed.
PushedAt(P, n, t) == [k \in 1..n+1 |-> IF k = n+1 THEN t ELSE P[k]]

\* The stack U with its positions Q is S with e, the t-th token, on top.
AfterPush(m, S, P, D, e, t, n, U, Q) ==
    /\ n \in Nat \ {0} /\ Len(U) = n + 1
    /\ U[n+1] = e /\ U[n] = S[n] /\ Q[n+1] = t /\ Q[n] = P[n]
    /\ Q \in [1..Len(U) -> 0..t] /\ Q[1] = 0
    /\ \A s \in 2..n : Gap(m, U, Q, D, s)
    /\ \A s \in 2..n+1 : m[Q[s]] = U[s]
    /\ Count(S, n, Opt) \in Nat
    /\ Count(U, n+1, Opt) = Count(S, n, Opt) + IF e \in Opt THEN 1 ELSE 0

\* A token that goes onto the stack leaves the gaps below as they are.
LEMMA GapsBelowPush ==
    ASSUME NEW m, NEW S \in Seq(StackElement), NEW e \in StackElement, NEW P, NEW D,
           NEW t \in Nat, t >= 1, Grouping(m, S, P, D, t), S # <<>>, m[t] = e
    PROVE  AfterPush(m, S, P, D, e, t, Len(S), Append(S, e), PushedAt(P, Len(S), t))
<1> DEFINE n == Len(S)
           U == Append(S, e)
           Q == PushedAt(P, n, t)
           A == StackElement
<1> HIDE DEF A
<1>1. n \in Nat \ {0} /\ Len(U) = n + 1 /\ U[n+1] = e /\ \A k \in 1..n : U[k] = S[k]
  <2>1. S \in Seq(A) /\ e \in A
    BY DEF A
  <2> QED
    BY <2>1
<1>2. P \in [1..n -> 0..t-1] /\ P[1] = 0
  BY DEF Grouping
<1>3. /\ Q \in [1..Len(U) -> 0..t] /\ Q[n+1] = t /\ \A k \in 1..n : Q[k] = P[k]
  BY <1>1, <1>2 DEF PushedAt
<1>4. Count(S, n, Opt) \in Nat /\ Count(U, Len(U), Opt) = Count(S, n, Opt) + IF e \in Opt THEN 1 ELSE 0
  <2>1. S \in Seq(A) /\ e \in A
    BY DEF A
  <2>2. Count(S, n, Opt) \in Nat
    BY <1>1, CountStep
  <2>3. Count(U, Len(U), Opt) = Count(S, n, Opt) + IF e \in Opt THEN 1 ELSE 0
    BY <2>1, CountAppend
  <2> QED
    BY <2>2, <2>3
<1> HIDE DEF U, Q
<1>5. ASSUME NEW s \in 2..n PROVE m[Q[s]] = U[s] /\ Gap(m, U, Q, D, s)
  <2>1. Gap(m, S, P, D, s) /\ m[P[s]] = S[s]
    BY DEF Grouping
  <2>2. s \in Nat /\ s >= 2 /\ s \in 1..n /\ \A k \in 1..s : S[k] = U[k] /\ P[k] = Q[k]
    BY <1>1, <1>3
  <2>3. Gap(m, U, Q, D, s)
    BY <2>1, <2>2, GapAgrees
  <2> QED
    BY <1>1, <1>3, <2>1, <2>2, <2>3
<1>6. \A s \in 2..n+1 : m[Q[s]] = U[s]
  <2>1. m[Q[n+1]] = U[n+1]
    BY <1>1, <1>3
  <2> QED
    BY <1>1, <1>5, <2>1
<1>7. n \in 1..n /\ 1 \in 1..n
  BY <1>1
<1>8. U[n] = S[n] /\ Q[n] = P[n] /\ Q[1] = 0
  BY <1>1, <1>2, <1>3, <1>7
<1> QED
  BY <1>1, <1>3, <1>4, <1>5, <1>6, <1>8 DEF AfterPush, U, Q

\* A parenthesis is opened.
LEMMA GroupingOpen ==
    ASSUME NEW m, WellFormed(m), NEW S \in Seq(StackElement), S # <<>>, NEW P,
           NEW D, NEW t \in 1..Len(m), Grouping(m, S, P, D, t), m[t] = "("
    PROVE  \E Q : Grouping(m, Append(S, "("), Q, D, t + 1)
<1> DEFINE n == Len(S)
           U == Append(S, "(")
           Q == PushedAt(P, n, t)
<1>1. t \in Nat /\ t >= 1 /\ (t + 1) - 1 = t /\ "(" \in StackElement /\ "(" \notin Opt
  BY DepthSteps, TokenAssumption DEF StackElement
<1>2. /\ n \in Nat \ {0} /\ Len(U) = n + 1
      /\ U[n+1] = "(" /\ Q[n+1] = t /\ Q[n] = P[n]
      /\ Q \in [1..Len(U) -> 0..t] /\ Q[1] = 0
      /\ \A s \in 2..n : Gap(m, U, Q, D, s)
      /\ \A s \in 2..n+1 : m[Q[s]] = U[s]
      /\ Count(U, n+1, Opt) = Count(S, n, Opt) + IF "(" \in Opt THEN 1 ELSE 0
      /\ Count(S, n, Opt) \in Nat
  <2>1. AfterPush(m, S, P, D, "(", t, n, U, Q)
    BY <1>1, GapsBelowPush
  <2> HIDE DEF U, Q
  <2> QED
    BY <2>1 DEF AfterPush
<1>3. ~OperandBefore(m, t) /\ ~OperandBefore(m, t + 1)
  <2>1. ~OperandBefore(m, t)
    BY TokenOfWellFormed, TokenAssumption
  <2>2. "(" \notin Num
    BY TokenAssumption
  <2> QED
    BY <1>1, <2>1, <2>2 DEF OperandBefore, EndsOperand
<1>4. P[n] = t - 1 /\ Len(D) = Count(S, n, Opt)
  BY <1>3 DEF Grouping, LastGap
<1> HIDE DEF U, Q
<1>5. Gap(m, U, Q, D, n + 1)
  <2>1. (n + 1) - 1 = n /\ Q[n+1] = Q[n] + 1
    BY <1>1, <1>2, <1>4
  <2> QED
    BY <1>1, <1>2, <2>1 DEF Gap
<1>6. LastGap(m, U, Q, D, t + 1)
  BY <1>1, <1>2, <1>3, <1>4 DEF LastGap
<1>7. Grouping(m, U, Q, D, t + 1)
  BY <1>1, <1>2, <1>5, <1>6 DEF Grouping
<1> QED
  BY <1>7 DEF U

\* An operator is pushed, which binds tighter than the one on the top.
LEMMA GroupingPush ==
    ASSUME NEW m, WellFormed(m), NEW S \in Seq(StackElement), S # <<>>, NEW P,
           NEW D, NEW t \in 1..Len(m), Grouping(m, S, P, D, t), m[t] \in Opt,
           Last(S) \in Opt => Prio[m[t]] < Prio[Last(S)]
    PROVE  \E Q : Grouping(m, Append(S, m[t]), Q, D, t + 1)
<1> DEFINE n == Len(S)
           U == Append(S, m[t])
           Q == PushedAt(P, n, t)
<1>1. /\ t \in Nat /\ t >= 1 /\ (t + 1) - 1 = t /\ t <= Len(m)
      /\ m[t] \in StackElement /\ m[t] # "("
  BY DepthSteps, TokenAssumption DEF StackElement
<1>2. /\ n \in Nat \ {0} /\ Len(U) = n + 1
      /\ U[n+1] = m[t] /\ Q[n+1] = t /\ Q[n] = P[n] /\ U[n] = S[n]
      /\ Q \in [1..Len(U) -> 0..t] /\ Q[1] = 0
      /\ \A s \in 2..n : Gap(m, U, Q, D, s)
      /\ \A s \in 2..n+1 : m[Q[s]] = U[s]
      /\ Count(U, n+1, Opt) = Count(S, n, Opt) + IF m[t] \in Opt THEN 1 ELSE 0
      /\ Count(S, n, Opt) \in Nat
  <2>1. AfterPush(m, S, P, D, m[t], t, n, U, Q)
    BY <1>1, GapsBelowPush
  <2> HIDE DEF U, Q
  <2> QED
    BY <2>1 DEF AfterPush
<1>3. OperandBefore(m, t) /\ ~OperandBefore(m, t + 1)
  <2>1. OperandBefore(m, t)
    BY TokenOfWellFormed, TokenAssumption
  <2>2. m[t] \notin Num /\ m[t] # ")"
    BY TokenAssumption
  <2> QED
    BY <1>1, <2>1, <2>2 DEF OperandBefore, EndsOperand
<1>4. /\ IsPart(m, P[n] + 1, t - 1)
      /\ TighterThan(m, P[n] + 1, t - 1, S[n])
      /\ NotLooserThan(m, P[n] + 1, t - 1, m[t])
      /\ Len(D) = Count(S, n, Opt) + 1
      /\ D[Len(D)] = PartValues(m)[<<P[n] + 1, t - 1>>]
  BY <1>1, <1>3 DEF Grouping, LastGap
<1>5. S[n] \in Opt => Prio[m[t]] < Prio[S[n]]
  BY DEF Last
<1> HIDE DEF U, Q
<1>6. Gap(m, U, Q, D, n + 1)
  <2>1. (n + 1) - 1 = n /\ Count(U, n+1, Opt) = Len(D)
    BY <1>1, <1>2, <1>4
  <2> QED
    BY <1>1, <1>2, <1>4, <1>5, <2>1 DEF Gap
<1>7. LastGap(m, U, Q, D, t + 1)
  BY <1>1, <1>2, <1>3, <1>4 DEF LastGap
<1>8. Grouping(m, U, Q, D, t + 1)
  BY <1>1, <1>2, <1>6, <1>7 DEF Grouping
<1> QED
  BY <1>8 DEF U

\* The stack U with its positions Q is S without its top.
AfterPop(m, S, P, D, t, n, U, Q) ==
    /\ n - 1 \in Nat \ {0} /\ Len(U) = n - 1
    /\ U[n-1] = S[n-1] /\ Q[n-1] = P[n-1]
    /\ Q \in [1..n-1 -> 0..t-1] /\ Q[1] = 0
    /\ \A s \in 2..n-1 : m[Q[s]] = U[s] /\ Gap(m, U, Q, D, s)
    /\ \A s \in 1..n-1 : Count(U, s, Opt) \in Nat /\ Count(U, s, Opt) <= Count(U, n-1, Opt)
    /\ Count(S, n, Opt) = Count(U, n-1, Opt) + IF S[n] \in Opt THEN 1 ELSE 0

\* The positions of all elements of a stack but the top.
Popped(P, n) == [k \in 1..n-1 |-> P[k]]

\* An element that leaves the stack leaves the gaps below as they are.
LEMMA GapsBelowPop ==
    ASSUME NEW m, NEW S \in Seq(StackElement), Len(S) >= 2, NEW P, NEW D,
           NEW t \in Nat, Grouping(m, S, P, D, t)
    PROVE  AfterPop(m, S, P, D, t, Len(S), Front(S), Popped(P, Len(S)))
<1> DEFINE n == Len(S)
           U == Front(S)
           Q == Popped(P, n)
<1>0. n \in Nat /\ n >= 2 /\ S # <<>>
  OBVIOUS
<1>1. Len(U) = n - 1 /\ \A k \in 1..n-1 : U[k] = S[k]
  BY <1>0, FrontProperties
<1>2. P \in [1..n -> 0..t-1] /\ P[1] = 0
  BY DEF Grouping
<1>3. Q \in [1..n-1 -> 0..t-1] /\ \A k \in 1..n-1 : Q[k] = P[k]
  BY <1>0, <1>2 DEF Popped
<1> HIDE DEF n, U, Q
<1>4. ASSUME NEW s \in 2..n-1 PROVE m[Q[s]] = U[s] /\ Gap(m, U, Q, D, s)
  <2>1. s \in 2..n /\ Gap(m, S, P, D, s) /\ m[P[s]] = S[s]
    BY <1>0 DEF Grouping, n
  <2>2. s \in Nat /\ s >= 2 /\ s \in 1..n-1 /\ \A k \in 1..s : S[k] = U[k] /\ P[k] = Q[k]
    BY <1>0, <1>1, <1>3
  <2>3. Gap(m, U, Q, D, s)
    BY <2>1, <2>2, GapAgrees
  <2> QED
    BY <1>1, <1>3, <2>1, <2>2, <2>3
<1>5. ASSUME NEW s \in 1..n-1
      PROVE  Count(U, s, Opt) \in Nat /\ Count(U, s, Opt) <= Count(U, n-1, Opt)
  <2>1. s \in Nat /\ n - 1 \in Nat /\ s \in 0..n-1
    BY <1>0
  <2>2. Count(U, s, Opt) \in Nat
    BY <2>1, CountStep
  <2>3. Count(U, s, Opt) <= Count(U, n-1, Opt)
    BY <2>1, CountMonotone
  <2> QED
    BY <2>2, <2>3
<1>6. Count(S, n, Opt) = Count(U, n-1, Opt) + IF S[n] \in Opt THEN 1 ELSE 0
  <2>1. n - 1 \in Nat /\ (n - 1) + 1 = n
    BY <1>0
  <2>2. Count(S, (n-1) + 1, Opt) = Count(S, n-1, Opt) + IF S[(n-1)+1] \in Opt THEN 1 ELSE 0
    BY <2>1, CountStep
  <2>3. Count(S, n-1, Opt) = Count(U, n-1, Opt)
    BY <1>1, <2>1, CountAgree
  <2> QED
    BY <2>1, <2>2, <2>3
<1>7. n - 1 \in Nat \ {0} /\ n - 1 \in 1..n-1 /\ 1 \in 1..n-1
  BY <1>0
<1>8. U[n-1] = S[n-1] /\ Q[n-1] = P[n-1] /\ Q[1] = 0
  BY <1>1, <1>2, <1>3, <1>7
<1> QED
  BY <1>1, <1>3, <1>4, <1>5, <1>6, <1>7, <1>8 DEF AfterPop, n, U, Q

\* A parenthesis is closed, the one on the top of the stack.
LEMMA GroupingClose ==
    ASSUME NEW m, WellFormed(m), NEW S \in Seq(StackElement), Len(S) >= 2, NEW P,
           NEW D, NEW t \in 1..Len(m), Grouping(m, S, P, D, t),
           m[t] = ")", Last(S) = "("
    PROVE  \E Q : Grouping(m, Front(S), Q, D, t + 1)
<1> DEFINE n == Len(S)
           U == Front(S)
           Q == Popped(P, n)
<1>1. /\ t \in Nat /\ (t + 1) - 1 = t /\ t + 1 > 1 /\ "(" \notin Opt
      /\ n \in Nat /\ n >= 2 /\ n \in 2..Len(S) /\ S[n] = "(" /\ Len(m) \in Nat
  BY DepthSteps, TokenAssumption DEF Last
<1>2. AfterPop(m, S, P, D, t, n, U, Q)
  BY <1>1, GapsBelowPop
<1>3. OperandBefore(m, t) /\ OperandBefore(m, t + 1)
  <2>1. OperandBefore(m, t)
    BY TokenOfWellFormed, TokenAssumption
  <2> QED
    BY <1>1, <2>1 DEF OperandBefore, EndsOperand
<1>4. /\ IsPart(m, P[n] + 1, t - 1)
      /\ Len(D) = Count(S, n, Opt) + 1
      /\ D[Len(D)] = PartValues(m)[<<P[n] + 1, t - 1>>]
  BY <1>1, <1>3 DEF Grouping, LastGap
<1>5. m[P[n]] = "(" /\ P[n] = P[n-1] + 1 /\ P[n] \in 0..t-1 /\ P[n-1] \in 0..t-1
  <2>1. m[P[n]] = S[n] /\ Gap(m, S, P, D, n) /\ n \in 1..Len(S) /\ n - 1 \in 1..Len(S)
    BY <1>1 DEF Grouping
  <2>2. P[n] \in 0..t-1 /\ P[n-1] \in 0..t-1
    BY <2>1 DEF Grouping
  <2> QED
    BY <1>1, <2>1, <2>2 DEF Gap
<1> DEFINE i == P[n]
<1> HIDE DEF U, Q, i
<1>6. /\ IsPart(m, i, t) /\ Tops(m, i, t) = {}
      /\ PartValues(m)[<<i, t>>] = PartValues(m)[<<i+1, t-1>>]
  <2>1. i \in 1..Len(m) /\ m[i] = "(" /\ IsPart(m, i + 1, t - 1)
    BY <1>1, <1>4, <1>5 DEF i
  <2> QED
    BY <2>1, ParenIsPart
<1>7. Q[n-1] + 1 = i /\ Len(U) = n - 1 /\ Len(D) = Count(U, n-1, Opt) + 1
  BY <1>1, <1>2, <1>4, <1>5 DEF AfterPop, i
<1>8. LastGap(m, U, Q, D, t + 1)
  <2>1. D[Len(D)] = PartValues(m)[<<i, t>>]
    BY <1>4, <1>6 DEF i
  <2> QED
    BY <1>1, <1>3, <1>6, <1>7, <2>1 DEF LastGap, TighterThan, NotLooserThan
<1>9. Q \in [1..Len(U) -> 0..(t+1)-1]
  BY <1>1, <1>2 DEF AfterPop
<1>10. Grouping(m, U, Q, D, t + 1)
  BY <1>2, <1>8, <1>9 DEF Grouping, AfterPop
<1> QED
  BY <1>10 DEF U

\* The operator on the top joins the operands before and after it.
LEMMA GroupingJoin ==
    ASSUME NEW m, WellFormed(m), NEW S \in Seq(StackElement), Len(S) >= 2, NEW P,
           NEW D \in Seq(SUBSET Outcome), NEW t \in Nat, Grouping(m, S, P, D, t),
           OperandBefore(m, t), Last(S) \in Opt,
           t <= Len(m) /\ m[t] \in Opt => Prio[Last(S)] <= Prio[m[t]]
    PROVE  /\ Len(D) >= 2
           /\ \E Q : Grouping(m, Front(S), Q, Evaluated(D, Last(S)), t)
<1> DEFINE n == Len(S)
           o == Last(S)
           U == Front(S)
           Q == Popped(P, n)
           E == Evaluated(D, o)
           c == Count(S, n, Opt)
           k == P[n]
           i == P[n-1] + 1
           j == t - 1
<1>1. /\ n \in Nat /\ n >= 2 /\ n \in 2..Len(S) /\ n - 1 \in 1..Len(S) /\ n \in 1..Len(S)
      /\ S[n] = o /\ o # "("
  BY TokenAssumption DEF Last
<1>2. AfterPop(m, S, P, D, t, n, U, Q)
  BY <1>1, GapsBelowPop
<1>3. /\ IsPart(m, k + 1, j)
      /\ TighterThan(m, k + 1, j, o)
      /\ t <= Len(m) => NotLooserThan(m, k + 1, j, m[t])
      /\ Len(D) = c + 1
      /\ D[Len(D)] = PartValues(m)[<<k + 1, j>>]
  BY <1>1 DEF Grouping, LastGap
<1>4. /\ m[k] = o
      /\ IsPart(m, i, k - 1)
      /\ TighterThan(m, i, k - 1, S[n-1])
      /\ NotLooserThan(m, i, k - 1, o)
      /\ S[n-1] \in Opt => Prio[o] < Prio[S[n-1]]
      /\ D[c] = PartValues(m)[<<i, k - 1>>]
  BY <1>1 DEF Grouping, Gap
<1>5. k \in Int /\ P[n-1] \in Int /\ Prio[o] \in Int
  <2>1. P \in [1..Len(S) -> 0..t-1]
    BY DEF Grouping
  <2>2. P[n] \in 0..t-1 /\ P[n-1] \in 0..t-1
    BY <1>1, <2>1
  <2> QED
    BY <2>2, TokenAssumption
<1>6. c \in Nat /\ Count(U, n-1, Opt) \in Nat /\ c = Count(U, n-1, Opt) + 1
  BY <1>1, <1>2 DEF AfterPop
<1>7. /\ Len(E) = c /\ \A q \in 1..c-1 : E[q] = D[q]
      /\ E[c] = Table!Apply(D[c], o, D[c+1])
  <2>1. Len(D) >= 2 /\ Len(D) = c + 1 /\ c \in Nat
    BY <1>3, <1>6
  <2>2. /\ Len(E) = Len(D) - 1
        /\ \A q \in 1..Len(D)-2 : E[q] = D[q]
        /\ E[Len(D) - 1] = Table!Apply(D[Len(D)-1], o, D[Len(D)])
    BY <2>1, EvaluatedOperator
  <2>3. Len(D) - 1 = c /\ Len(D) - 2 = c - 1
    BY <2>1
  <2> QED
    BY <2>1, <2>2, <2>3
<1> HIDE DEF o, U, Q, E, c, k, i, j
<1>8. /\ IsPart(m, i, j)
      /\ Tops(m, i, j) = Tops(m, i, k - 1) \cup {k} \cup Tops(m, k + 1, j)
      /\ PartValues(m)[<<i, j>>]
            = Table!Apply(PartValues(m)[<<i, k-1>>], m[k], PartValues(m)[<<k+1, j>>])
  <2>1. \A l \in Tops(m, i, k - 1) : Prio[m[l]] <= Prio[m[k]]
    BY <1>4 DEF NotLooserThan, o
  <2>2. \A l \in Tops(m, k + 1, j) : Prio[m[l]] < Prio[m[k]]
    BY <1>3, <1>4 DEF TighterThan, o
  <2>3. m[k] \in Opt /\ k \in Int
    BY <1>4, <1>5 DEF o
  <2>4. IsPart(m, i, k - 1) /\ IsPart(m, k + 1, j)
    BY <1>3, <1>4
  <2> QED
    BY <2>1, <2>2, <2>3, <2>4, OperatorJoinsParts
<1>9. \A l \in Tops(m, i, j) : Prio[m[l]] \in Int
  BY TokenAssumption DEF Tops
<1>10. TighterThan(m, i, j, S[n-1])
  <2> SUFFICES ASSUME NEW l \in Tops(m, i, j), S[n-1] \in Opt
               PROVE  Prio[m[l]] < Prio[S[n-1]]
    BY DEF TighterThan
  <2>1. Prio[S[n-1]] \in Int /\ Prio[o] < Prio[S[n-1]]
    BY <1>4, TokenAssumption
  <2>2. CASE l \in Tops(m, i, k - 1)
    BY <1>4, <2>2 DEF TighterThan
  <2>3. CASE l = k
    BY <1>4, <2>1, <2>3
  <2>4. CASE l \in Tops(m, k + 1, j)
    <3>1. Prio[m[l]] < Prio[o]
      BY <1>3, <2>4 DEF TighterThan, o
    <3> QED
      BY <1>5, <1>9, <2>1, <3>1
  <2> QED
    BY <1>8, <2>2, <2>3, <2>4
<1>11. ASSUME t <= Len(m) PROVE NotLooserThan(m, i, j, m[t])
  <2> SUFFICES ASSUME NEW l \in Tops(m, i, j), m[t] \in Opt
               PROVE  Prio[m[l]] <= Prio[m[t]]
    BY DEF NotLooserThan
  <2>1. Prio[m[t]] \in Int /\ Prio[o] <= Prio[m[t]]
    BY <1>11, TokenAssumption DEF o
  <2>2. CASE l \in Tops(m, i, k - 1)
    <3>1. Prio[m[l]] <= Prio[o]
      BY <1>4, <2>2 DEF NotLooserThan, o
    <3> QED
      BY <1>5, <1>9, <2>1, <3>1
  <2>3. CASE l = k
    BY <1>4, <2>1, <2>3
  <2>4. CASE l \in Tops(m, k + 1, j)
    BY <1>3, <1>11, <2>4 DEF NotLooserThan
  <2> QED
    BY <1>8, <2>2, <2>3, <2>4
<1>12. E[Len(E)] = PartValues(m)[<<i, j>>]
  BY <1>3, <1>4, <1>7, <1>8
<1>13. LastGap(m, U, Q, E, t)
  <2>1. Len(U) = n - 1 /\ Q[n-1] + 1 = i /\ U[n-1] = S[n-1]
    BY <1>2 DEF AfterPop, i
  <2>2. Len(E) = Count(U, n-1, Opt) + 1
    BY <1>6, <1>7
  <2> QED
    BY <1>8, <1>10, <1>11, <1>12, <2>1, <2>2 DEF LastGap, j
<1>14. ASSUME NEW s \in 2..Len(U) PROVE m[Q[s]] = U[s] /\ Gap(m, U, Q, E, s)
  <2>1. /\ s \in 2..n-1 /\ s \in 1..n-1 /\ s \in Nat /\ s >= 2
    BY <1>1, <1>2 DEF AfterPop
  <2>2. /\ m[Q[s]] = U[s] /\ Gap(m, U, Q, D, s)
        /\ Count(U, s, Opt) \in Nat /\ Count(U, s, Opt) <= Count(U, n-1, Opt)
    BY <1>2, <2>1 DEF AfterPop
  <2>3. U[s] \in Opt => D[Count(U, s, Opt)] = E[Count(U, s, Opt)]
    <3>1. U[s] \in Opt => Count(U, s, Opt) >= 1
      <4>1. s - 1 \in Nat /\ (s - 1) + 1 = s
        BY <2>1
      <4>2. /\ Count(U, s - 1, Opt) \in Nat
            /\ Count(U, (s - 1) + 1, Opt)
                  = Count(U, s - 1, Opt) + IF U[(s-1)+1] \in Opt THEN 1 ELSE 0
        BY <4>1, CountStep
      <4> QED
        BY <4>1, <4>2
    <3>2. U[s] \in Opt => Count(U, s, Opt) \in 1..c-1
      BY <1>6, <2>2, <3>1
    <3> QED
      BY <1>7, <3>2
  <2>4. Gap(m, U, Q, E, s)
    BY <2>1, <2>2, <2>3, GapAgrees
  <2> QED
    BY <2>2, <2>4
<1>15. Q \in [1..Len(U) -> 0..t-1] /\ Q[1] = 0
  BY <1>2 DEF AfterPop
<1>16. Grouping(m, U, Q, E, t)
  BY <1>13, <1>14, <1>15 DEF Grouping
<1>17. Len(D) >= 2
  BY <1>3, <1>6
<1> QED
  BY <1>16, <1>17 DEF U, E, o

\* Nothing but the marker is left after the last token.
LEMMA GroupingEnd ==
    ASSUME NEW m, WellFormed(m), NEW S, Len(S) = 1, S[1] = "#", NEW P, NEW D,
           Grouping(m, S, P, D, Len(m) + 1)
    PROVE  Len(D) = 1 /\ D[1] = Table!Outcomes(m)
<1>1. Len(m) \in Nat /\ Len(m) >= 1 /\ (Len(m) + 1) - 1 = Len(m)
  BY DEF WellFormed
<1>2. OperandBefore(m, Len(m) + 1)
  BY <1>1 DEF OperandBefore, WellFormed
<1>3. Count(S, 1, Opt) = 0
  <2>1. Count(S, 0, Opt) = 0
    BY CountZero
  <2>2. Count(S, 0 + 1, Opt) = Count(S, 0, Opt) + IF S[0+1] \in Opt THEN 1 ELSE 0
    BY CountStep
  <2>3. "#" \notin Opt
    BY TokenAssumption
  <2> QED
    BY <2>1, <2>2, <2>3
<1>4. P[1] = 0 /\ Len(D) = 1 /\ D[Len(D)] = PartValues(m)[<<P[1] + 1, Len(m)>>]
  BY <1>1, <1>2, <1>3 DEF Grouping, LastGap
<1> QED
  BY <1>4, ValueIsOutcomes

-----------------------------------------------------------------------------
(* The invariant, and the steps of midExpr2RPN                             *)

\* While midExpr2RPN runs, queue and stack group the tokens read so far.
ScanGroups ==
    \E P, d : /\ Denotes(d, rpn_op_stk)
              /\ Grouping(mid_op_stk, tmp_opt_stk, P, d[Len(rpn_op_stk)], token)

\* While evalRPN runs, every value on its stack is an outcome of the part of the
\* expression that it stands for, and the queue denotes the expression.
StackMatches ==
    \E d : /\ Denotes(d, rpn_op_stk)
           /\ Len(d[Len(rpn_op_stk)]) = 1
           /\ d[Len(rpn_op_stk)][1] = Table!Outcomes(mid_op_stk)
           /\ Len(opof) = Len(d[rpn - 1])
           /\ \A q \in 1..Len(opof) : <<"val", opof[q]>> \in d[rpn - 1][q]

\* The inductive invariant: what the folder is about to compute is always an
\* outcome of the expression as the table of priorities groups it.
FoldInv ==
    WellFormed(mid_op_stk) =>
        /\ pc = "scan" => ScanGroups
        /\ pc = "eval" => StackMatches
        /\ Over => outcome \in Table!Outcomes(mid_op_stk)

\* What the lemmas about groupings need to know of the state.
LEMMA ScanState ==
    ASSUME QueueTypeOK, ConvertInv, WellFormed(mid_op_stk)
    PROVE  /\ tmp_opt_stk \in Seq(StackElement) /\ tmp_opt_stk # <<>>
           /\ rpn_op_stk \in Seq(Num \cup Opt) /\ Len(rpn_op_stk) \in Nat
           /\ token \in Nat
           /\ \A d : Denotes(d, rpn_op_stk) =>
                 d[Len(rpn_op_stk)] \in Seq(SUBSET Outcome)
<1>1. rpn_op_stk \in Seq(Num \cup Opt) /\ tmp_opt_stk # <<>>
  BY DEF ConvertInv, RPNSoFar, MarkerAtBottom
<1>2. tmp_opt_stk \in Seq(StackElement) /\ token \in Nat
  BY DEF QueueTypeOK, StackElement
<1>3. Len(rpn_op_stk) \in Nat
  BY <1>1
<1>4. ASSUME NEW d, Denotes(d, rpn_op_stk)
      PROVE  d[Len(rpn_op_stk)] \in Seq(SUBSET Outcome)
  BY <1>3, <1>4 DEF Denotes
<1> QED
  BY <1>1, <1>2, <1>3, <1>4

\* An operator that leaves the stack joins its operands.
LEMMA JoinKeepsGroups ==
    ASSUME QueueTypeOK, ConvertInv, WellFormed(mid_op_stk), ScanGroups,
           PopOperator \/ PopInParen \/ Flush
    PROVE  ScanGroups'
<1> DEFINE m == mid_op_stk
           o == Last(tmp_opt_stk)
           r == rpn_op_stk
<1>1. /\ OperandBefore(m, token) /\ o \in Opt /\ Len(tmp_opt_stk) >= 2
      /\ PopToRPN
  BY TopIsOperator
<1>2. token <= Len(m) /\ m[token] \in Opt => Prio[o] <= Prio[m[token]]
  <2> SUFFICES ASSUME token <= Len(m), m[token] \in Opt
               PROVE  Prio[o] <= Prio[m[token]]
    OBVIOUS
  <2>1. Prio[o] \in Int /\ Prio[m[token]] \in Int
    BY <1>1, TokenAssumption
  <2>2. ~PopInParen
    BY TokenAssumption DEF PopInParen, At
  <2>3. ~Flush
    BY DEF Flush, QueueTypeOK
  <2>4. ~(Prio[o] > Prio[m[token]])
    <3>1. ~OptLess(o, m[token])
      BY <2>2, <2>3 DEF PopOperator
    <3>2. m[token] # "(" /\ o # ")"
      BY <1>1, TokenAssumption
    <3> QED
      BY <3>1, <3>2 DEF OptLess
  <2> QED
    BY <2>1, <2>4
<1>3. PICK P, d : /\ Denotes(d, r)
                  /\ Grouping(m, tmp_opt_stk, P, d[Len(r)], token)
  BY DEF ScanGroups
<1>4. /\ tmp_opt_stk \in Seq(StackElement) /\ r \in Seq(Num \cup Opt)
      /\ token \in Nat /\ d[Len(r)] \in Seq(SUBSET Outcome)
  BY <1>3, ScanState
<1> DEFINE D == d[Len(r)]
<1>5. PICK Q : Len(D) >= 2 /\ Grouping(m, Front(tmp_opt_stk), Q, Evaluated(D, o), token)
  <2> HIDE DEF D
  <2>1. D \in Seq(SUBSET Outcome) /\ Grouping(m, tmp_opt_stk, P, D, token)
    BY <1>3, <1>4 DEF D
  <2> QED
    BY <1>1, <1>2, <1>4, <2>1, GroupingJoin
<1>6. PICK f : Denotes(f, Append(r, o)) /\ f[Len(r) + 1] = Evaluated(D, o)
  BY <1>1, <1>3, <1>4, <1>5, DenotesAppend
<1>7. /\ rpn_op_stk' = Append(r, o) /\ Len(rpn_op_stk') = Len(r) + 1
      /\ tmp_opt_stk' = Front(tmp_opt_stk) /\ UNCHANGED <<mid_op_stk, token>>
  BY <1>1, <1>4 DEF PopToRPN
<1> HIDE DEF D, o
<1> QED
  BY <1>5, <1>6, <1>7 DEF ScanGroups

\* An operand goes to the result.
LEMMA OperandKeepsGroups ==
    ASSUME QueueTypeOK, ConvertInv, WellFormed(mid_op_stk), ScanGroups, Operand
    PROVE  ScanGroups'
<1> DEFINE m == mid_op_stk
           e == m[token]
           r == rpn_op_stk
<1>1. e \in Num /\ token \in 1..Len(m)
  BY DEF Operand, At, QueueTypeOK
<1>2. PICK P, d : /\ Denotes(d, r)
                  /\ Grouping(m, tmp_opt_stk, P, d[Len(r)], token)
  BY DEF ScanGroups
<1>3. /\ tmp_opt_stk \in Seq(StackElement) /\ tmp_opt_stk # <<>>
      /\ r \in Seq(Num \cup Opt) /\ d[Len(r)] \in Seq(SUBSET Outcome)
  BY <1>2, ScanState
<1> DEFINE D == d[Len(r)]
<1>4. Grouping(m, tmp_opt_stk, P, Evaluated(D, e), token + 1)
  <2> HIDE DEF D
  <2>1. D \in Seq(SUBSET Outcome) /\ Grouping(m, tmp_opt_stk, P, D, token)
    BY <1>2, <1>3 DEF D
  <2> QED
    BY <1>1, <1>3, <2>1, GroupingOperand
<1>5. PICK f : Denotes(f, Append(r, e)) /\ f[Len(r) + 1] = Evaluated(D, e)
  <2>1. e \notin Opt
    BY <1>1, TokenAssumption
  <2> QED
    BY <1>1, <1>2, <1>3, <2>1, DenotesAppend
<1>6. /\ rpn_op_stk' = Append(r, e) /\ Len(rpn_op_stk') = Len(r) + 1
      /\ token' = token + 1 /\ UNCHANGED <<mid_op_stk, tmp_opt_stk>>
  BY <1>1, <1>3 DEF Operand, Advance
<1> HIDE DEF D, e
<1> QED
  BY <1>4, <1>5, <1>6 DEF ScanGroups

\* A token that goes onto the stack, or a parenthesis that leaves it.
LEMMA StackKeepsGroups ==
    ASSUME QueueTypeOK, ConvertInv, WellFormed(mid_op_stk), ScanGroups,
           PushOperator \/ OpenParen \/ CloseParen
    PROVE  ScanGroups'
<1> DEFINE m == mid_op_stk
           r == rpn_op_stk
<1>1. token \in 1..Len(m) /\ UNCHANGED <<mid_op_stk, rpn_op_stk>> /\ token' = token + 1
  BY DEF PushOperator, OpenParen, CloseParen, At, Advance, QueueTypeOK
<1>2. PICK P, d : /\ Denotes(d, r)
                  /\ Grouping(m, tmp_opt_stk, P, d[Len(r)], token)
  BY DEF ScanGroups
<1>3. tmp_opt_stk \in Seq(StackElement) /\ tmp_opt_stk # <<>>
  BY ScanState
<1> DEFINE D == d[Len(r)]
<1> HIDE DEF D
<1>4. Grouping(m, tmp_opt_stk, P, D, token)
  BY <1>2 DEF D
<1>5. \E Q : Grouping(m, tmp_opt_stk', Q, D, token + 1)
  <2>1. CASE PushOperator
    <3>1. m[token] \in Opt /\ tmp_opt_stk' = Append(tmp_opt_stk, m[token])
      BY <2>1 DEF PushOperator, At
    <3>2. Last(tmp_opt_stk) \in Opt => Prio[m[token]] < Prio[Last(tmp_opt_stk)]
      <4> SUFFICES ASSUME Last(tmp_opt_stk) \in Opt
                   PROVE  Prio[m[token]] < Prio[Last(tmp_opt_stk)]
        OBVIOUS
      <4>1. OptLess(Last(tmp_opt_stk), m[token])
        BY <1>3, <2>1 DEF PushOperator
      <4>2. Last(tmp_opt_stk) \notin {"#", "("} /\ m[token] # ")"
        BY <3>1, TokenAssumption
      <4>3. Prio[m[token]] \in Int /\ Prio[Last(tmp_opt_stk)] \in Int
        BY <3>1, TokenAssumption
      <4> QED
        BY <4>1, <4>2, <4>3 DEF OptLess
    <3> QED
      BY <1>1, <1>3, <1>4, <3>1, <3>2, GroupingPush
  <2>2. CASE OpenParen
    <3>1. m[token] = "(" /\ tmp_opt_stk' = Append(tmp_opt_stk, "(")
      BY <2>2 DEF OpenParen, At
    <3> QED
      BY <1>1, <1>3, <1>4, <3>1, GroupingOpen
  <2>3. CASE CloseParen
    <3>1. m[token] = ")" /\ tmp_opt_stk' = Front(tmp_opt_stk) /\ Last(tmp_opt_stk) = "("
      BY <1>3, <2>3 DEF CloseParen, At
    <3>2. Len(tmp_opt_stk) >= 2
      <4> DEFINE n == Len(tmp_opt_stk)
      <4>1. n \in Nat /\ n # 0
        BY <1>3
      <4>2. n # 1
        BY <3>1 DEF ConvertInv, MarkerAtBottom, Last
      <4> HIDE DEF n
      <4>3. n >= 2
        BY <4>1, <4>2
      <4> QED
        BY <4>3 DEF n
    <3> QED
      BY <1>1, <1>3, <1>4, <3>1, <3>2, GroupingClose
  <2> QED
    BY <2>1, <2>2, <2>3
<1> QED
  BY <1>1, <1>2, <1>5 DEF ScanGroups, D

\* On the return of midExpr2RPN the queue denotes the expression.
LEMMA ReturnMatches ==
    ASSUME EvalTypeOK, ConvertInv, WellFormed(mid_op_stk), ScanGroups, Return,
           opof' = <<>>, rpn' = 1
    PROVE  StackMatches'
<1> DEFINE m == mid_op_stk
           r == rpn_op_stk
<1>1. UNCHANGED <<mid_op_stk, rpn_op_stk>>
  BY DEF Return
<1>2. PICK P, d : /\ Denotes(d, r)
                  /\ Grouping(m, tmp_opt_stk, P, d[Len(r)], token)
  BY DEF ScanGroups
<1>3. token = Len(m) + 1 /\ Len(tmp_opt_stk) = 1 /\ tmp_opt_stk[1] = "#"
  <2>1. tmp_opt_stk \in Seq(Opt \cup {"#", "("}) /\ token \in 1..Len(m)+1
    BY DEF EvalTypeOK, QueueTypeOK
  <2>2. tmp_opt_stk # <<>> /\ tmp_opt_stk[1] = "#"
    BY DEF ConvertInv, MarkerAtBottom
  <2>3. Len(m) \in Nat
    BY DEF WellFormed
  <2>4. token > Len(m) /\ Len(tmp_opt_stk) <= 1
    BY DEF Return
  <2> DEFINE n == Len(tmp_opt_stk)
  <2>5. n \in Nat /\ n # 0 /\ n <= 1
    BY <2>1, <2>2, <2>4
  <2>6. token = Len(m) + 1
    BY <2>1, <2>3, <2>4
  <2> HIDE DEF n
  <2>7. n = 1
    BY <2>5
  <2> QED
    BY <2>2, <2>6, <2>7 DEF n
<1>4. Len(d[Len(r)]) = 1 /\ d[Len(r)][1] = Table!Outcomes(m)
  BY <1>2, <1>3, GroupingEnd
<1>5. d[0] = <<>>
  BY <1>2 DEF Denotes
<1>6. Len(opof') = Len(d[rpn' - 1]) /\ \A q \in 1..Len(opof') : <<"val", opof'[q]>> \in d[rpn' - 1][q]
  BY <1>5
<1> QED
  BY <1>1, <1>2, <1>4, <1>6 DEF StackMatches

-----------------------------------------------------------------------------
(* The steps of evalRPN                                                    *)

\* One of the values on the stack cannot be computed, since out happens, but all
\* before it can.
StoppedAt(D, out) ==
    \E q \in 1..Len(D) :
        /\ out \in D[q]
        /\ \A p \in 1..q-1 : \E v : <<"val", v>> \in D[p]

\* Reading one more token does not undo it.
LEMMA StoppedStep ==
    ASSUME NEW D \in Seq(SUBSET Outcome), NEW t \in Num \cup Opt, t \in Opt => Len(D) >= 2,
           NEW out, out[1] # "val", StoppedAt(D, out)
    PROVE  StoppedAt(Evaluated(D, t), out)
<1> DEFINE E == Evaluated(D, t)
           n == Len(D)
<1>0. n \in Nat
  OBVIOUS
<1>1. PICK q \in 1..n : out \in D[q] /\ \A p \in 1..q-1 : \E v : <<"val", v>> \in D[p]
  BY DEF StoppedAt
<1>2. CASE t \in Num
  <2>1. Len(E) = n + 1 /\ \A p \in 1..n : E[p] = D[p]
    BY <1>2, EvaluatedOperand
  <2> HIDE DEF E
  <2>2. q \in 1..Len(E) /\ E[q] = D[q] /\ \A p \in 1..q-1 : E[p] = D[p]
    BY <1>0, <2>1
  <2> QED
    BY <1>1, <2>2 DEF StoppedAt, E
<1>3. CASE t \in Opt
  <2>1. /\ Len(E) = n - 1 /\ \A p \in 1..n-2 : E[p] = D[p]
        /\ E[n-1] = Table!Apply(D[n-1], t, D[n])
    BY <1>3, EvaluatedOperator
  <2>2. n >= 2
    BY <1>3
  <2> HIDE DEF E, n
  <2>3. CASE q \in 1..n-2
    <3>1. q \in 1..Len(E) /\ E[q] = D[q] /\ \A p \in 1..q-1 : E[p] = D[p]
      BY <1>0, <2>1, <2>3
    <3> QED
      BY <1>1, <3>1 DEF StoppedAt, E
  <2>4. ASSUME q = n - 1 \/ q = n
        PROVE  out \in Table!Apply(D[n-1], t, D[n])
    <3>1. CASE q = n - 1
      <4>1. out \in {l \in D[n-1] : l[1] # "val"}
        BY <1>1, <3>1
      <4> QED
        BY <4>1 DEF Table!Apply
    <3>2. CASE q = n
      <4>1. n - 1 \in 1..q-1
        BY <1>0, <2>2, <3>2
      <4>2. PICK v : <<"val", v>> \in D[n-1]
        BY <1>1, <4>1
      <4>3. \E l \in D[n-1] : l[1] = "val"
        BY <4>2
      <4>4. out \in {r \in D[n] : r[1] # "val" /\ \E l \in D[n-1] : l[1] = "val"}
        BY <1>1, <3>2, <4>3
      <4> QED
        BY <4>4 DEF Table!Apply
    <3> QED
      BY <2>4, <3>1, <3>2
  <2>5. CASE q = n - 1 \/ q = n
    <3>1. n - 1 \in 1..Len(E) /\ out \in E[n-1]
      BY <1>0, <2>1, <2>2, <2>4, <2>5
    <3>2. ASSUME NEW p \in 1..(n-1)-1 PROVE \E v : <<"val", v>> \in E[p]
      <4>1. p \in 1..q-1 /\ E[p] = D[p]
        BY <1>0, <2>1, <2>5
      <4> QED
        BY <1>1, <4>1
    <3> QED
      BY <3>1, <3>2 DEF StoppedAt, E
  <2> QED
    BY <1>0, <2>3, <2>5
<1> QED
  BY <1>2, <1>3

\* What stops the evaluation of one operand stops that of the expression.
LEMMA StoppedSpreads ==
    ASSUME NEW r \in Seq(Num \cup Opt), NEW d, Denotes(d, r), NEW k \in 0..Len(r),
           NEW out, out[1] # "val", StoppedAt(d[k], out)
    PROVE  StoppedAt(d[Len(r)], out)
<1> DEFINE S == {n \in Nat : k + n <= Len(r) => StoppedAt(d[k + n], out)}
<1>1. 0 \in S
  <2>1. k + 0 = k
    OBVIOUS
  <2> QED
    BY <2>1
<1>2. ASSUME NEW n \in Nat, n \in S PROVE n + 1 \in S
  <2> SUFFICES ASSUME k + (n + 1) <= Len(r) PROVE StoppedAt(d[k + (n + 1)], out)
    OBVIOUS
  <2> DEFINE j == k + n
  <2>1. j \in 0..Len(r) /\ j + 1 \in 1..Len(r) /\ k + (n + 1) = j + 1 /\ (j + 1) - 1 = j
    OBVIOUS
  <2>2. StoppedAt(d[j], out)
    BY <1>2
  <2> HIDE DEF j
  <2>3. /\ d[j] \in Seq(SUBSET Outcome)
        /\ r[j+1] \in Opt => Len(d[j]) >= 2
        /\ d[j+1] = Evaluated(d[j], r[j+1])
    BY <2>1 DEF Denotes
  <2>4. r[j+1] \in Num \cup Opt
    BY <2>1
  <2>5. StoppedAt(Evaluated(d[j], r[j+1]), out)
    BY <2>2, <2>3, <2>4, StoppedStep
  <2> QED
    BY <2>1, <2>3, <2>5
<1> HIDE DEF S
<1>3. Len(r) - k \in S /\ k + (Len(r) - k) = Len(r)
  BY <1>1, <1>2, SetInduction
<1> QED
  BY <1>3 DEF S

\* evalRPN pushes the value of an operand.
LEMMA OperandKeepsMatch ==
    ASSUME EvalTypeOK, EvalInv, WellFormed(mid_op_stk), StackMatches, EvalOperand
    PROVE  StackMatches'
<1> DEFINE r == rpn_op_stk
           e == r[rpn]
<1>1. /\ pc = "eval" /\ rpn \in 1..Len(r) /\ rpn' = rpn + 1 /\ e \notin Opt
      /\ opof' = Append(opof, StrToInt(e)) /\ opof \in Seq(I32)
      /\ UNCHANGED <<mid_op_stk, rpn_op_stk>>
  BY DEF EvalOperand, EvalAt, EvalTypeOK
<1>2. e \in Num /\ Len(r) \in Nat
  BY <1>1, EvalQueue
<1>3. PICK d : /\ Denotes(d, r)
               /\ Len(d[Len(r)]) = 1
               /\ d[Len(r)][1] = Table!Outcomes(mid_op_stk)
               /\ Len(opof) = Len(d[rpn - 1])
               /\ \A q \in 1..Len(opof) : <<"val", opof[q]>> \in d[rpn - 1][q]
  BY DEF StackMatches
<1> DEFINE D == d[rpn - 1]
           E == d[rpn]
<1>4. D \in Seq(SUBSET Outcome) /\ E = Evaluated(D, e)
  <2>1. rpn - 1 \in 0..Len(r)
    BY <1>1, <1>2
  <2> QED
    BY <1>1, <1>3, <2>1 DEF Denotes
<1>5. rpn' - 1 = rpn
  BY <1>1
<1> HIDE DEF e, D, E
<1>6. /\ Len(E) = Len(D) + 1
      /\ \A q \in 1..Len(D) : E[q] = D[q]
      /\ E[Len(D) + 1] = OperandValue(e)
  BY <1>2, <1>4, EvaluatedOperand
<1>7. /\ Len(opof') = Len(opof) + 1 /\ \A q \in 1..Len(opof) : opof'[q] = opof[q]
      /\ opof'[Len(opof) + 1] = IntOf[e]
  <2>1. StrToInt(e) = IntOf[e] /\ IntOf[e] \in I32
    BY <1>2, OutcomesAssumption DEF StrToInt
  <2> QED
    BY <1>1, <2>1 DEF e
<1>8. Len(opof) = Len(D) /\ Len(opof) \in Nat
  BY <1>1, <1>3 DEF D
<1>9. ASSUME NEW q \in 1..Len(opof') PROVE <<"val", opof'[q]>> \in E[q]
  <2>1. CASE q \in 1..Len(opof)
    BY <1>3, <1>6, <1>7, <1>8, <2>1 DEF D
  <2>2. CASE q = Len(opof) + 1
    BY <1>6, <1>7, <1>8, <2>2 DEF OperandValue
  <2> QED
    BY <1>7, <1>8, <2>1, <2>2
<1>10. Len(opof') = Len(E)
  BY <1>6, <1>7, <1>8
<1> QED
  BY <1>1, <1>3, <1>5, <1>9, <1>10 DEF StackMatches, E

\* evalRPN applies an operator: the value is an outcome of the part that the
\* operator joins, or the program stops with an outcome of the expression.
LEMMA OperatorKeepsMatch ==
    ASSUME EvalTypeOK, EvalInv, WellFormed(mid_op_stk), StackMatches, EvalOpt
    PROVE  \/ pc' = "eval" /\ StackMatches'
           \/ pc' \in {"abort", "trap"} /\ outcome' \in Table!Outcomes(mid_op_stk)
<1> DEFINE r == rpn_op_stk
           e == r[rpn]
           n == Len(opof)
<1>1. /\ pc = "eval" /\ rpn \in 1..Len(r) /\ e \in Opt \cup {"#"}
      /\ n >= 2 /\ n \in Nat /\ opof \in Seq(I32)
      /\ UNCHANGED <<mid_op_stk, rpn_op_stk>>
  BY DEF EvalOpt, EvalAt, EvalTypeOK
<1>2. e \in Opt /\ Len(r) \in Nat /\ r \in Seq(Num \cup Opt)
  <2>1. e \in Num \cup Opt /\ Len(r) \in Nat /\ r \in Seq(Num \cup Opt)
    BY <1>1, EvalQueue
  <2> QED
    BY <1>1, <2>1, TokenAssumption
<1>3. PICK d : /\ Denotes(d, r)
               /\ Len(d[Len(r)]) = 1
               /\ d[Len(r)][1] = Table!Outcomes(mid_op_stk)
               /\ n = Len(d[rpn - 1])
               /\ \A q \in 1..n : <<"val", opof[q]>> \in d[rpn - 1][q]
  BY DEF StackMatches
<1> DEFINE D == d[rpn - 1]
           E == d[rpn]
<1>4. D \in Seq(SUBSET Outcome) /\ E = Evaluated(D, e)
  <2>1. rpn - 1 \in 0..Len(r)
    BY <1>1, <1>2
  <2> QED
    BY <1>1, <1>3, <2>1 DEF Denotes
<1>5. PICK out \in OptOutcomes(opof[n-1], e, Last(opof)) :
          IF out[1] = "val"
          THEN /\ opof' = Append(SubSeq(opof, 1, n-2), out[2])
               /\ rpn' = rpn + 1
               /\ UNCHANGED pc
          ELSE /\ pc' = out[1]
               /\ UNCHANGED <<opof, rpn>>
  BY DEF EvalOpt
<1>6. opof[n-1] \in I32 /\ opof[n] \in I32 /\ Last(opof) = opof[n]
  BY <1>1 DEF Last
<1>7. out \in Outcome
  <2>1. OptOutcomes(opof[n-1], e, opof[n]) \in SUBSET Outcome
    BY <1>1, <1>6, OutcomesAssumption DEF Outcome
  <2> QED
    BY <1>5, <1>6, <2>1
<1> HIDE DEF e, n, D, E
<1>8. /\ Len(E) = n - 1
      /\ \A q \in 1..n-2 : E[q] = D[q]
      /\ E[n - 1] = Table!Apply(D[n-1], e, D[n])
  <2>1. n = Len(D)
    BY <1>3 DEF D
  <2> QED
    BY <1>1, <1>2, <1>4, <2>1, EvaluatedOperator
<1>9. out \in E[n - 1]
  <2> DEFINE l == <<"val", opof[n-1]>>
             s == <<"val", opof[n]>>
  <2>1. l \in {x \in D[n-1] : x[1] = "val"} /\ s \in {x \in D[n] : x[1] = "val"}
    <3>1. n - 1 \in 1..n /\ n \in 1..n
      BY <1>1
    <3> QED
      BY <1>3, <3>1 DEF D
  <2>2. out \in OptOutcomes(l[2], e, s[2])
    BY <1>5, <1>6
  <2> HIDE DEF l, s
  <2>3. out \in UNION {OptOutcomes(a[2], e, b[2]) :
                    a \in {x \in D[n-1] : x[1] = "val"}, b \in {x \in D[n] : x[1] = "val"}}
    BY <2>1, <2>2
  <2> QED
    BY <1>8, <2>3 DEF Table!Apply
<1>10. ASSUME NEW q \in 1..n-2 PROVE <<"val", opof[q]>> \in E[q]
  <2>1. q \in 1..n
    BY <1>1
  <2>2. <<"val", opof[q]>> \in D[q]
    BY <1>3, <2>1 DEF D
  <2> QED
    BY <1>8, <2>2
<1>11. CASE out[1] = "val"
  <2>1. opof' = Append(SubSeq(opof, 1, n-2), out[2]) /\ rpn' = rpn + 1 /\ pc' = "eval"
    BY <1>1, <1>5, <1>11
  <2>2. out = <<"val", out[2]>> /\ out[2] \in I32
    BY <1>7, <1>11 DEF Outcome
  <2>3. /\ Len(opof') = n - 1 /\ opof'[n-1] = out[2]
        /\ \A q \in 1..n-2 : opof'[q] = opof[q]
    <3> DEFINE B == SubSeq(opof, 1, n - 2)
    <3>1. n - 2 \in 0..Len(opof)
      BY <1>1 DEF n
    <3>2. B \in Seq(I32) /\ Len(B) = n - 2
      BY <1>1, <3>1, PrefixLen
    <3>3. \A q \in 1..n-2 : B[q] = opof[q]
      BY <1>1, <3>1
    <3>4. opof' = Append(B, out[2])
      BY <2>1
    <3> HIDE DEF B
    <3> QED
      BY <1>1, <2>2, <3>2, <3>3, <3>4
  <2>4. ASSUME NEW q \in 1..n-1 PROVE <<"val", opof'[q]>> \in E[q]
    <3>1. CASE q \in 1..n-2
      BY <1>10, <2>3, <3>1
    <3>2. CASE q = n - 1
      BY <1>9, <2>2, <2>3, <3>2
    <3> QED
      BY <1>1, <3>1, <3>2
  <2>5. rpn' - 1 = rpn
    BY <1>1, <2>1
  <2>6. StackMatches'
    BY <1>1, <1>3, <1>8, <2>3, <2>4, <2>5 DEF StackMatches, E
  <2> QED
    BY <2>1, <2>6
<1>12. CASE out[1] # "val"
  <2>1. out \in {"abort", "trap"} \X {0} /\ pc' = out[1]
    BY <1>5, <1>7, <1>12 DEF Outcome
  <2>2. pc' \in {"abort", "trap"} /\ out = <<pc', 0>>
    BY <2>1
  <2>3. StoppedAt(E, out)
    <3>1. n - 1 \in 1..Len(E) /\ \A p \in 1..(n-1)-1 : p \in 1..n-2
      BY <1>1, <1>8
    <3> QED
      BY <1>9, <1>10, <3>1 DEF StoppedAt
  <2>4. rpn \in 0..Len(r)
    BY <1>1, <1>2
  <2>5. StoppedAt(d[Len(r)], out)
    BY <1>2, <1>3, <1>12, <2>3, <2>4, StoppedSpreads DEF E
  <2>6. out \in Table!Outcomes(mid_op_stk)
    BY <1>3, <2>5 DEF StoppedAt
  <2>7. outcome' = <<pc', 0>>
    BY <2>2 DEF outcome, Over
  <2> QED
    BY <2>2, <2>6, <2>7
<1> QED
  BY <1>11, <1>12

\* The value that is left at the end is an outcome of the expression.
LEMMA EndMatches ==
    ASSUME EvalTypeOK, EvalInv, EvalInv', WellFormed(mid_op_stk), StackMatches, EvalEnd
    PROVE  pc' = "val" /\ outcome' \in Table!Outcomes(mid_op_stk)
<1> DEFINE r == rpn_op_stk
<1>1. /\ pc = "eval" /\ rpn > Len(r) /\ rpn \in 1..Len(r)+1
      /\ UNCHANGED <<mid_op_stk, opof>>
  BY DEF EvalEnd, EvalTypeOK
<1>2. Len(r) \in Nat
  BY <1>1, EvalQueue
<1>3. pc' = "val" /\ const_expr' = <<Last(opof)>>
  <2>1. pc' # "undefined"
    BY <1>1 DEF EvalInv, NoUnderflow
  <2> QED
    BY <2>1 DEF EvalEnd
<1>4. rpn - 1 = Len(r)
  BY <1>1, <1>2
<1>5. Len(opof) = 1 /\ <<"val", opof[1]>> \in Table!Outcomes(mid_op_stk)
  BY <1>4 DEF StackMatches
<1>6. outcome' = <<"val", opof[1]>>
  BY <1>3, <1>5 DEF outcome, Over, Last
<1> QED
  BY <1>3, <1>5, <1>6

-----------------------------------------------------------------------------
(* The theorems                                                            *)

\* The folder begins with nothing read and nothing computed.
LEMMA FoldInvInit ==
    ASSUME EvalBegins
    PROVE  FoldInv /\ outcome = Table!Pending
<1>1. /\ pc = "scan" /\ rpn_op_stk = <<>> /\ tmp_opt_stk = <<"#">> /\ token = 1
  BY DEF EvalBegins, ConvertBegins
<1>2. ScanGroups
  <2> DEFINE d == [k \in 0..0 |-> <<>>]
             P == [k \in {1} |-> 0]
  <2>1. Denotes(d, rpn_op_stk) /\ d[Len(rpn_op_stk)] = <<>>
    BY <1>1 DEF Denotes
  <2> HIDE DEF d
  <2>2. Grouping(mid_op_stk, tmp_opt_stk, P, d[Len(rpn_op_stk)], token)
    BY <1>1, <2>1, GroupingStart
  <2> QED
    BY <2>1, <2>2 DEF ScanGroups
<1>3. ~Over /\ pc # "eval"
  BY <1>1 DEF Over
<1> QED
  BY <1>2, <1>3 DEF FoldInv, outcome, Table!Pending

\* Every step of the folder keeps FoldInv.
LEMMA FoldInvStep ==
    ASSUME EvalTypeOK, EvalInv, EvalInv', FoldInv, EvalNext
    PROVE  FoldInv'
<1>1. UNCHANGED mid_op_stk /\ pc \in {"scan", "eval"}
  BY DEF EvalNext, ConvertStep, Convert, Operand, PopOperator, PushOperator, OpenParen,
         PopInParen, CloseParen, IllegalToken, Flush, Return, At, Advance, PopToRPN,
         EvalOperand, EvalOpt, Underflow, EvalEnd, EvalAt
<1> SUFFICES ASSUME WellFormed(mid_op_stk) PROVE FoldInv'
  BY <1>1 DEF FoldInv
<1>2. QueueTypeOK /\ ConvertInv
  BY DEF EvalTypeOK, EvalInv
<1>3. CASE ConvertStep
  <2>1. Convert /\ opof' = opof /\ rpn' = rpn /\ pc = "scan"
    BY <1>3 DEF ConvertStep, evalVars, Convert, Operand, PopOperator, PushOperator,
                OpenParen, PopInParen, CloseParen, IllegalToken, Flush, Return, At
  <2>2. ScanGroups /\ opof' = <<>> /\ rpn' = 1
    BY <2>1 DEF FoldInv, EvalTypeOK
  <2>3. CASE Return
    <3>1. StackMatches' /\ pc' = "eval"
      BY <1>2, <2>2, <2>3, ReturnMatches DEF Return
    <3> QED
      BY <3>1 DEF FoldInv, Over
  <2>4. CASE IllegalToken
    <3>1. /\ token <= Len(mid_op_stk)
          /\ mid_op_stk[token] \notin Num \cup {"("} \cup Opt \cup {")"}
      BY <2>4 DEF IllegalToken, At
    <3> QED
      BY <1>2, <2>1, <3>1, AtToken
  <2>5. CASE Operand \/ PushOperator \/ OpenParen \/ CloseParen \/ PopOperator \/ PopInParen \/ Flush
    <3>1. pc' = "scan"
      BY <2>1, <2>5 DEF Operand, PopOperator, PushOperator, OpenParen, PopInParen,
                        CloseParen, Flush, Advance, PopToRPN
    <3>2. ScanGroups'
      BY <1>2, <2>2, <2>5, OperandKeepsGroups, StackKeepsGroups, JoinKeepsGroups
    <3> QED
      BY <3>1, <3>2 DEF FoldInv, Over
  <2> QED
    BY <2>1, <2>3, <2>4, <2>5 DEF Convert
<1>4. CASE EvalOperand
  <2>1. StackMatches /\ pc = "eval" /\ pc' = pc
    BY <1>4 DEF FoldInv, EvalOperand, EvalAt
  <2>2. StackMatches'
    BY <1>4, <2>1, OperandKeepsMatch
  <2> QED
    BY <2>1, <2>2 DEF FoldInv, Over
<1>5. CASE EvalOpt
  <2>1. StackMatches
    BY <1>5 DEF FoldInv, EvalOpt, EvalAt
  <2>2. \/ pc' = "eval" /\ StackMatches'
        \/ pc' \in {"abort", "trap"} /\ outcome' \in Table!Outcomes(mid_op_stk)
    BY <1>5, <2>1, OperatorKeepsMatch
  <2> QED
    BY <1>1, <2>2 DEF FoldInv, Over
<1>6. CASE Underflow
  BY <1>1, <1>6 DEF Underflow, EvalInv, NoUnderflow
<1>7. CASE EvalEnd
  <2>1. StackMatches
    BY <1>7 DEF FoldInv, EvalEnd
  <2>2. pc' = "val" /\ outcome' \in Table!Outcomes(mid_op_stk)
    BY <1>7, <2>1, EndMatches
  <2> QED
    BY <1>1, <2>2 DEF FoldInv
<1> QED
  BY <1>3, <1>4, <1>5, <1>6, <1>7 DEF EvalNext

\* The invariant holds of every run of the folder.
THEOREM FoldInvariant == EvalSpec => []FoldInv
<1>1. EvalInit => FoldInv
  BY EvalInitBegins, FoldInvInit
<1>2. /\ EvalTypeOK /\ EvalInv /\ EvalInv' /\ FoldInv
      /\ [EvalNext \/ Terminated]_folderVars
      => FoldInv'
  <2> SUFFICES ASSUME EvalTypeOK, EvalInv, EvalInv', FoldInv,
                      [EvalNext \/ Terminated]_folderVars
               PROVE  FoldInv'
    OBVIOUS
  <2>1. CASE EvalNext
    BY <2>1, FoldInvStep
  <2>2. CASE UNCHANGED folderVars
    BY <2>2 DEF folderVars, convertVars, evalVars, FoldInv, ScanGroups, StackMatches,
                outcome, Over
  <2> QED
    BY <2>1, <2>2 DEF Terminated
<1> QED
  BY <1>1, <1>2, EvalTypeCorrect, EvalInvariant, PTL DEF EvalSpec

\* ConstFold speaks of the same infix queues.
LEMMA WellFormedIsTable ==
    ASSUME NEW m
    PROVE  Table!WellFormed(m) <=> WellFormed(m)
BY DEF Table!WellFormed, WellFormed, Table!EndsOperand, EndsOperand, Table!Depth, Depth,
       Table!Count, Count, Table!Cardinality, Cardinality

\* A queue that lacks an operand is balanced and of height 0 or less.
LEMMA LacksOperandIsTable ==
    ASSUME NEW m
    PROVE  Table!LacksOperand(m) <=> Balanced(m) /\ Height(m, Len(m)) <= 0
BY DEF Table!LacksOperand, Table!Balanced, Balanced, Table!Height, Height, Table!Depth,
       Depth, Table!Count, Count, Table!Cardinality, Cardinality

\* A step of the folder is the abstract one, or leaves what the caller sees alone.
LEMMA OutcomeStep ==
    ASSUME EvalTypeOK, EvalTypeOK', FoldInv', MissingOperandNeverFolds', EvalNext
    PROVE  [Table!Fold]_(Table!foldVars)
<1> DEFINE m == mid_op_stk
<1>1. UNCHANGED mid_op_stk /\ pc \in {"scan", "eval"}
  BY DEF EvalNext, ConvertStep, Convert, Operand, PopOperator, PushOperator, OpenParen,
         PopInParen, CloseParen, IllegalToken, Flush, Return, At, Advance, PopToRPN,
         EvalOperand, EvalOpt, Underflow, EvalEnd, EvalAt
<1>2. outcome = Table!Pending
  BY <1>1 DEF outcome, Over, Table!Pending
<1>3. CASE ~Over'
  <2>1. outcome' = outcome
    BY <1>2, <1>3 DEF outcome, Table!Pending
  <2> QED
    BY <1>1, <2>1 DEF Table!foldVars
<1>4. CASE Over'
  <2>1. /\ pc' = "val" => outcome' = <<"val", const_expr'[1]>>
        /\ pc' # "val" => outcome' = <<pc', 0>>
        /\ pc' \in {"val", "abort", "trap", "undefined"}
    BY <1>4 DEF outcome, Over
  <2>2. outcome' # Table!Pending
    BY <2>1 DEF Table!Pending
  <2>3. Table!WellFormed(m) => outcome' \in Table!Outcomes(m)
    BY <1>1, <1>4, WellFormedIsTable DEF FoldInv
  <2>4. Table!LacksOperand(m) => outcome' \in Table!NoValue
    <3> SUFFICES ASSUME Table!LacksOperand(m) PROVE outcome' \in Table!NoValue
      OBVIOUS
    <3>1. Balanced(m) /\ Height(m, Len(m)) <= 0
      BY LacksOperandIsTable
    <3>2. Height(m, Len(m)) \in Int
      <4>1. Len(m) \in Nat
        BY DEF EvalTypeOK, QueueTypeOK
      <4> QED
        BY <4>1, HeightType
    <3>3. pc' # "val"
      BY <1>1, <3>1, <3>2 DEF MissingOperandNeverFolds
    <3> QED
      BY <2>1, <3>3 DEF Table!NoValue
  <2> QED
    BY <1>1, <1>2, <2>2, <2>3, <2>4 DEF Table!Fold
<1> QED
  BY <1>3, <1>4

\* midExpr2RPN followed by evalRPN does what the folder promises its caller: from
\* every infix expression the table's priorities group it computes one of the
\* expression's outcomes, and from one with an operand left out no value.
THEOREM EvalImplementsFold == EvalSpec => Table!FoldSafety
<1>1. EvalInit => outcome = Table!Pending
  BY EvalInitBegins, FoldInvInit
<1>2. /\ EvalTypeOK /\ EvalTypeOK' /\ FoldInv' /\ MissingOperandNeverFolds'
      /\ [EvalNext \/ Terminated]_folderVars
      => [Table!Fold]_(Table!foldVars)
  <2> SUFFICES ASSUME EvalTypeOK, EvalTypeOK', FoldInv', MissingOperandNeverFolds',
                      [EvalNext \/ Terminated]_folderVars
               PROVE  [Table!Fold]_(Table!foldVars)
    OBVIOUS
  <2>1. CASE EvalNext
    BY <2>1, OutcomeStep
  <2>2. CASE UNCHANGED folderVars
    BY <2>2 DEF folderVars, convertVars, evalVars, Table!foldVars, outcome, Over
  <2> QED
    BY <2>1, <2>2 DEF Terminated
<1> QED
  BY <1>1, <1>2, EvalTypeCorrect, FoldInvariant, EvalMissingNeverFolds, PTL
     DEF EvalSpec, Table!FoldSafety

\* So it implements the whole of the folder, its end included, whenever it ends.
THEOREM EvalFoldsByTable == EvalSpec /\ <>Over => FoldsByTable
<1>1. Over /\ EvalTypeOK => outcome # Table!Pending
  BY DEF Over, outcome, Table!Pending
<1> QED
  BY <1>1, EvalTypeCorrect, EvalImplementsFold, PTL DEF FoldsByTable, Table!FoldSpec
=============================================================================
