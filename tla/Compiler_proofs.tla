-------------------------- MODULE Compiler_proofs --------------------------
(***************************************************************************)
(* Proofs about BasicBlockIR, ExprMeaning and Compiler: the constructor of *)
(* a block first, then the passes of a client, which run it.               *)
(***************************************************************************)
EXTENDS CompilerOutputs, EvalRPN_proofs, NumberText_proofs

-----------------------------------------------------------------------------
(***************************************************************************)
(* Proofs about BasicBlockIR, for trees of any size: the types, the queue  *)
(* that traverseExpr makes of a tree, and how the constructor may end.     *)
(* Those of the folder, which runs inside, are used lemma by lemma.        *)
(*                                                                         *)
(* ExprMeaning: the constant in the return instruction is the value of the *)
(* expression as it was written, for trees of any size and any shape the   *)
(* classes of _ast.hpp allow.  Spelling gives every tree its tokens.       *)
(* traverseExpr pushes them, and what is still to visit spells the rest    *)
(* (HasText).  In the queue, the operands of a chain lie between its       *)
(* operators, which are the only ones outside the parentheses there        *)
(* (Fenced); so the root that ConstFold takes of a part is the operator    *)
(* that ExprMeaning applies last (SpansJoin).  The induction is on the     *)
(* levels of the tree.                                                     *)
(***************************************************************************)
-----------------------------------------------------------------------------
(***************************************************************************)
(* Infix expressions, and queues whose parentheses match, with one token   *)
(* replaced by a sequence.                                                 *)
(***************************************************************************)

\* The elements that follow the first p are counted on their own.
LEMMA CountFrom ==
    ASSUME NEW s, NEW t, NEW S, NEW p \in Nat, NEW k \in Nat,
           \A j \in 1..k : t[p+j] = s[j]
    PROVE  Count(t, p + k, S) = Count(t, p, S) + Count(s, k, S)
<1> DEFINE B == {j \in 1..k : s[j] \in S}
           C == {j \in 1..p : t[j] \in S}
           D == {j \in p+1..p+k : t[j] \in S}
           f == [j \in B |-> p + j]
<1>1. IsFiniteSet(B) /\ IsFiniteSet(C) /\ IsFiniteSet(D)
  <2>1. B \in SUBSET (1..k) /\ C \in SUBSET (1..p) /\ D \in SUBSET (p+1..p+k)
    OBVIOUS
  <2>2. IsFiniteSet(1..k) /\ IsFiniteSet(1..p) /\ IsFiniteSet(p+1..p+k)
    BY FS_Interval
  <2> QED
    BY <2>1, <2>2, FS_Subset
<1>2. Cardinality(D) = Cardinality(B)
  <2>1. f \in [B -> D]
    OBVIOUS
  <2>2. \A a, b \in B : f[a] = f[b] => a = b
    OBVIOUS
  <2>3. \A d \in D : \E a \in B : f[a] = d
    <3> TAKE d \in D
    <3>1. d - p \in 1..k /\ p + (d - p) = d
      OBVIOUS
    <3>2. d - p \in B
      BY <3>1
    <3> QED
      BY <3>1, <3>2
  <2>4. f \in Bijection(B, D)
    BY <2>1, <2>2, <2>3, Fun_IsBij
  <2>5. ExistsBijection(B, D)
    BY <2>4, Fun_ExistsBij
  <2> QED
    BY <1>1, <2>5, FS_Bijection
<1>3. Cardinality(C \cup D) = Cardinality(C) + Cardinality(D)
  <2>1. C \cap D = {}
    OBVIOUS
  <2>2. Cardinality(C \cap D) = 0
    BY <2>1, FS_EmptySet
  <2>3. Cardinality(C) \in Nat /\ Cardinality(D) \in Nat
    BY <1>1, FS_CardinalityType
  <2> HIDE DEF C, D
  <2>4. Cardinality(C \cup D) = Cardinality(C) + Cardinality(D) - Cardinality(C \cap D)
    BY <1>1, FS_Union
  <2> QED
    BY <2>2, <2>3, <2>4
<1>4. {j \in 1..p+k : t[j] \in S} = C \cup D
  OBVIOUS
<1> QED
  BY <1>2, <1>3, <1>4 DEF Count

-----------------------------------------------------------------------------
\* x is m with its element at p + 1 replaced by the sequence w.
IsSplice(x, m, p, w) ==
    /\ Len(x) \in Nat /\ Len(m) \in Nat /\ Len(w) \in Nat
    /\ p \in 0..Len(m)-1
    /\ Len(x) = Len(m) - 1 + Len(w)
    /\ \A j \in 1..p : x[j] = m[j]
    /\ \A j \in 1..Len(w) : x[p+j] = w[j]
    /\ \A j \in 1..Len(m)-p-1 : x[p+Len(w)+j] = m[p+1+j]

\* What is counted in x up to any place.
LEMMA SpliceCount ==
    ASSUME NEW x, NEW m, NEW p, NEW w, IsSplice(x, m, p, w), NEW S
    PROVE  /\ \A k \in 0..p : Count(x, k, S) = Count(m, k, S)
           /\ \A k \in 0..Len(w) : Count(x, p + k, S) = Count(m, p, S) + Count(w, k, S)
           /\ \A k \in 0..Len(m)-p-1 :
                 Count(x, p + Len(w) + k, S)
                    = Count(m, p + 1 + k, S) - (IF m[p+1] \in S THEN 1 ELSE 0)
                                             + Count(w, Len(w), S)
<1> DEFINE q == Len(w)
           r == Len(m) - p - 1
           u == [j \in 1..r |-> m[p+1+j]]
<1>1. p \in Nat /\ q \in Nat /\ r \in Nat
  BY DEF IsSplice
<1>2. /\ \A j \in 1..p : x[j] = m[j]
      /\ \A j \in 1..q : x[p+j] = w[j]
      /\ \A j \in 1..r : x[(p+q)+j] = u[j] /\ m[(p+1)+j] = u[j]
  BY DEF IsSplice
<1> HIDE DEF q, r, u
<1>3. ASSUME NEW k \in 0..p PROVE Count(x, k, S) = Count(m, k, S)
  BY <1>1, <1>2, CountAgree
<1>4. ASSUME NEW k \in 0..q
      PROVE  Count(x, p + k, S) = Count(m, p, S) + Count(w, k, S)
  <2>0. k \in Nat /\ \A j \in 1..k : x[p+j] = w[j]
    BY <1>1, <1>2
  <2>1. Count(x, p + k, S) = Count(x, p, S) + Count(w, k, S)
    BY <1>1, <2>0, CountFrom
  <2> QED
    BY <2>1, <1>1, <1>3
<1>5. ASSUME NEW k \in 0..r
      PROVE  Count(x, p + q + k, S)
               = Count(m, p + 1 + k, S) - (IF m[p+1] \in S THEN 1 ELSE 0) + Count(w, q, S)
  <2>0. k \in Nat /\ p + q \in Nat /\ p + 1 \in Nat
    BY <1>1
  <2>1. Count(x, (p + q) + k, S) = Count(x, p + q, S) + Count(u, k, S)
    <3> DEFINE a == p + q
    <3>1. a \in Nat /\ \A j \in 1..k : x[a+j] = u[j]
      BY <1>1, <1>2
    <3> HIDE DEF a
    <3>2. Count(x, a + k, S) = Count(x, a, S) + Count(u, k, S)
      BY <2>0, <3>1, CountFrom
    <3> QED
      BY <3>2 DEF a
  <2>2. Count(m, (p + 1) + k, S) = Count(m, p + 1, S) + Count(u, k, S)
    <3> DEFINE a == p + 1
    <3>1. a \in Nat /\ \A j \in 1..k : m[a+j] = u[j]
      BY <1>1, <1>2
    <3> HIDE DEF a
    <3>2. Count(m, a + k, S) = Count(m, a, S) + Count(u, k, S)
      BY <2>0, <3>1, CountFrom
    <3> QED
      BY <3>2 DEF a
  <2>3. Count(m, p + 1, S) = Count(m, p, S) + IF m[p+1] \in S THEN 1 ELSE 0
    BY <1>1, CountStep
  <2>4. Count(x, p + q, S) = Count(m, p, S) + Count(w, q, S)
    BY <1>1, <1>4
  <2>5. /\ Count(m, p, S) \in Nat /\ Count(w, q, S) \in Nat /\ Count(u, k, S) \in Nat
        /\ Count(m, p + 1, S) \in Nat
    BY <1>1, CountStep
  <2> QED
    BY <2>1, <2>2, <2>3, <2>4, <2>5
<1> QED
  BY <1>3, <1>4, <1>5 DEF q, r

\* A token that is no parenthesis may be replaced by a balanced sequence.
LEMMA SpliceBalanced ==
    ASSUME NEW x, NEW m, NEW p, NEW w, IsSplice(x, m, p, w),
           m[p+1] \notin {"(", ")"}, Balanced(m), Balanced(w)
    PROVE  Balanced(x)
<1> DEFINE q == Len(w)
           n == Len(m)
           L == {"("}
           R == {")"}
<1>1. p \in Nat /\ q \in Nat /\ n \in Nat /\ p + 1 <= n /\ Len(x) = n - 1 + q
  BY DEF IsSplice
<1>2. \A s, S : \A k \in Nat : Count(s, k, S) \in Nat
  BY CountStep
<1>3. \A S \in {L, R} :
        /\ \A k \in 0..p : Count(x, k, S) = Count(m, k, S)
        /\ \A k \in 0..q : Count(x, p + k, S) = Count(m, p, S) + Count(w, k, S)
        /\ \A k \in 0..n-p-1 :
              Count(x, p + q + k, S) = Count(m, p + 1 + k, S) + Count(w, q, S)
  <2> TAKE S \in {L, R}
  <2>1. m[p+1] \notin S
    OBVIOUS
  <2>2. \A k \in 0..n-p-1 : Count(m, p + 1 + k, S) \in Nat
    BY <1>1, <1>2
  <2> QED
    BY <2>1, <2>2, SpliceCount
<1>4. /\ \A k \in 0..n : Depth(m, k) >= 0
      /\ \A k \in 0..q : Depth(w, k) >= 0
      /\ Depth(m, n) = 0 /\ Depth(w, q) = 0
  BY DEF Balanced
<1>5. ASSUME NEW k \in 0..p PROVE Depth(x, k) >= 0
  <2>1. Depth(x, k) = Depth(m, k)
    BY <1>3 DEF Depth
  <2> QED
    BY <1>1, <1>4, <2>1
<1>6. ASSUME NEW k \in 0..q PROVE Depth(x, p + k) >= 0
  <2>1. Depth(x, p + k) = Depth(m, p) + Depth(w, k)
    BY <1>1, <1>2, <1>3 DEF Depth
  <2>2. Depth(m, p) \in Int /\ Depth(w, k) \in Int
    BY <1>1, <1>2 DEF Depth
  <2> QED
    BY <1>1, <1>4, <2>1, <2>2
<1>7. ASSUME NEW k \in 0..n-p-1
      PROVE  Depth(x, p + q + k) = Depth(m, p + 1 + k)
  <2>1. Depth(x, p + q + k) = Depth(m, p + 1 + k) + Depth(w, q)
    <3>1. /\ Count(m, p + 1 + k, L) \in Nat /\ Count(m, p + 1 + k, R) \in Nat
          /\ Count(w, q, L) \in Nat /\ Count(w, q, R) \in Nat
      BY <1>1, <1>2
    <3>2. /\ Count(x, p + q + k, L) = Count(m, p + 1 + k, L) + Count(w, q, L)
          /\ Count(x, p + q + k, R) = Count(m, p + 1 + k, R) + Count(w, q, R)
      BY <1>3
    <3> QED
      BY <3>1, <3>2 DEF Depth
  <2>2. Depth(m, p + 1 + k) \in Int
    BY <1>1, <1>2 DEF Depth
  <2> QED
    BY <1>4, <2>1, <2>2
<1> HIDE DEF q, n
<1>8. ASSUME NEW k \in 0..Len(x) PROVE Depth(x, k) >= 0
  <2>1. CASE k <= p
    BY <2>1, <1>1, <1>5
  <2>2. CASE k > p /\ k <= p + q
    <3>1. k - p \in 0..q /\ p + (k - p) = k
      BY <2>2, <1>1
    <3> QED
      BY <3>1, <1>6
  <2>3. CASE k > p + q
    <3> DEFINE i == k - p - q
    <3>1. i \in 0..n-p-1 /\ p + q + i = k /\ p + 1 + i \in 0..n
      BY <2>3, <1>1
    <3> HIDE DEF i
    <3> QED
      BY <3>1, <1>4, <1>7
  <2> QED
    BY <2>1, <2>2, <2>3, <1>1
<1>9. Depth(x, Len(x)) = 0
  <2> DEFINE i == n - p - 1
  <2>1. i \in 0..n-p-1 /\ p + q + i = Len(x) /\ p + 1 + i = n
    BY <1>1
  <2> HIDE DEF i
  <2> QED
    BY <2>1, <1>4, <1>7
<1> QED
  BY <1>8, <1>9 DEF Balanced

\* The height changes by what is put in and what is taken out.
LEMMA SpliceHeight ==
    ASSUME NEW x, NEW m, NEW p, NEW w, IsSplice(x, m, p, w), m[p+1] \notin Opt
    PROVE  /\ Height(x, Len(x)) \in Int /\ Height(m, Len(m)) \in Int
           /\ Height(w, Len(w)) \in Int
           /\ Height(x, Len(x)) = Height(m, Len(m)) + Height(w, Len(w))
                                    - (IF m[p+1] \in Num THEN 1 ELSE 0)
<1> DEFINE q == Len(w)
           n == Len(m)
           k == n - p - 1
<1>1. /\ p \in Nat /\ q \in Nat /\ n \in Nat /\ k \in 0..n-p-1
      /\ p + q + k = Len(x) /\ p + 1 + k = n /\ Len(x) \in Nat
  <2>1. n \in Nat /\ q \in Nat /\ p \in 0..n-1 /\ Len(x) = n - 1 + q
    BY DEF IsSplice
  <2> HIDE DEF n, q
  <2> QED
    BY <2>1
<1>2. \A s, S : \A i \in Nat : Count(s, i, S) \in Nat
  BY CountStep
<1>3. \A S : Count(x, p + q + k, S)
             = Count(m, p + 1 + k, S) - (IF m[p+1] \in S THEN 1 ELSE 0) + Count(w, q, S)
  <2> TAKE S
  <2>1. \A i \in 0..n-p-1 :
           Count(x, p + q + i, S)
             = Count(m, p + 1 + i, S) - (IF m[p+1] \in S THEN 1 ELSE 0) + Count(w, q, S)
    BY SpliceCount
  <2> HIDE DEF k, q, n
  <2> QED
    BY <1>1, <2>1
<1> HIDE DEF k, q, n
<1>4. \A S : Count(x, Len(x), S)
                = Count(m, n, S) - (IF m[p+1] \in S THEN 1 ELSE 0) + Count(w, q, S)
  BY <1>1, <1>3
<1>5. /\ Count(x, Len(x), Num) \in Nat /\ Count(x, Len(x), Opt) \in Nat
      /\ Count(m, n, Num) \in Nat /\ Count(m, n, Opt) \in Nat
      /\ Count(w, q, Num) \in Nat /\ Count(w, q, Opt) \in Nat
  BY <1>1, <1>2
<1>6. /\ Count(x, Len(x), Num)
            = Count(m, n, Num) - (IF m[p+1] \in Num THEN 1 ELSE 0) + Count(w, q, Num)
      /\ Count(x, Len(x), Opt) = Count(m, n, Opt) - 0 + Count(w, q, Opt)
  BY <1>4
<1> DEFINE d == IF m[p+1] \in Num THEN 1 ELSE 0
           xn == Count(x, Len(x), Num)    xo == Count(x, Len(x), Opt)
           mn == Count(m, n, Num)         mo == Count(m, n, Opt)
           wn == Count(w, q, Num)         wo == Count(w, q, Opt)
           hx == Height(x, Len(x))        hm == Height(m, n)       hw == Height(w, q)
<1>7. d \in Int /\ hx = xn - xo /\ hm = mn - mo /\ hw = wn - wo
  BY DEF Height
<1>8. /\ xn = (mn - d) + wn /\ xo = mo + wo
      /\ {xn, xo, mn, mo, wn, wo} \subseteq Nat
  BY <1>5, <1>6
<1>9. hx \in Int /\ hm \in Int /\ hw \in Int /\ hx = (hm + hw) - d
  <2> HIDE DEF d, xn, xo, mn, mo, wn, wo, hx, hm, hw
  <2> QED
    BY <1>7, <1>8
<1> QED
  BY <1>9 DEF q, n

\* An operand of an infix expression may be replaced by an infix expression.
LEMMA SpliceWellFormed ==
    ASSUME NEW x, NEW m, NEW p, NEW w, IsSplice(x, m, p, w),
           Num \cap Opt = {}, (Num \cup Opt) \cap {"(", ")"} = {},
           m[p+1] \in Num, WellFormed(m), WellFormed(w),
           x \in Seq(Num \cup Opt \cup {"(", ")"})
    PROVE  WellFormed(x)
<1> DEFINE q == Len(w)
           n == Len(m)
           After(t) == IF EndsOperand(t) THEN Opt \cup {")"} ELSE Num \cup {"("}
<1>1. /\ p \in Nat /\ q \in Nat /\ n \in Nat /\ p + 1 <= n /\ Len(x) = n - 1 + q
      /\ \A j \in 1..p : x[j] = m[j]
      /\ \A j \in 1..q : x[p+j] = w[j]
      /\ \A j \in 1..n-p-1 : x[p+q+j] = m[p+1+j]
  BY DEF IsSplice
<1>2. /\ q >= 1 /\ w[1] \in Num \cup {"("} /\ EndsOperand(w[q])
      /\ \A k \in 1..q-1 : w[k+1] \in After(w[k])
  <2>1. w # <<>> /\ w \in Seq(Num \cup Opt \cup {"(", ")"})
    BY DEF WellFormed
  <2>2. q >= 1
    BY <2>1
  <2> QED
    BY <2>2 DEF WellFormed
<1>3. /\ m[1] \in Num \cup {"("} /\ EndsOperand(m[n])
      /\ \A k \in 1..n-1 : m[k+1] \in After(m[k])
  BY DEF WellFormed
<1>4. Balanced(x)
  <2>1. m[p+1] \notin {"(", ")"}
    OBVIOUS
  <2>2. Balanced(m) /\ Balanced(w)
    BY DEF WellFormed, Balanced
  <2> QED
    BY <2>1, <2>2, SpliceBalanced
<1> HIDE DEF q, n
<1>5. x[1] \in Num \cup {"("}
  <2>1. CASE p = 0
    <3>1. x[0+1] = w[1]
      BY <2>1, <1>1, <1>2
    <3> QED
      BY <3>1, <1>2
  <2>2. CASE p > 0
    BY <2>2, <1>1, <1>3
  <2> QED
    BY <2>1, <2>2, <1>1
<1>6. EndsOperand(x[Len(x)])
  <2>1. CASE n = p + 1
    <3>1. Len(x) = p + q /\ x[p+q] = w[q]
      BY <2>1, <1>1, <1>2
    <3> QED
      BY <3>1, <1>2
  <2>2. CASE n > p + 1
    <3> DEFINE j == n - p - 1
    <3>1. j \in 1..n-p-1 /\ p + q + j = Len(x) /\ p + 1 + j = n
      BY <2>2, <1>1
    <3> HIDE DEF j
    <3>2. x[Len(x)] = m[n]
      BY <3>1, <1>1
    <3> QED
      BY <3>2, <1>3
  <2> QED
    BY <2>1, <2>2, <1>1
<1>7. ASSUME NEW k \in 1..Len(x)-1 PROVE x[k+1] \in After(x[k])
  <2>1. CASE k < p
    <3>1. x[k] = m[k] /\ x[k+1] = m[k+1] /\ k \in 1..n-1
      BY <2>1, <1>1
    <3> QED
      BY <3>1, <1>3
  <2>2. CASE k = p
    <3>1. x[k] = m[p] /\ x[p+1] = w[1] /\ p \in 1..n-1
      BY <2>2, <1>1, <1>2
    <3>2. m[p+1] \in After(m[p])
      BY <3>1, <1>3
    <3>3. ~EndsOperand(m[p])
      BY <3>2
    <3> QED
      BY <2>2, <3>1, <3>3, <1>2
  <2>3. CASE p < k /\ k < p + q
    <3> DEFINE j == k - p
    <3>1. j \in 1..q-1 /\ j + 1 \in 1..q /\ k = p + j /\ k + 1 = p + (j + 1)
      BY <2>3, <1>1
    <3> HIDE DEF j
    <3>2. x[k] = w[j] /\ x[k+1] = w[j+1]
      BY <3>1, <1>1
    <3> QED
      BY <3>1, <3>2, <1>2
  <2>4. CASE k = p + q
    <3>1. p + 1 \in 1..n-1 /\ q \in 1..q /\ 1 \in 1..n-p-1
      BY <2>4, <1>1, <1>2
    <3>2. x[k] = w[q] /\ x[k+1] = m[p+1+1]
      BY <2>4, <3>1, <1>1
    <3>3. m[(p+1)+1] \in After(m[p+1])
      BY <3>1, <1>3
    <3>4. EndsOperand(m[p+1])
      BY DEF EndsOperand
    <3> QED
      BY <3>2, <3>3, <3>4, <1>2
  <2>5. CASE k > p + q
    <3> DEFINE j == k - p - q
               i == p + 1 + j
    <3>1. /\ j \in 1..n-p-1 /\ j + 1 \in 1..n-p-1 /\ k = p + q + j /\ k + 1 = p + q + (j + 1)
          /\ i = p + 1 + j /\ i + 1 = p + 1 + (j + 1) /\ i \in 1..n-1
      BY <2>5, <1>1
    <3> HIDE DEF j, i
    <3>2. x[k] = m[i] /\ x[k+1] = m[i+1]
      BY <3>1, <1>1
    <3> QED
      BY <3>1, <3>2, <1>3
  <2> QED
    BY <2>1, <2>2, <2>3, <2>4, <2>5, <1>1
<1>8. x # <<>>
  <2>1. Len(x) >= 1
    BY <1>1, <1>2
  <2> QED
    BY <2>1
<1> QED
  BY <1>4, <1>5, <1>6, <1>7, <1>8 DEF WellFormed, Balanced

-----------------------------------------------------------------------------
\* A count over the first elements of a sequence, one by one.
LEMMA CountFirst ==
    ASSUME NEW s, NEW S
    PROVE  LET C(k) == IF s[k] \in S THEN 1 ELSE 0 IN
           /\ Count(s, 0, S) = 0
           /\ Count(s, 1, S) = C(1)
           /\ Count(s, 2, S) = C(1) + C(2)
           /\ Count(s, 3, S) = C(1) + C(2) + C(3)
           /\ Count(s, 4, S) = C(1) + C(2) + C(3) + C(4)
           /\ Count(s, 5, S) = C(1) + C(2) + C(3) + C(4) + C(5)
<1>1. Count(s, 0, S) = 0
  BY CountZero
<1>2. \A k \in Nat : Count(s, k + 1, S) = Count(s, k, S) + IF s[k+1] \in S THEN 1 ELSE 0
  BY CountStep
<1>3. /\ Count(s, 0 + 1, S) = Count(s, 0, S) + IF s[0+1] \in S THEN 1 ELSE 0
      /\ Count(s, 1 + 1, S) = Count(s, 1, S) + IF s[1+1] \in S THEN 1 ELSE 0
      /\ Count(s, 2 + 1, S) = Count(s, 2, S) + IF s[2+1] \in S THEN 1 ELSE 0
      /\ Count(s, 3 + 1, S) = Count(s, 3, S) + IF s[3+1] \in S THEN 1 ELSE 0
      /\ Count(s, 4 + 1, S) = Count(s, 4, S) + IF s[4+1] \in S THEN 1 ELSE 0
  BY <1>2
<1> QED
  BY <1>1, <1>3

\* Operands and operators, a placeholder among them, and the parentheses.
LEMMA ShapesBalanced ==
    ASSUME NEW x, NEW y, NEW z, NEW o,
           \A e \in {x, y, z, o} : e # "(" /\ e # ")"
    PROVE  /\ Balanced(<<>>)
           /\ Balanced(<<x>>)
           /\ Balanced(<<"(", x, ")">>)
           /\ Balanced(<<"(", z, o, x, ")">>)
           /\ Balanced(<<x, o, y>>)
<1>1. \A s : LET D(k) == (IF s[k] = "(" THEN 1 ELSE 0) - (IF s[k] = ")" THEN 1 ELSE 0) IN
        /\ Depth(s, 0) = 0
        /\ Depth(s, 1) = D(1)
        /\ Depth(s, 2) = D(1) + D(2)
        /\ Depth(s, 3) = D(1) + D(2) + D(3)
        /\ Depth(s, 4) = D(1) + D(2) + D(3) + D(4)
        /\ Depth(s, 5) = D(1) + D(2) + D(3) + D(4) + D(5)
  <2> TAKE s
  <2> DEFINE L(k) == IF s[k] \in {"("} THEN 1 ELSE 0
             R(k) == IF s[k] \in {")"} THEN 1 ELSE 0
  <2>1. /\ Count(s, 0, {"("}) = 0
        /\ Count(s, 1, {"("}) = L(1)
        /\ Count(s, 2, {"("}) = L(1) + L(2)
        /\ Count(s, 3, {"("}) = L(1) + L(2) + L(3)
        /\ Count(s, 4, {"("}) = L(1) + L(2) + L(3) + L(4)
        /\ Count(s, 5, {"("}) = L(1) + L(2) + L(3) + L(4) + L(5)
    BY CountFirst
  <2>2. /\ Count(s, 0, {")"}) = 0
        /\ Count(s, 1, {")"}) = R(1)
        /\ Count(s, 2, {")"}) = R(1) + R(2)
        /\ Count(s, 3, {")"}) = R(1) + R(2) + R(3)
        /\ Count(s, 4, {")"}) = R(1) + R(2) + R(3) + R(4)
        /\ Count(s, 5, {")"}) = R(1) + R(2) + R(3) + R(4) + R(5)
    BY CountFirst
  <2> QED
    BY <2>1, <2>2 DEF Depth
<1>0. x # "(" /\ x # ")" /\ y # "(" /\ y # ")" /\ z # "(" /\ z # ")" /\ o # "(" /\ o # ")"
  OBVIOUS
<1>2. Balanced(<<>>)
  <2>1. Depth(<<>>, 0) = 0 /\ Len(<<>>) = 0
    BY <1>1
  <2> QED
    BY <2>1 DEF Balanced
<1>3. Balanced(<<x>>)
  <2> DEFINE s == <<x>>
  <2>1. Len(s) = 1 /\ s[1] = x
    OBVIOUS
  <2> HIDE DEF s
  <2>2. Depth(s, 0) = 0 /\ Depth(s, 1) = 0
    BY <1>0, <1>1, <2>1
  <2>3. 0..Len(s) = {0, 1}
    BY <2>1
  <2>4. Balanced(s)
    BY <2>1, <2>2, <2>3 DEF Balanced
  <2> QED
    BY <2>4 DEF s
<1>4. Balanced(<<"(", x, ")">>)
  <2> DEFINE s == <<"(", x, ")">>
  <2>1. Len(s) = 3 /\ s[1] = "(" /\ s[2] = x /\ s[3] = ")"
    OBVIOUS
  <2> HIDE DEF s
  <2>2. Depth(s, 0) = 0 /\ Depth(s, 1) = 1 /\ Depth(s, 2) = 1 /\ Depth(s, 3) = 0
    BY <1>0, <1>1, <2>1
  <2>3. 0..Len(s) = {0, 1, 2, 3}
    BY <2>1
  <2>4. Balanced(s)
    BY <2>1, <2>2, <2>3 DEF Balanced
  <2> QED
    BY <2>4 DEF s
<1>5. Balanced(<<"(", z, o, x, ")">>)
  <2> DEFINE s == <<"(", z, o, x, ")">>
  <2>1. Len(s) = 5 /\ s[1] = "(" /\ s[2] = z /\ s[3] = o /\ s[4] = x /\ s[5] = ")"
    OBVIOUS
  <2> HIDE DEF s
  <2>2. /\ Depth(s, 0) = 0 /\ Depth(s, 1) = 1 /\ Depth(s, 2) = 1 /\ Depth(s, 3) = 1
        /\ Depth(s, 4) = 1 /\ Depth(s, 5) = 0
    BY <1>0, <1>1, <2>1
  <2>3. 0..Len(s) = {0, 1, 2, 3, 4, 5}
    BY <2>1
  <2>4. Balanced(s)
    BY <2>1, <2>2, <2>3 DEF Balanced
  <2> QED
    BY <2>4 DEF s
<1>6. Balanced(<<x, o, y>>)
  <2> DEFINE s == <<x, o, y>>
  <2>1. Len(s) = 3 /\ s[1] = x /\ s[2] = o /\ s[3] = y
    OBVIOUS
  <2> HIDE DEF s
  <2>2. Depth(s, 0) = 0 /\ Depth(s, 1) = 0 /\ Depth(s, 2) = 0 /\ Depth(s, 3) = 0
    BY <1>0, <1>1, <2>1
  <2>3. 0..Len(s) = {0, 1, 2, 3}
    BY <2>1
  <2>4. Balanced(s)
    BY <2>1, <2>2, <2>3 DEF Balanced
  <2> QED
    BY <2>4 DEF s
<1> QED
  BY <1>2, <1>3, <1>4, <1>5, <1>6

\* Their heights: a token that is neither operand nor operator counts for nothing.
LEMMA ShapesHeight ==
    ASSUME Num \cap Opt = {}, (Num \cup Opt) \cap {"(", ")"} = {},
           NEW x, NEW y, {x, y} \cap Opt = {}, NEW z \in Num, NEW o \in Opt
    PROVE  LET W(e) == IF e \in Num THEN 1 ELSE 0 IN
           /\ Height(<<>>, 0) = 0
           /\ Height(<<x>>, 1) = W(x)
           /\ Height(<<"(", x, ")">>, 3) = W(x)
           /\ Height(<<"(", z, o, x, ")">>, 5) = W(x)
           /\ Height(<<x, o, y>>, 3) = W(x) + W(y) - 1
<1>1. \A s : LET H(k) == (IF s[k] \in Num THEN 1 ELSE 0) - (IF s[k] \in Opt THEN 1 ELSE 0) IN
        /\ Height(s, 0) = 0
        /\ Height(s, 1) = H(1)
        /\ Height(s, 3) = H(1) + H(2) + H(3)
        /\ Height(s, 5) = H(1) + H(2) + H(3) + H(4) + H(5)
  <2> TAKE s
  <2> DEFINE N(k) == IF s[k] \in Num THEN 1 ELSE 0
             O(k) == IF s[k] \in Opt THEN 1 ELSE 0
  <2>1. /\ Count(s, 0, Num) = 0
        /\ Count(s, 1, Num) = N(1)
        /\ Count(s, 3, Num) = N(1) + N(2) + N(3)
        /\ Count(s, 5, Num) = N(1) + N(2) + N(3) + N(4) + N(5)
    BY CountFirst
  <2>2. /\ Count(s, 0, Opt) = 0
        /\ Count(s, 1, Opt) = O(1)
        /\ Count(s, 3, Opt) = O(1) + O(2) + O(3)
        /\ Count(s, 5, Opt) = O(1) + O(2) + O(3) + O(4) + O(5)
    BY CountFirst
  <2> QED
    BY <2>1, <2>2 DEF Height
<1>2. Height(<<>>, 0) = 0
  BY <1>1
<1>3. Height(<<x>>, 1) = IF x \in Num THEN 1 ELSE 0
  <2> DEFINE s == <<x>>
  <2>1. s[1] = x
    OBVIOUS
  <2> HIDE DEF s
  <2>2. Height(s, 1) = IF x \in Num THEN 1 ELSE 0
    BY <1>1, <2>1
  <2> QED
    BY <2>2 DEF s
<1>4. Height(<<"(", x, ")">>, 3) = IF x \in Num THEN 1 ELSE 0
  <2> DEFINE s == <<"(", x, ")">>
  <2>1. s[1] = "(" /\ s[2] = x /\ s[3] = ")"
    OBVIOUS
  <2> HIDE DEF s
  <2>2. Height(s, 3) = IF x \in Num THEN 1 ELSE 0
    BY <1>1, <2>1
  <2> QED
    BY <2>2 DEF s
<1>5. Height(<<"(", z, o, x, ")">>, 5) = IF x \in Num THEN 1 ELSE 0
  <2> DEFINE s == <<"(", z, o, x, ")">>
  <2>1. s[1] = "(" /\ s[2] = z /\ s[3] = o /\ s[4] = x /\ s[5] = ")"
    OBVIOUS
  <2> HIDE DEF s
  <2>2. Height(s, 5) = IF x \in Num THEN 1 ELSE 0
    BY <1>1, <2>1
  <2> QED
    BY <2>2 DEF s
<1>6. Height(<<x, o, y>>, 3)
        = (IF x \in Num THEN 1 ELSE 0) + (IF y \in Num THEN 1 ELSE 0) - 1
  <2> DEFINE s == <<x, o, y>>
  <2>1. s[1] = x /\ s[2] = o /\ s[3] = y
    OBVIOUS
  <2> HIDE DEF s
  <2>2. Height(s, 3) = (IF x \in Num THEN 1 ELSE 0) + (IF y \in Num THEN 1 ELSE 0) - 1
    BY <1>1, <2>1
  <2> QED
    BY <2>2 DEF s
<1> QED
  BY <1>2, <1>3, <1>4, <1>5, <1>6

\* With operands in every place they are infix expressions.
LEMMA ShapesWellFormed ==
    ASSUME Num \cap Opt = {}, (Num \cup Opt) \cap {"(", ")"} = {},
           NEW x \in Num, NEW y \in Num, NEW z \in Num, NEW o \in Opt
    PROVE  /\ WellFormed(<<x>>)
           /\ WellFormed(<<"(", x, ")">>)
           /\ WellFormed(<<"(", z, o, x, ")">>)
           /\ WellFormed(<<x, o, y>>)
<1>1. /\ Balanced(<<x>>) /\ Balanced(<<"(", x, ")">>)
      /\ Balanced(<<"(", z, o, x, ")">>) /\ Balanced(<<x, o, y>>)
  <2>1. \A e \in {x, y, z, o} : e # "(" /\ e # ")"
    OBVIOUS
  <2> QED
    BY <2>1, ShapesBalanced
<1>2. /\ EndsOperand(x) /\ EndsOperand(y) /\ EndsOperand(z) /\ EndsOperand(")")
      /\ ~EndsOperand(o) /\ ~EndsOperand("(")
  BY DEF EndsOperand
<1> DEFINE T == Num \cup Opt \cup {"(", ")"}
           Next2(m, k) == IF EndsOperand(m[k]) THEN m[k+1] \in Opt \cup {")"}
                                               ELSE m[k+1] \in Num \cup {"("}
<1>3. ASSUME NEW m, m \in Seq(T), m # <<>>, m[1] \in Num \cup {"("}, EndsOperand(m[Len(m)]),
             \A k \in 1..Len(m)-1 : Next2(m, k), Balanced(m)
      PROVE  WellFormed(m)
  BY <1>3 DEF WellFormed, Balanced
<1>4. WellFormed(<<x>>)
  <2>1. /\ <<x>> \in Seq(T) /\ <<x>> # <<>> /\ Len(<<x>>) = 1
        /\ <<x>>[1] = x /\ 1..Len(<<x>>)-1 = {}
    OBVIOUS
  <2> QED
    BY <1>1, <1>2, <1>3, <2>1
<1>5. WellFormed(<<"(", x, ")">>)
  <2> DEFINE m == <<"(", x, ")">>
  <2>1. /\ m \in Seq(T) /\ m # <<>> /\ Len(m) = 3
        /\ m[1] = "(" /\ m[2] = x /\ m[3] = ")"
    OBVIOUS
  <2>2. Balanced(m)
    BY <1>1
  <2> HIDE DEF m
  <2>3. \A k \in {1, 2} : Next2(m, k)
    BY <1>2, <2>1
  <2>4. 1..Len(m)-1 = {1, 2}
    BY <2>1
  <2>5. WellFormed(m)
    BY <1>2, <1>3, <2>1, <2>2, <2>3, <2>4
  <2> QED
    BY <2>5 DEF m
<1>6. WellFormed(<<"(", z, o, x, ")">>)
  <2> DEFINE m == <<"(", z, o, x, ")">>
  <2>1. /\ m \in Seq(T) /\ m # <<>> /\ Len(m) = 5
        /\ m[1] = "(" /\ m[2] = z /\ m[3] = o /\ m[4] = x /\ m[5] = ")"
    OBVIOUS
  <2>2. Balanced(m)
    BY <1>1
  <2> HIDE DEF m
  <2>3. \A k \in {1, 2, 3, 4} : Next2(m, k)
    BY <1>2, <2>1
  <2>4. 1..Len(m)-1 = {1, 2, 3, 4}
    BY <2>1
  <2>5. WellFormed(m)
    BY <1>2, <1>3, <2>1, <2>2, <2>3, <2>4
  <2> QED
    BY <2>5 DEF m
<1>7. WellFormed(<<x, o, y>>)
  <2> DEFINE m == <<x, o, y>>
  <2>1. /\ m \in Seq(T) /\ m # <<>> /\ Len(m) = 3
        /\ m[1] = x /\ m[2] = o /\ m[3] = y
    OBVIOUS
  <2>2. Balanced(m)
    BY <1>1
  <2> HIDE DEF m
  <2>3. \A k \in {1, 2} : Next2(m, k)
    BY <1>2, <2>1
  <2>4. 1..Len(m)-1 = {1, 2}
    BY <2>1
  <2>5. WellFormed(m)
    BY <1>2, <1>3, <2>1, <2>2, <2>3, <2>4
  <2> QED
    BY <2>5 DEF m
<1> QED
  BY <1>4, <1>5, <1>6, <1>7

-----------------------------------------------------------------------------
\* The types: what __const_expr_ takes from the operand stack is an int.
BlockTypeInv ==
    /\ BlockTypeOK
    /\ opof \in Seq(I32)
    /\ const_expr \in {<<>>} \cup {<<v>> : v \in I32}
    /\ pc = "val" => const_expr # <<>>

\* A step of the folder keeps what the constructor needs of it.
LEMMA FoldTypeStep ==
    ASSUME BlockTypeInv, FoldStep
    PROVE  BlockTypeInv'
<1>1. UNCHANGED <<block, to_visit, instructions>> /\ EvalNext
  BY DEF FoldStep, blockVars
<1> SUFFICES /\ pc \in {"scan", "eval"}
             /\ pc' \in {"scan", "eval", "val", "abort", "trap", "undefined"}
             /\ opof' \in Seq(I32)
             /\ const_expr' \in {<<>>} \cup {<<v>> : v \in I32}
             /\ pc' = "val" => const_expr' # <<>>
  BY <1>1 DEF BlockTypeInv, BlockTypeOK
<1> USE DEF BlockTypeInv
<1>2. CASE ConvertStep
  <2>1. pc = "scan" /\ pc' \in {"scan", "eval", "abort"}
    BY <1>2 DEF ConvertStep, Convert, Operand, PopOperator, PushOperator, OpenParen,
                PopInParen, CloseParen, IllegalToken, Flush, Return, At, Advance, PopToRPN
  <2>2. opof' = opof /\ const_expr' = const_expr
    BY <1>2 DEF ConvertStep, evalVars
  <2> QED
    BY <2>1, <2>2
<1>3. CASE EvalOperand
  <2>1. StrToInt(rpn_op_stk[rpn]) \in I32
    BY OutcomesAssumption DEF StrToInt, OutcomesAssumption
  <2> QED
    BY <1>3, <2>1 DEF EvalOperand, EvalAt
<1>4. CASE EvalOpt
  <2>1. /\ pc = "eval" /\ UNCHANGED const_expr
        /\ rpn_op_stk[rpn] \in Opt \cup {"#"} /\ Len(opof) >= 2
    BY <1>4 DEF EvalOpt, EvalAt
  <2>2. opof[Len(opof)-1] \in I32 /\ Last(opof) \in I32
    BY <2>1 DEF Last
  <2>3. PICK out \in OptOutcomes(opof[Len(opof)-1], rpn_op_stk[rpn], Last(opof)) :
          IF out[1] = "val"
          THEN /\ opof' = Append(SubSeq(opof, 1, Len(opof)-2), out[2])
               /\ rpn' = rpn + 1
               /\ UNCHANGED pc
          ELSE /\ pc' = out[1]
               /\ UNCHANGED <<opof, rpn>>
    BY <1>4 DEF EvalOpt
  <2>4. (out[1] = "val" /\ out[2] \in I32) \/ out[1] \in {"abort", "trap"}
    BY <2>1, <2>2, OutcomeType
  <2>5. SubSeq(opof, 1, Len(opof)-2) \in Seq(I32)
    BY <2>1
  <2>6. CASE out[1] = "val"
    <3>1. opof' \in Seq(I32) /\ pc' = pc
      BY <2>3, <2>4, <2>5, <2>6
    <3> QED
      BY <2>1, <3>1
  <2>7. CASE out[1] \in {"abort", "trap"}
    <3>1. opof' = opof /\ pc' \in {"abort", "trap"}
      BY <2>3, <2>7
    <3> QED
      BY <2>1, <3>1
  <2> QED
    BY <2>4, <2>6, <2>7
<1>5. CASE Underflow
  BY <1>5 DEF Underflow, EvalAt
<1>6. CASE EvalEnd
  <2>1. pc = "eval" /\ pc' \in {"val", "undefined"} /\ UNCHANGED opof
    BY <1>6 DEF EvalEnd
  <2>2. CASE opof # <<>> /\ const_expr' = <<Last(opof)>>
    <3>1. Last(opof) \in I32
      BY <2>2, FrontProperties
    <3>2. const_expr' \in {<<v>> : v \in I32} /\ const_expr' # <<>>
      BY <2>2, <3>1
    <3> QED
      BY <2>1, <3>2
  <2>3. CASE pc' = "undefined" /\ UNCHANGED const_expr
    BY <2>1, <2>3
  <2> QED
    BY <1>6, <2>2, <2>3 DEF EvalEnd
<1> QED
  BY <1>1, <1>2, <1>3, <1>4, <1>5, <1>6 DEF EvalNext

\* Every step of the constructor keeps the types and what its pc says of the queues.
LEMMA BlockTypeStep ==
    ASSUME BlockTypeInv, Next
    PROVE  BlockTypeInv'
<1> USE DEF BlockTypeInv, BlockTypeOK
<1>1. CASE TakeStatement
  BY <1>1 DEF TakeStatement, evalVars
<1>2. CASE PushToken
  BY <1>2 DEF PushToken, evalVars
<1>3. CASE VisitNode
  BY <1>3 DEF VisitNode, evalVars, convertVars
<1>4. CASE StartFolding
  BY <1>4 DEF StartFolding, evalVars, blockVars
<1>5. CASE FoldStep
  BY <1>5, FoldTypeStep
<1>6. CASE PushVal
  <2>1. const_expr[1] \in I32 /\ instructions = <<>>
    BY <1>6 DEF PushVal
  <2>2. Append(<<>>, <<"ret", const_expr[1]>>) = << <<"ret", const_expr[1]>> >>
    OBVIOUS
  <2> QED
    BY <1>6, <2>1, <2>2 DEF PushVal, evalVars
<1> QED
  BY <1>1, <1>2, <1>3, <1>4, <1>5, <1>6 DEF Next

\* Whatever the block holds and whatever its tree looks like, the constructor
\* fills its fields in their order and leaves one return instruction or none.
THEOREM BlockTypeCorrect == Spec => []BlockTypeOK
<1>1. Init => BlockTypeInv
  BY DEF Init, BlockTypeInv, BlockTypeOK
<1>2. BlockTypeInv /\ [Next \/ Constructed]_vars => BlockTypeInv'
  <2> SUFFICES ASSUME BlockTypeInv, [Next \/ Constructed]_vars PROVE BlockTypeInv'
    OBVIOUS
  <2>1. CASE Next
    BY <2>1, BlockTypeStep
  <2>2. CASE UNCHANGED vars
    BY <2>2 DEF vars, folderVars, convertVars, evalVars, blockVars, BlockTypeInv, BlockTypeOK
  <2> QED
    BY <2>1, <2>2 DEF Constructed
<1>3. BlockTypeInv => BlockTypeOK
  BY DEF BlockTypeInv
<1> QED
  BY <1>1, <1>2, <1>3, PTL DEF Spec, BlockSafety

-----------------------------------------------------------------------------
\* The tokens of a queue that the traversal makes.
Tokens == Num \cup Opt \cup {"(", ")"}

\* What the nodes have below them.
Operands == UNION {{n.kids[k] : k \in 1..3} : n \in Nodes}
PushedTokens == {Pushed(t) : t \in Tokens}
Leaves == {h \in Operands \cup PushedTokens : h.tid \in LeafClasses /\ h.tok \in Tokens}

\* What traverseExpr may come to: a node, or the leaf of a token.
Visitable == Nodes \cup Leaves

\* The token that stands for a node which has not been visited: its own for a
\* leaf, else an operand, or what is none for a node that names a variable.
Repr(h) == IF h.tid \in LeafClasses THEN h.tok
           ELSE IF NamesVariable(h) THEN "#" ELSE "0"

\* The queue m with what is still to visit at its end.
Pending(m, v) ==
    [k \in 1..Len(m)+Len(v) |-> IF k <= Len(m) THEN m[k] ELSE Repr(v[k-Len(m)])]

\* An expression is an operand, or names a variable and is none.
LEMMA NodeFacts ==
    ASSUME NEW h \in Nodes
    PROVE  /\ IsExpression(h, Nodes)
           /\ h \in Visitable
           /\ h.tid \in LeafClasses => h.tok \in Num /\ ~NamesVariable(h)
           /\ Repr(h) = "#" \/ Repr(h) \in Num
           /\ Repr(h) \in Num <=> ~NamesVariable(h)
<1>1. IsExpression(h, Nodes) /\ "0" \in Num /\ "#" \notin Num
  BY NodesAssumption, TokenAssumption DEF AreNodesOf
<1>2. h.tid \in LeafClasses => h.tid = "NUMBER" /\ h.tok \in Num /\ ~NamesVariable(h)
  BY <1>1 DEF IsExpression, LeafClasses, OneOperand, TwoOperands, Logical
<1>3. Repr(h) = "#" \/ Repr(h) \in Num
  BY <1>1, <1>2 DEF Repr
<1>4. Repr(h) \in Num <=> ~NamesVariable(h)
  BY <1>1, <1>2 DEF Repr
<1>5. h \in Visitable
  BY DEF Visitable
<1> QED
  BY <1>1, <1>2, <1>3, <1>4, <1>5

\* A token that traverseExpr pushes itself.
LEMMA PushedFacts ==
    ASSUME NEW t \in Tokens
    PROVE  Pushed(t) \in Visitable /\ Repr(Pushed(t)) = t
<1>1. Pushed(t).tid \in LeafClasses /\ Pushed(t).tok = t
  BY DEF Pushed, Leaf, LeafClasses
<1>2. Repr(Pushed(t)) = t
  BY <1>1 DEF Repr
<1> DEFINE p == Pushed(t)
<1>3. p \in PushedTokens
  BY DEF PushedTokens
<1>4. p \in Visitable
  BY <1>1, <1>3 DEF Visitable, Leaves
<1> QED
  BY <1>2, <1>4

\* The operator of a node.
LEMMA OperatorFacts ==
    ASSUME NEW n \in Nodes, NEW k \in 1..3, IsOperator(n.kids[k])
    PROVE  n.kids[k] \in Visitable /\ Repr(n.kids[k]) \in Opt
<1>1. n.kids[k].tid \in LeafClasses /\ n.kids[k].tok \in Opt
  BY DEF IsOperator, LeafClasses
<1>2. n.kids[k] \in Operands
  BY DEF Operands
<1>3. n.kids[k] \in Visitable
  BY <1>1, <1>2 DEF Visitable, Leaves, Tokens
<1> QED
  BY <1>1, <1>3 DEF Repr

\* Short sequences, one after the other.
LEMMA ConcatTuples ==
    /\ \A a, b, c : <<a>> \o <<b>> \o <<c>> = <<a, b, c>>
    /\ \A a, b, c, d, e : <<a, b>> \o <<c, d>> \o <<e>> = <<a, b, c, d, e>>
<1>1. ASSUME NEW a, NEW b, NEW c
      PROVE  <<a>> \o <<b>> \o <<c>> = <<a, b, c>>
  <2> DEFINE S == {a, b, c}
             s == <<a>> \o <<b>>
  <2>1. <<a>> \in Seq(S) /\ <<b>> \in Seq(S) /\ <<c>> \in Seq(S) /\ <<a, b, c>> \in Seq(S)
    OBVIOUS
  <2>2. s \in Seq(S) /\ Len(s) = 2 /\ s[1] = a /\ s[2] = b
    BY <2>1, ConcatProperties
  <2> HIDE DEF s, S
  <2>3. /\ s \o <<c>> \in Seq(S) /\ Len(s \o <<c>>) = 3
        /\ (s \o <<c>>)[1] = a /\ (s \o <<c>>)[2] = b /\ (s \o <<c>>)[3] = c
    BY <2>1, <2>2, ConcatProperties
  <2>4. \A i \in 1..3 : (s \o <<c>>)[i] = <<a, b, c>>[i]
    BY <2>3
  <2>5. s \o <<c>> = <<a, b, c>>
    BY <2>1, <2>3, <2>4, SeqEqual
  <2> QED
    BY <2>5 DEF s
<1>2. ASSUME NEW a, NEW b, NEW c, NEW d, NEW e
      PROVE  <<a, b>> \o <<c, d>> \o <<e>> = <<a, b, c, d, e>>
  <2> DEFINE S == {a, b, c, d, e}
             s == <<a, b>> \o <<c, d>>
  <2>1. <<a, b>> \in Seq(S) /\ <<c, d>> \in Seq(S) /\ <<e>> \in Seq(S) /\ <<a, b, c, d, e>> \in Seq(S)
    OBVIOUS
  <2>2. s \in Seq(S) /\ Len(s) = 4 /\ s[1] = a /\ s[2] = b /\ s[3] = c /\ s[4] = d
    BY <2>1, ConcatProperties
  <2> HIDE DEF s, S
  <2>0. <<e>> \in Seq(S)
    BY <2>1
  <2>3. /\ s \o <<e>> \in Seq(S) /\ Len(s \o <<e>>) = Len(s) + Len(<<e>>)
        /\ \A i \in 1..Len(s)+Len(<<e>>) :
              (s \o <<e>>)[i] = IF i <= Len(s) THEN s[i] ELSE <<e>>[i - Len(s)]
    BY <2>0, <2>2, ConcatProperties
  <2>4. Len(s \o <<e>>) = 5 /\ \A i \in 1..5 : (s \o <<e>>)[i] = <<a, b, c, d, e>>[i]
    BY <2>2, <2>3
  <2>5. s \o <<e>> = <<a, b, c, d, e>>
    BY <2>1, <2>3, <2>4, SeqEqual
  <2> QED
    BY <2>5 DEF s
<1> QED
  BY <1>1, <1>2

\* What a node visits, by its shape.
LEMMA VisitsShape ==
    ASSUME NEW h \in Nodes, h.tid \notin LeafClasses
    PROVE  \/ Visits(h) = <<>> /\ NamesVariable(h)
           \/ \E k \in Nodes :
                 /\ NamesVariable(h) <=> NamesVariable(k)
                 /\ \/ Visits(h) = <<k>>
                    \/ Visits(h) = <<Pushed("("), k, Pushed(")")>>
                    \/ \E o \in Visitable :
                          /\ Repr(o) \in Opt
                          /\ Visits(h) = <<Pushed("("), Pushed("0"), o, k, Pushed(")")>>
           \/ \E k1 \in Nodes, k2 \in Nodes, o \in Visitable :
                 /\ NamesVariable(h) <=> NamesVariable(k1) \/ NamesVariable(k2)
                 /\ Repr(o) \in Opt
                 /\ Visits(h) = <<k1, o, k2>>
<1>1. IsExpression(h, Nodes)
  BY NodeFacts
<1>2. CASE h.tid = "PRIMARY_EXPR" /\ h.sub = "LVal" /\ NamesVariable(h)
  BY <1>2 DEF Visits
<1>3. CASE /\ <<h.tid, h.sub>> \in OneOperand
           /\ h.kids = <<h.kids[1]>> /\ h.kids[1] \in Nodes
           /\ NamesVariable(h) <=> NamesVariable(h.kids[1])
  <2>1. CASE h.tid = "PRIMARY_EXPR" /\ h.sub = "Expr"
    <3>1. Visits(h) = <<Pushed("(")>> \o h.kids \o <<Pushed(")")>>
      BY <2>1 DEF Visits
    <3> DEFINE a == Pushed("(") b == Pushed(")") c == h.kids[1]
    <3>2. Visits(h) = <<a>> \o <<c>> \o <<b>>
      BY <3>1, <1>3
    <3> HIDE DEF a, b, c
    <3>3. <<a>> \o <<c>> \o <<b>> = <<a, c, b>>
      BY ConcatTuples
    <3> QED
      BY <3>2, <3>3, <1>3 DEF a, b, c
  <2>2. CASE ~(h.tid = "PRIMARY_EXPR" /\ h.sub = "Expr")
    <3>1. Visits(h) = h.kids
      BY <2>2, <1>3 DEF Visits, OneOperand
    <3> QED
      BY <3>1, <1>3
  <2> QED
    BY <2>1, <2>2
<1>4. CASE /\ h.tid = "UNARY_EXPR" /\ h.sub = "Una"
           /\ h.kids = <<h.kids[1], h.kids[2]>> /\ h.kids[2] \in Nodes
           /\ IsOperator(h.kids[1])
           /\ NamesVariable(h) <=> NamesVariable(h.kids[2])
  <2>1. Visits(h) = <<Pushed("("), Pushed("0")>> \o h.kids \o <<Pushed(")")>>
    BY <1>4 DEF Visits, UnaryVisits
  <2> DEFINE a == Pushed("(") z == Pushed("0") b == Pushed(")") o == h.kids[1] k == h.kids[2]
  <2>2. Visits(h) = <<a, z>> \o <<o, k>> \o <<b>>
    BY <2>1, <1>4
  <2>3. o \in Visitable /\ Repr(o) \in Opt /\ k \in Nodes
    BY <1>4, OperatorFacts
  <2>4. NamesVariable(h) <=> NamesVariable(k)
    BY <1>4
  <2> HIDE DEF a, b, z, o, k
  <2>5. <<a, z>> \o <<o, k>> \o <<b>> = <<a, z, o, k, b>>
    BY ConcatTuples
  <2> QED
    BY <2>2, <2>3, <2>4, <2>5 DEF a, b, z
<1>5. CASE /\ <<h.tid, h.sub>> \in TwoOperands
           /\ h.kids = <<h.kids[1], h.kids[2], h.kids[3]>> /\ {h.kids[1], h.kids[3]} \subseteq Nodes
           /\ IsOperator(h.kids[2])
           /\ NamesVariable(h) <=> NamesVariable(h.kids[1]) \/ NamesVariable(h.kids[3])
  <2>1. Visits(h) = h.kids
    BY <1>5 DEF Visits, TwoOperands
  <2>2. h.kids[2] \in Visitable /\ Repr(h.kids[2]) \in Opt
    BY <1>5, OperatorFacts
  <2> QED
    BY <2>1, <2>2, <1>5
<1>6. CASE /\ <<h.tid, h.sub>> \in Logical
           /\ h.kids = <<h.kids[1], h.kids[2]>> /\ {h.kids[1], h.kids[2]} \subseteq Nodes
           /\ NamesVariable(h) <=> NamesVariable(h.kids[1]) \/ NamesVariable(h.kids[2])
  <2>1. PICK t \in {"&&", "||"} : Visits(h) = <<h.kids[1], Pushed(t), h.kids[2]>>
    BY <1>6 DEF Visits, Logical
  <2>2. t \in Opt /\ t \in Tokens
    BY NodesAssumption DEF Tokens
  <2>3. Pushed(t) \in Visitable /\ Repr(Pushed(t)) \in Opt
    BY <2>2, PushedFacts
  <2> QED
    BY <2>1, <2>3, <1>6
<1> QED
  BY <1>1, <1>2, <1>3, <1>4, <1>5, <1>6 DEF IsExpression, LeafClasses

\* w are the tokens that stand for the elements of v.
Stands(w, v) == /\ Len(w) = Len(v) /\ Len(w) \in Nat
                /\ \A j \in 1..Len(w) : w[j] = Repr(v[j])

\* An infix expression, or what is left of one with variables in it.
Matches(w, variable) ==
    IF variable THEN Balanced(w) /\ Height(w, Len(w)) <= 0 ELSE WellFormed(w)

\* Such a queue, with the height it has.
Good(w, variable) ==
    /\ Balanced(w) /\ Matches(w, variable)
    /\ Height(w, Len(w)) \in Int
    /\ ~variable => Height(w, Len(w)) = 1

\* The tokens that stand for what a node visits make such a queue.
LEMMA ShapesGood ==
    ASSUME NEW x \in Num \cup {"#"}, NEW y \in Num \cup {"#"}, NEW o \in Opt
    PROVE  /\ Good(<<>>, TRUE)
           /\ Good(<<x>>, x \notin Num)
           /\ Good(<<"(", x, ")">>, x \notin Num)
           /\ Good(<<"(", "0", o, x, ")">>, x \notin Num)
           /\ Good(<<x, o, y>>, x \notin Num \/ y \notin Num)
<1>1. /\ Num \cap Opt = {} /\ (Num \cup Opt) \cap {"(", ")"} = {} /\ "0" \in Num
      /\ "#" \notin Num \cup Opt /\ {x, y} \cap Opt = {}
  BY TokenAssumption, NodesAssumption
<1>2. /\ Balanced(<<>>) /\ Balanced(<<x>>) /\ Balanced(<<"(", x, ")">>)
      /\ Balanced(<<"(", "0", o, x, ")">>) /\ Balanced(<<x, o, y>>)
  <2>1. \A e \in {x, y, "0", o} : e # "(" /\ e # ")"
    BY <1>1
  <2> QED
    BY <2>1, ShapesBalanced
<1> DEFINE W(e) == IF e \in Num THEN 1 ELSE 0
<1>3. /\ Height(<<>>, 0) = 0
      /\ Height(<<x>>, 1) = W(x)
      /\ Height(<<"(", x, ")">>, 3) = W(x)
      /\ Height(<<"(", "0", o, x, ")">>, 5) = W(x)
      /\ Height(<<x, o, y>>, 3) = W(x) + W(y) - 1
  BY <1>1, ShapesHeight
<1>4. x \in Num => /\ WellFormed(<<x>>) /\ WellFormed(<<"(", x, ")">>)
                   /\ WellFormed(<<"(", "0", o, x, ")">>)
  BY <1>1, ShapesWellFormed
<1>5. x \in Num /\ y \in Num => WellFormed(<<x, o, y>>)
  BY <1>1, ShapesWellFormed
<1>6. Len(<<>>) = 0 /\ Len(<<x>>) = 1 /\ Len(<<"(", x, ")">>) = 3
      /\ Len(<<"(", "0", o, x, ")">>) = 5 /\ Len(<<x, o, y>>) = 3
  OBVIOUS
<1> DEFINE a == <<x>> b == <<"(", x, ")">> c == <<"(", "0", o, x, ")">> d == <<x, o, y>>
<1> HIDE DEF a, b, c, d
<1>7. Good(<<>>, TRUE)
  BY <1>2, <1>3, <1>6 DEF Good, Matches
<1>8. Good(a, x \notin Num)
  BY <1>2, <1>3, <1>4, <1>6 DEF Good, Matches, a
<1>9. Good(b, x \notin Num)
  BY <1>2, <1>3, <1>4, <1>6 DEF Good, Matches, b
<1>10. Good(c, x \notin Num)
  BY <1>2, <1>3, <1>4, <1>6 DEF Good, Matches, c
<1>11. Good(d, x \notin Num \/ y \notin Num)
  BY <1>2, <1>3, <1>5, <1>6 DEF Good, Matches, d
<1> QED
  BY <1>7, <1>8, <1>9, <1>10, <1>11 DEF a, b, c, d

\* What a node visits is as good as the node.
LEMMA VisitsInfix ==
    ASSUME NEW h \in Nodes, h.tid \notin LeafClasses
    PROVE  /\ Visits(h) \in Seq(Visitable)
           /\ \E w : Stands(w, Visits(h)) /\ Good(w, NamesVariable(h))
<1>1. /\ Repr(Pushed("(")) = "(" /\ Repr(Pushed(")")) = ")" /\ Repr(Pushed("0")) = "0"
      /\ Pushed("(") \in Visitable /\ Pushed(")") \in Visitable /\ Pushed("0") \in Visitable
  BY PushedFacts, NodesAssumption DEF Tokens
<1>2. \A k \in Nodes : /\ k \in Visitable /\ Repr(k) \in Num \cup {"#"}
                       /\ Repr(k) \notin Num <=> NamesVariable(k)
  BY NodeFacts
<1>3. CASE Visits(h) = <<>> /\ NamesVariable(h)
  <2>1. Stands(<<>>, Visits(h))
    BY <1>3 DEF Stands
  <2>2. PICK x \in Num, o \in Opt : TRUE
    BY NodesAssumption
  <2>3. Good(<<>>, TRUE)
    BY <2>2, ShapesGood
  <2> DEFINE w == <<>>
  <2>4. Stands(w, Visits(h)) /\ Good(w, NamesVariable(h))
    BY <2>1, <2>3, <1>3 DEF Good, Matches
  <2> HIDE DEF w
  <2>5. \E v : Stands(v, Visits(h)) /\ Good(v, NamesVariable(h))
    BY <2>4
  <2>6. Visits(h) \in Seq(Visitable)
    BY <1>3
  <2> QED
    BY <2>5, <2>6
<1>4. ASSUME NEW k \in Nodes, NamesVariable(h) <=> NamesVariable(k), Visits(h) = <<k>>
      PROVE  /\ Visits(h) \in Seq(Visitable)
             /\ \E w : Stands(w, Visits(h)) /\ Good(w, NamesVariable(h))
  <2>1. Stands(<<Repr(k)>>, Visits(h))
    BY <1>4 DEF Stands
  <2>2. PICK o \in Opt : TRUE
    BY NodesAssumption
  <2>3. Good(<<Repr(k)>>, Repr(k) \notin Num)
    BY <2>2, <1>2, ShapesGood
  <2> DEFINE w == <<Repr(k)>>
  <2> HIDE DEF w
  <2>4. Good(w, NamesVariable(h))
    BY <2>3, <1>2, <1>4 DEF Good, Matches, w
  <2> QED
    BY <2>1, <2>4, <1>2, <1>4 DEF w
<1>5. ASSUME NEW k \in Nodes, NamesVariable(h) <=> NamesVariable(k),
             Visits(h) = <<Pushed("("), k, Pushed(")")>>
      PROVE  /\ Visits(h) \in Seq(Visitable)
             /\ \E w : Stands(w, Visits(h)) /\ Good(w, NamesVariable(h))
  <2> DEFINE w == <<"(", Repr(k), ")">>
  <2>1. Stands(w, Visits(h))
    BY <1>1, <1>5 DEF Stands
  <2>2. PICK o \in Opt : TRUE
    BY NodesAssumption
  <2>3. Good(w, Repr(k) \notin Num)
    BY <2>2, <1>2, ShapesGood
  <2> HIDE DEF w
  <2>4. Good(w, NamesVariable(h))
    BY <2>3, <1>2, <1>5 DEF Good, Matches
  <2> QED
    BY <2>1, <2>4, <1>1, <1>2, <1>5
<1>6. ASSUME NEW k \in Nodes, NEW o \in Visitable, Repr(o) \in Opt,
             NamesVariable(h) <=> NamesVariable(k),
             Visits(h) = <<Pushed("("), Pushed("0"), o, k, Pushed(")")>>
      PROVE  /\ Visits(h) \in Seq(Visitable)
             /\ \E w : Stands(w, Visits(h)) /\ Good(w, NamesVariable(h))
  <2> DEFINE w == <<"(", "0", Repr(o), Repr(k), ")">>
  <2>1. Stands(w, Visits(h))
    BY <1>1, <1>6 DEF Stands
  <2>2. Good(w, Repr(k) \notin Num)
    BY <1>2, <1>6, ShapesGood
  <2> HIDE DEF w
  <2>3. Good(w, NamesVariable(h))
    BY <2>2, <1>2, <1>6 DEF Good, Matches
  <2> QED
    BY <2>1, <2>3, <1>1, <1>2, <1>6
<1>7. ASSUME NEW k1 \in Nodes, NEW k2 \in Nodes, NEW o \in Visitable, Repr(o) \in Opt,
             NamesVariable(h) <=> NamesVariable(k1) \/ NamesVariable(k2),
             Visits(h) = <<k1, o, k2>>
      PROVE  /\ Visits(h) \in Seq(Visitable)
             /\ \E w : Stands(w, Visits(h)) /\ Good(w, NamesVariable(h))
  <2> DEFINE w == <<Repr(k1), Repr(o), Repr(k2)>>
  <2>1. Stands(w, Visits(h))
    BY <1>7 DEF Stands
  <2>2. Good(w, Repr(k1) \notin Num \/ Repr(k2) \notin Num)
    BY <1>2, <1>7, ShapesGood
  <2> HIDE DEF w
  <2>3. Good(w, NamesVariable(h))
    BY <2>2, <1>2, <1>7 DEF Good, Matches
  <2> QED
    BY <2>1, <2>3, <1>2, <1>7
<1> QED
  BY <1>3, <1>4, <1>5, <1>6, <1>7, VisitsShape

\* The place of the head of v in the queue.
LEMMA PendingSplice ==
    ASSUME NEW S, NEW m \in Seq(S), NEW v \in Seq(Visitable), v # <<>>,
           Visits(Head(v)) \in Seq(Visitable),
           NEW w, Stands(w, Visits(Head(v)))
    PROVE  /\ IsSplice(Pending(m, Visits(Head(v)) \o Tail(v)), Pending(m, v), Len(m), w)
           /\ Pending(m, v)[Len(m)+1] = Repr(Head(v))
           /\ Visits(Head(v)) \o Tail(v) \in Seq(Visitable)
<1> DEFINE a == Visits(Head(v))   t == Tail(v)   n == Len(m)   q == Len(a)   r == Len(t)
           u == a \o t            x == Pending(m, u)           y == Pending(m, v)
<1>1. /\ n \in Nat /\ q \in Nat /\ r \in Nat /\ Len(v) = r + 1
      /\ a \in Seq(Visitable) /\ t \in Seq(Visitable)
      /\ v[1] = Head(v) /\ \A j \in 1..r : t[j] = v[j+1]
  BY HeadTailProperties
<1>2. /\ u \in Seq(Visitable) /\ Len(u) = q + r
      /\ \A j \in 1..q+r : u[j] = IF j <= q THEN a[j] ELSE t[j-q]
  BY <1>1, ConcatProperties
<1>3. Len(w) = q /\ \A j \in 1..q : w[j] = Repr(a[j])
  BY DEF Stands
<1> HIDE DEF a, t, n, q, r, u
<1>4. /\ Len(x) = n + (q + r)
      /\ \A j \in 1..n+(q+r) : x[j] = IF j <= n THEN m[j] ELSE Repr(u[j-n])
  BY <1>1, <1>2 DEF Pending, n
<1>5. /\ Len(y) = n + (r + 1)
      /\ \A j \in 1..n+(r+1) : y[j] = IF j <= n THEN m[j] ELSE Repr(v[j-n])
  BY <1>1 DEF Pending, n
<1> HIDE DEF x, y
<1>6. \A j \in 1..n : x[j] = y[j]
  BY <1>1, <1>4, <1>5
<1>7. \A j \in 1..q : x[n+j] = w[j]
  <2> TAKE j \in 1..q
  <2>0. PICK i : i = n + j
    OBVIOUS
  <2>0a. i \in 1..n+(q+r) /\ ~(i <= n) /\ i - n = j
    BY <1>1, <2>0
  <2>0b. x[i] = IF i <= n THEN m[i] ELSE Repr(u[i-n])
    BY <1>4, <2>0a
  <2>1. x[n+j] = Repr(u[j])
    BY <2>0, <2>0a, <2>0b
  <2>2. j \in 1..q+r /\ j <= q
    BY <1>1, <1>3
  <2>3. u[j] = a[j]
    BY <2>2, <1>2
  <2>4. w[j] = Repr(a[j])
    BY <1>3
  <2> QED
    BY <2>1, <2>3, <2>4
<1>8. \A j \in 1..r : x[n+q+j] = y[n+1+j]
  <2> TAKE j \in 1..r
  <2>0. PICK i : i = n + q + j
    OBVIOUS
  <2>0a. i \in 1..n+(q+r) /\ ~(i <= n) /\ i - n = q + j
    BY <1>1, <2>0
  <2>0b. x[i] = IF i <= n THEN m[i] ELSE Repr(u[i-n])
    BY <1>4, <2>0a
  <2>1. x[n+q+j] = Repr(u[q+j])
    BY <2>0, <2>0a, <2>0b
  <2>2. u[q+j] = t[q+j-q] /\ q+j-q = j /\ t[j] = v[j+1]
    BY <1>1, <1>2
  <2>3. y[n+1+j] = Repr(v[n+1+j-n]) /\ n+1+j-n = j+1
    BY <1>1, <1>5
  <2> QED
    BY <2>1, <2>2, <2>3
<1>9. y[n+1] = Repr(Head(v))
  <2>1. n+1 \in 1..n+(r+1) /\ ~(n+1 <= n) /\ n+1-n = 1
    BY <1>1
  <2> DEFINE i == n+1
  <2> HIDE DEF i
  <2>2. i \in 1..n+(r+1) /\ ~(i <= n) /\ i-n = 1
    BY <2>1, <1>1 DEF i
  <2>3. y[i] = Repr(v[i-n])
    BY <2>2, <1>5
  <2> QED
    BY <2>2, <2>3, <1>1 DEF i
<1>10. IsSplice(x, y, n, w)
  BY <1>1, <1>3, <1>4, <1>5, <1>6, <1>7, <1>8 DEF IsSplice
<1> QED
  BY <1>2, <1>9, <1>10 DEF a, t, n, u, x, y

\* A leaf goes to the queue as the token that stood for it.
LEMMA PendingPush ==
    ASSUME NEW S, NEW m \in Seq(S), NEW v \in Seq(Visitable), v # <<>>,
           Head(v).tid \in LeafClasses, Head(v).tok \in S
    PROVE  Pending(Append(m, Head(v).tok), Tail(v)) = Pending(m, v)
<1> DEFINE e == Head(v).tok  t == Tail(v)  n == Len(m)  r == Len(t)
           a == Append(m, e)
<1>1. /\ n \in Nat /\ r \in Nat /\ Len(v) = r + 1
      /\ v[1] = Head(v) /\ \A j \in 1..r : t[j] = v[j+1]
      /\ Repr(v[1]) = e
  BY HeadTailProperties DEF Repr
<1>2. Len(a) = n + 1 /\ a[n+1] = e /\ \A j \in 1..n : a[j] = m[j]
  OBVIOUS
<1> HIDE DEF e, t, n, r, a
<1> SUFFICES ASSUME NEW k \in 1..(n+1)+r
             PROVE  (IF k <= n+1 THEN a[k] ELSE Repr(t[k-(n+1)]))
                      = IF k <= n THEN m[k] ELSE Repr(v[k-n])
  BY <1>1, <1>2 DEF Pending, e, t, n, r, a
<1>3. CASE k <= n
  BY <1>1, <1>2, <1>3
<1>4. CASE k = n + 1
  BY <1>1, <1>2, <1>4
<1>5. CASE k > n + 1
  <2> DEFINE j == k-(n+1)
  <2>1. j \in 1..r /\ k-n = j+1
    BY <1>1, <1>5
  <2> HIDE DEF j
  <2>2. t[j] = v[j+1]
    BY <1>1, <2>1
  <2> QED
    BY <1>1, <1>5, <2>1, <2>2 DEF j
<1> QED
  BY <1>1, <1>3, <1>4, <1>5

\* The queue with what is still to visit is a sequence.
LEMMA PendingIsSequence ==
    ASSUME NEW m \in Seq(Tokens), NEW v \in Seq(Visitable)
    PROVE  Pending(m, v) = [k \in 1..Len(Pending(m, v)) |-> Pending(m, v)[k]]
<1>1. Len(m) + Len(v) \in Nat
  OBVIOUS
<1>2. Len(Pending(m, v)) = Len(m) + Len(v)
  BY <1>1 DEF Pending
<1> QED
  BY <1>1, <1>2 DEF Pending

\* Nothing is left to visit: the queue is what was pushed.
LEMMA PendingDone ==
    ASSUME NEW S, NEW m \in Seq(S)
    PROVE  Pending(m, <<>>) = m
<1>1. m = [k \in 1..Len(m) |-> m[k]] /\ Len(m) \in Nat
  OBVIOUS
<1>2. Pending(m, <<>>) = [k \in 1..Len(m) |-> m[k]]
  <2>1. Len(m) + Len(<<>>) = Len(m)
    BY <1>1
  <2> QED
    BY <1>1, <2>1 DEF Pending
<1> QED
  BY <1>1, <1>2

\* One node is to be visited.
LEMMA PendingBegins ==
    ASSUME NEW h \in Nodes
    PROVE  Matches(Pending(<<>>, <<h>>), NamesVariable(h))
<1> DEFINE w == <<Repr(h)>>
<1>1. Pending(<<>>, <<h>>) = w
  <2>1. Len(<<>>) + Len(<<h>>) = 1
    OBVIOUS
  <2>2. Pending(<<>>, <<h>>) = [k \in 1..1 |-> Repr(h)]
    <3> SUFFICES ASSUME NEW k \in 1..1
                 PROVE  (IF k <= Len(<<>>) THEN <<>>[k] ELSE Repr(<<h>>[k-Len(<<>>)])) = Repr(h)
      BY <2>1 DEF Pending
    <3> QED
      OBVIOUS
  <2> QED
    BY <2>2
<1>2. PICK o \in Opt : TRUE
  BY NodesAssumption
<1>3. Repr(h) \in Num \cup {"#"} /\ (Repr(h) \notin Num <=> NamesVariable(h))
  BY NodeFacts
<1>4. Good(w, Repr(h) \notin Num)
  BY <1>2, <1>3, ShapesGood
<1> HIDE DEF w
<1> QED
  BY <1>1, <1>3, <1>4 DEF Good, Matches

\* A visit keeps the queue as good as it was.
LEMMA MatchesVisit ==
    ASSUME NEW m \in Seq(Tokens), NEW v \in Seq(Visitable), v # <<>>,
           Head(v).tid \notin LeafClasses,
           NEW variable, Matches(Pending(m, v), variable)
    PROVE  /\ Visits(Head(v)) \o Tail(v) \in Seq(Visitable)
           /\ Matches(Pending(m, Visits(Head(v)) \o Tail(v)), variable)
<1> DEFINE h == Head(v)   u == Visits(h) \o Tail(v)
           x == Pending(m, u)   y == Pending(m, v)   n == Len(m)
<1>1. h \in Nodes
  <2>1. h \in Visitable
    BY HeadTailProperties
  <2> QED
    BY <2>1 DEF Visitable, Leaves
<1>2. PICK w : Stands(w, Visits(h)) /\ Good(w, NamesVariable(h))
  BY <1>1, VisitsInfix
<1>3. /\ IsSplice(x, y, n, w) /\ y[n+1] = Repr(h) /\ u \in Seq(Visitable)
  BY <1>1, <1>2, VisitsInfix, PendingSplice
<1>4. /\ Num \cap Opt = {} /\ (Num \cup Opt) \cap {"(", ")"} = {} /\ "#" \notin Tokens
      /\ Repr(h) \in Num \cup {"#"} /\ (Repr(h) \in Num <=> ~NamesVariable(h))
  BY <1>1, NodeFacts, TokenAssumption DEF Tokens
<1>5. Matches(y, variable)
  OBVIOUS
<1> HIDE DEF x, y, n, h, u
<1>6. CASE ~variable
  <2>1. WellFormed(y) /\ y \in Seq(Tokens) /\ n+1 \in 1..Len(y)
    BY <1>5, <1>6, <1>3 DEF Matches, WellFormed, Tokens, IsSplice
  <2>2. y[n+1] \in Tokens
    BY <2>1
  <2>3. Repr(h) \in Num /\ WellFormed(w)
    BY <1>2, <1>3, <1>4, <2>2 DEF Good, Matches
  <2>4. x \in Seq(Tokens)
    <3>1. w \in Seq(Tokens)
      BY <2>3 DEF WellFormed, Tokens
    <3>2. n \in Nat /\ Len(w) \in Nat /\ Len(y) \in Nat /\ Len(x) \in Nat
      BY <1>3, <2>1 DEF IsSplice
    <3>3. \A k \in 1..Len(x) : x[k] \in Tokens
      <4> TAKE k \in 1..Len(x)
      <4>1. CASE k <= n
        <5>1. x[k] = y[k] /\ k \in 1..Len(y)
          BY <1>3, <3>2, <4>1 DEF IsSplice
        <5> QED
          BY <2>1, <5>1
      <4>2. CASE k > n /\ k <= n + Len(w)
        <5> DEFINE j == k-n
        <5>1. k = n + j /\ j \in 1..Len(w)
          BY <3>2, <4>2
        <5> HIDE DEF j
        <5>2. x[k] = w[j]
          BY <1>3, <5>1 DEF IsSplice
        <5> QED
          BY <3>1, <5>1, <5>2
      <4>3. CASE k > n + Len(w)
        <5> DEFINE j == k-n-Len(w)
        <5>1. k = n + Len(w) + j /\ j \in 1..Len(y)-n-1 /\ n+1+j \in 1..Len(y)
          BY <1>3, <3>2, <4>3 DEF IsSplice
        <5> HIDE DEF j
        <5>2. x[k] = y[n+1+j]
          BY <1>3, <5>1 DEF IsSplice
        <5> QED
          BY <2>1, <5>1, <5>2
      <4> QED
        BY <3>2, <4>1, <4>2, <4>3
    <3>4. x = [k \in 1..Len(x) |-> x[k]]
      BY <1>3, PendingIsSequence DEF x, u
    <3> QED
      BY <3>2, <3>3, <3>4
  <2>5. WellFormed(x)
    BY <1>3, <1>4, <2>1, <2>3, <2>4, SpliceWellFormed DEF Tokens
  <2> QED
    BY <1>3, <1>6, <2>5 DEF Matches, x, u, h
<1>7. CASE variable
  <2>1. Balanced(y) /\ Height(y, Len(y)) <= 0
    BY <1>5, <1>7 DEF Matches
  <2>2. y[n+1] \notin {"(", ")"} /\ y[n+1] \notin Opt
    BY <1>3, <1>4, TokenAssumption
  <2>3. Balanced(x)
    BY <1>2, <1>3, <2>1, <2>2, SpliceBalanced DEF Good
  <2>4. /\ Height(x, Len(x)) \in Int /\ Height(y, Len(y)) \in Int
        /\ Height(x, Len(x)) = Height(y, Len(y)) + Height(w, Len(w))
                                 - (IF y[n+1] \in Num THEN 1 ELSE 0)
    BY <1>3, <2>2, SpliceHeight
  <2>5. /\ Height(w, Len(w)) \in Int
        /\ IF NamesVariable(h) THEN Height(w, Len(w)) <= 0 ELSE Height(w, Len(w)) = 1
    BY <1>2 DEF Good, Matches
  <2>6. Height(x, Len(x)) <= 0
    BY <2>1, <2>4, <2>5, <1>3, <1>4
  <2> QED
    BY <1>3, <1>7, <2>3, <2>6 DEF Matches, x, u, h
<1> QED
  BY <1>6, <1>7

-----------------------------------------------------------------------------
\* What a tree becomes, and how the constructor ends, step by step.
QueueInv ==
    /\ pc = "block" => mid_op_stk = <<>>
    /\ pc \in {"block", "traverse"} => token = 1 /\ rpn = 1
    /\ pc = "traverse" =>
          /\ HasStatement
          /\ mid_op_stk \in Seq(Tokens) /\ to_visit \in Seq(Visitable)
          /\ Matches(Pending(mid_op_stk, to_visit), NamesVariable(block.stmt.expr))
    /\ HasStatement /\ pc \notin {"block", "traverse"} =>
          Matches(mid_op_stk, NamesVariable(block.stmt.expr))
    /\ pc \in {"scan", "eval", "val"} => EvalTypeOK /\ EvalInv /\ BalancedInv
    /\ pc # "block" /\ ~HasStatement => pc = "undefined"
    /\ ReturnsConstantsOnly

\* What the folder starts from, and the claims about it, in the next state.
LEMMA FolderBegins == EvalBegins => EvalTypeOK /\ EvalInv /\ BalancedInv
BY EvalTypeInit, EvalInvInit, BalancedInvInit

\* A step of the folder keeps the queue it was given.
LEMMA FoldKeepsQueue ==
    ASSUME EvalNext
    PROVE  UNCHANGED mid_op_stk /\ pc \in {"scan", "eval"}
BY DEF EvalNext, ConvertStep, Convert, Operand, PopOperator, PushOperator, OpenParen,
       PopInParen, CloseParen, IllegalToken, Flush, Return, At, Advance, PopToRPN,
       EvalOperand, EvalOpt, Underflow, EvalEnd, EvalAt

\* Every step keeps the statement, and what the queue of traverseExpr, with the
\* nodes still to visit, is: an infix expression of the tree.
LEMMA QueueStep ==
    ASSUME block \in BlockContents, BlockTypeOK, QueueInv, Next
    PROVE  block' = block /\ QueueInv'
<1>0. block' = block
  BY DEF Next, TakeStatement, PushToken, VisitNode, StartFolding, FoldStep, PushVal, blockVars
<1>1. HasStatement' <=> HasStatement
  BY <1>0 DEF HasStatement
<1>2. CASE TakeStatement
  <2>1. CASE /\ IsStatement(block) /\ to_visit' = <<block.stmt.expr>> /\ pc' = "traverse"
    <3>1. block.stmt.expr \in Nodes
      BY <2>1, NodesAssumption DEF AreNodesOf
    <3>2. /\ mid_op_stk' = <<>> /\ token' = 1 /\ rpn' = 1 /\ HasStatement'
      BY <1>2, <1>1, <2>1 DEF TakeStatement, QueueInv, evalVars, HasStatement
    <3>3. to_visit' \in Seq(Visitable) /\ mid_op_stk' \in Seq(Tokens)
      BY <2>1, <3>1, <3>2 DEF Visitable
    <3>4. Matches(Pending(mid_op_stk', to_visit'), NamesVariable(block.stmt.expr))
      BY <2>1, <3>1, <3>2, PendingBegins
    <3> QED
      BY <1>0, <1>1, <2>1, <3>2, <3>3, <3>4 DEF QueueInv, ReturnsConstantsOnly
  <2>2. CASE ~IsStatement(block) /\ pc' = "undefined"
    BY <1>0, <1>1, <2>2 DEF QueueInv, ReturnsConstantsOnly, HasStatement
  <2> QED
    BY <1>2, <2>1, <2>2 DEF TakeStatement
<1>3. CASE PushToken
  <2> DEFINE h == Head(to_visit)
  <2>1. /\ pc = "traverse" /\ pc' = "traverse" /\ to_visit # <<>> /\ h.tid \in LeafClasses
        /\ mid_op_stk' = Append(mid_op_stk, h.tok) /\ to_visit' = Tail(to_visit)
        /\ token' = 1 /\ rpn' = 1
    BY <1>3 DEF PushToken, evalVars, QueueInv
  <2>2. /\ HasStatement /\ mid_op_stk \in Seq(Tokens) /\ to_visit \in Seq(Visitable)
        /\ Matches(Pending(mid_op_stk, to_visit), NamesVariable(block.stmt.expr))
    BY <2>1 DEF QueueInv
  <2>3. h.tok \in Tokens
    <3>1. h \in Visitable
      BY <2>1, <2>2, HeadTailProperties
    <3> QED
      BY <2>1, <3>1, NodeFacts DEF Visitable, Leaves, Tokens
  <2>4. Pending(mid_op_stk', to_visit') = Pending(mid_op_stk, to_visit)
    BY <2>1, <2>2, <2>3, PendingPush
  <2>5. mid_op_stk' \in Seq(Tokens) /\ to_visit' \in Seq(Visitable)
    BY <2>1, <2>2, <2>3, HeadTailProperties
  <2> QED
    BY <1>0, <1>1, <2>1, <2>2, <2>4, <2>5 DEF QueueInv, ReturnsConstantsOnly
<1>4. CASE VisitNode
  <2> DEFINE h == Head(to_visit)
  <2>1. /\ pc = "traverse" /\ pc' = "traverse" /\ to_visit # <<>> /\ h.tid \notin LeafClasses
        /\ mid_op_stk' = mid_op_stk /\ to_visit' = Visits(h) \o Tail(to_visit)
        /\ token' = 1 /\ rpn' = 1
    BY <1>4 DEF VisitNode, convertVars, evalVars, QueueInv
  <2>2. /\ HasStatement /\ mid_op_stk \in Seq(Tokens) /\ to_visit \in Seq(Visitable)
        /\ Matches(Pending(mid_op_stk, to_visit), NamesVariable(block.stmt.expr))
    BY <2>1 DEF QueueInv
  <2>3. /\ to_visit' \in Seq(Visitable)
        /\ Matches(Pending(mid_op_stk', to_visit'), NamesVariable(block.stmt.expr))
    BY <2>1, <2>2, MatchesVisit
  <2> QED
    BY <1>0, <1>1, <2>1, <2>2, <2>3 DEF QueueInv, ReturnsConstantsOnly
<1>5. CASE StartFolding
  <2>1. /\ pc = "traverse" /\ pc' = "scan" /\ to_visit = <<>>
        /\ mid_op_stk' = mid_op_stk /\ tmp_opt_stk' = <<"#">>
        /\ token' = 1 /\ rpn' = 1 /\ rpn_op_stk' = <<>> /\ opof' = <<>> /\ const_expr' = <<>>
    BY <1>5 DEF StartFolding, evalVars, QueueInv, BlockTypeOK
  <2>2. /\ HasStatement /\ mid_op_stk \in Seq(Tokens)
        /\ Matches(Pending(mid_op_stk, <<>>), NamesVariable(block.stmt.expr))
    BY <2>1 DEF QueueInv
  <2>3. Matches(mid_op_stk, NamesVariable(block.stmt.expr))
    BY <2>2, PendingDone
  <2>4. mid_op_stk \in Seq(Token)
    BY <2>2, TokenAssumption DEF Tokens
  <2>5. EvalBegins'
    BY <2>1, <2>4 DEF EvalBegins, ConvertBegins
  <2>6. EvalTypeOK' /\ EvalInv' /\ BalancedInv'
    BY <2>5, FolderBegins, PTL
  <2> QED
    BY <1>0, <1>1, <2>1, <2>2, <2>3, <2>6 DEF QueueInv, ReturnsConstantsOnly
<1>6. CASE FoldStep
  <2>1. /\ EvalNext /\ mid_op_stk' = mid_op_stk /\ pc \in {"scan", "eval"}
    BY <1>6, FoldKeepsQueue DEF FoldStep
  <2>2. /\ EvalTypeOK /\ EvalInv /\ BalancedInv /\ HasStatement
        /\ Matches(mid_op_stk, NamesVariable(block.stmt.expr))
    BY <2>1 DEF QueueInv
  <2>3. EvalTypeOK' /\ EvalInv' /\ BalancedInv'
    BY <2>1, <2>2, EvalTypeStep, EvalInvStep, BalancedInvStep
  <2>4. pc' \in {"scan", "eval", "val", "abort", "trap", "undefined"}
    BY <2>3 DEF EvalTypeOK
  <2>5. ~NamesVariable(block.stmt.expr) => pc' # "undefined"
    BY <2>1, <2>2, <2>3 DEF EvalInv, NoUnderflow, Matches
  <2> QED
    BY <1>0, <1>1, <2>1, <2>2, <2>3, <2>4, <2>5 DEF QueueInv, ReturnsConstantsOnly
<1>7. CASE PushVal
  <2>1. /\ pc = "val" /\ pc' \in {"done", "undefined"} /\ mid_op_stk' = mid_op_stk
        /\ block.stmt.sub = "Ret" => pc' = "done"
    BY <1>7 DEF PushVal
  <2>2. /\ EvalTypeOK /\ BalancedInv /\ HasStatement
        /\ Matches(mid_op_stk, NamesVariable(block.stmt.expr))
    BY <2>1 DEF QueueInv
  <2>3. ~NamesVariable(block.stmt.expr)
    <3> SUFFICES ASSUME NamesVariable(block.stmt.expr)
                 PROVE  FALSE
      OBVIOUS
    <3>1. Balanced(mid_op_stk) /\ Height(mid_op_stk, Len(mid_op_stk)) <= 0
      BY <2>2 DEF Matches
    <3>2. Height(mid_op_stk, Len(mid_op_stk)) >= 1
      BY <2>1, <2>2, <3>1, BalancedNeverFolds DEF MissingOperandNeverFolds
    <3>3. Height(mid_op_stk, Len(mid_op_stk)) \in Int
      BY <2>2, HeightType DEF EvalTypeOK, QueueTypeOK
    <3> QED
      BY <3>1, <3>2, <3>3
  <2> QED
    BY <1>0, <1>1, <2>1, <2>2, <2>3 DEF QueueInv, ReturnsConstantsOnly
<1> QED
  BY <1>0, <1>2, <1>3, <1>4, <1>5, <1>6, <1>7 DEF Next

\* The inductive invariant: the types, and for every tree what its queue is.
BlockInv == BlockTypeInv /\ block \in BlockContents /\ QueueInv

\* It holds whoever takes the steps, and however far they go.
LEMMA BlockSafetyInvariant == BlockSafety => []BlockInv
<1>1. Init => BlockInv
  <2> SUFFICES ASSUME Init PROVE BlockInv
    OBVIOUS
  <2>1. QueueInv
    BY DEF Init, QueueInv, ReturnsConstantsOnly
  <2> QED
    BY <2>1 DEF Init, BlockInv, BlockTypeInv, BlockTypeOK
<1>2. BlockInv /\ [Next \/ Constructed]_vars => BlockInv'
  <2> SUFFICES ASSUME BlockInv, [Next \/ Constructed]_vars PROVE BlockInv'
    OBVIOUS
  <2>1. CASE Next
    BY <2>1, BlockTypeStep, QueueStep DEF BlockInv, BlockTypeInv
  <2>2. CASE UNCHANGED vars
    <3>1. UNCHANGED <<mid_op_stk, token, tmp_opt_stk, rpn_op_stk, pc, opof, rpn, const_expr,
                      block, to_visit, instructions>>
      BY <2>2 DEF vars, folderVars, convertVars, evalVars, blockVars
    <3>2. BlockTypeInv' /\ block' \in BlockContents
      BY <3>1 DEF BlockInv, BlockTypeInv, BlockTypeOK
    <3>3. EvalTypeOK /\ EvalInv /\ BalancedInv => EvalTypeOK' /\ EvalInv' /\ BalancedInv'
      BY <3>1 DEF EvalTypeOK, QueueTypeOK, EvalInv, OneValueLeft, NoUnderflow, ConvertInv,
                  MarkerAtBottom, OpenParensOnStack, OperandBalance, RPNSoFar,
                  BalancedInv, WeightKept, Waiting, StackKept, StackHasWeight
    <3>4. QueueInv'
      BY <3>1, <3>3 DEF BlockInv, QueueInv, HasStatement, ReturnsConstantsOnly
    <3> QED
      BY <3>2, <3>4 DEF BlockInv
  <2> QED
    BY <2>1, <2>2 DEF Constructed
<1> QED
  BY <1>1, <1>2, PTL DEF BlockSafety

\* The inductive invariant of the constructor, from the casts of its statement
\* over traverseExpr and the folder to __push_val_, for blocks of any size.
THEOREM BlockInvariant == Spec => []BlockInv
BY BlockSafetyInvariant, PTL DEF Spec

\* Whatever the tree looks like, its queue is an infix expression, or one with
\* operands left out where its variables are.
THEOREM BlockQueueIsInfix == Spec => []QueueIsInfix
<1>1. BlockInv => QueueIsInfix
  BY DEF BlockInv, QueueInv, QueueIsInfix, Matches
<1> QED
  BY <1>1, BlockInvariant, PTL

\* A return of constants never reads an empty stack, and a return of anything
\* with a variable in it never gets an instruction.
THEOREM BlockReturnsConstantsOnly == Spec => []ReturnsConstantsOnly
<1>1. BlockInv => ReturnsConstantsOnly
  BY DEF BlockInv, QueueInv
<1> QED
  BY <1>1, BlockInvariant, PTL

-----------------------------------------------------------------------------
(* The nodes by their shape                                                *)

\* k is a node below h.
IsBelow(h, k) == k \in Nodes /\ Levels(k) < Levels(h)

LiteralNode(h) ==
    /\ h.tid = "NUMBER" /\ h.tok \in Num /\ ~NamesVariable(h)
    /\ \A Of : ChainOf(Of, h) = Single(OperandValue(h.tok))

VariableNode(h) ==
    /\ h.tid \notin LeafClasses /\ NamesVariable(h) /\ Visits(h) = <<>>
    /\ \A Of : ChainOf(Of, h) = Single({})

\* A node for a level of the grammar at which nothing is written.
LevelNode(h, k) ==
    /\ h.tid \notin LeafClasses /\ IsBelow(h, k)
    /\ NamesVariable(h) <=> NamesVariable(k)
    /\ h.tid \in OperandClasses => k.tid \in OperandClasses
    /\ Visits(h) = <<k>>
    /\ \A Of : ChainOf(Of, h) = Of[k]

ParenNode(h, k) ==
    /\ h.tid \notin LeafClasses /\ IsBelow(h, k)
    /\ NamesVariable(h) <=> NamesVariable(k)
    /\ Visits(h) = <<Pushed("("), k, Pushed(")")>>
    /\ \A Of : ChainOf(Of, h) = Single(Grouped(Of[k]))

UnaryNode(h, o, k) ==
    /\ h.tid \notin LeafClasses /\ IsBelow(h, k)
    /\ NamesVariable(h) <=> NamesVariable(k)
    /\ k.tid \in OperandClasses
    /\ o.tid \in LeafClasses /\ o.tok \in Opt
    /\ Visits(h) = <<Pushed("("), Pushed("0"), o, k, Pushed(")")>>
    /\ \A Of : ChainOf(Of, h) = Single(ApplyUnary(o.tok, Of[k].operands[1]))

BinaryNode(h, k, o, l) ==
    /\ h.tid \notin LeafClasses /\ IsBelow(h, k) /\ IsBelow(h, l)
    /\ NamesVariable(h) <=> NamesVariable(k) \/ NamesVariable(l)
    /\ h.tid \notin OperandClasses
    /\ o.tid \in LeafClasses /\ o.tok \in Opt
    /\ Visits(h) = <<k, o, l>>
    /\ \A Of : ChainOf(Of, h) = Joined(Of[k], o.tok, Of[l])

\* There are no other nodes.
LEMMA NodeShapes ==
    ASSUME NEW h \in Nodes
    PROVE  \/ LiteralNode(h)
           \/ VariableNode(h)
           \/ \E k : LevelNode(h, k) \/ ParenNode(h, k)
           \/ \E o, k : UnaryNode(h, o, k)
           \/ \E k, o, l : BinaryNode(h, k, o, l)
<1>0. IsExpression(h, Nodes)
  BY NodeFacts
<1>1. \A k \in DOMAIN h.kids : h.kids[k] \in Nodes =>
         /\ IsBelow(h, h.kids[k])
         /\ h.tid \in OperandClasses /\ h.sub # "Expr" => h.kids[k].tid \in OperandClasses
  BY TreesAssumption DEF AreTrees, IsBelow
<1>2. CASE h.tid = "NUMBER" /\ h.tok \in Num /\ ~NamesVariable(h)
  BY <1>2 DEF LiteralNode, ChainOf, TwoOperands, OperandValue
<1>3. CASE h.tid = "PRIMARY_EXPR" /\ h.sub = "LVal" /\ NamesVariable(h)
  BY <1>3 DEF VariableNode, ChainOf, TwoOperands, Visits, LeafClasses
<1>4. CASE /\ <<h.tid, h.sub>> \in OneOperand
           /\ h.kids = <<h.kids[1]>> /\ h.kids[1] \in Nodes
           /\ NamesVariable(h) <=> NamesVariable(h.kids[1])
  <2> DEFINE k == h.kids[1]
  <2>1. IsBelow(h, k) /\ h.tid \notin LeafClasses
        /\ (h.tid \in OperandClasses /\ h.sub # "Expr" => k.tid \in OperandClasses)
    <3>1. 1 \in DOMAIN h.kids
      BY <1>4
    <3>2. h.tid \notin LeafClasses
      BY <1>4 DEF OneOperand, LeafClasses
    <3> QED
      BY <1>1, <1>4, <3>1, <3>2
  <2>2. CASE h.tid = "PRIMARY_EXPR" /\ h.sub = "Expr"
    <3>1. Visits(h) = <<Pushed("(")>> \o h.kids \o <<Pushed(")")>>
      BY <2>2 DEF Visits
    <3>2. \A Of : ChainOf(Of, h) = Single(Grouped(Of[k]))
      BY <2>2 DEF ChainOf, TwoOperands
    <3> DEFINE a == Pushed("(") b == Pushed(")")
    <3>3. Visits(h) = <<a>> \o <<k>> \o <<b>>
      BY <3>1, <1>4
    <3> HIDE DEF a, b, k
    <3>4. <<a>> \o <<k>> \o <<b>> = <<a, k, b>>
      BY ConcatTuples
    <3>5. ParenNode(h, k)
      BY <1>4, <2>1, <3>2, <3>3, <3>4 DEF ParenNode, a, b, k
    <3> QED
      BY <3>5
  <2>3. CASE ~(h.tid = "PRIMARY_EXPR" /\ h.sub = "Expr")
    <3>1. Visits(h) = <<k>>
      BY <2>3, <1>4 DEF Visits, OneOperand
    <3>2. \A Of : ChainOf(Of, h) = Of[k]
      BY <2>3, <1>4 DEF ChainOf, OneOperand, TwoOperands
    <3>3. h.tid \in OperandClasses => h.sub # "Expr"
      BY <2>3, <1>4 DEF OneOperand, OperandClasses
    <3>4. LevelNode(h, k)
      BY <1>4, <2>1, <3>1, <3>2, <3>3 DEF LevelNode
    <3> QED
      BY <3>4
  <2> QED
    BY <2>2, <2>3
<1>5. CASE /\ h.tid = "UNARY_EXPR" /\ h.sub = "Una"
           /\ h.kids = <<h.kids[1], h.kids[2]>> /\ h.kids[2] \in Nodes
           /\ IsOperator(h.kids[1])
           /\ NamesVariable(h) <=> NamesVariable(h.kids[2])
  <2> DEFINE o == h.kids[1] k == h.kids[2]
  <2>1. IsBelow(h, k) /\ k.tid \in OperandClasses /\ h.tid \notin LeafClasses
    <3>1. 2 \in DOMAIN h.kids
      BY <1>5
    <3> QED
      BY <1>1, <1>5, <3>1 DEF OperandClasses, LeafClasses
  <2>2. o.tid \in LeafClasses /\ o.tok \in Opt
    BY <1>5 DEF IsOperator, LeafClasses
  <2>3. Visits(h) = <<Pushed("("), Pushed("0")>> \o h.kids \o <<Pushed(")")>>
    BY <1>5 DEF Visits, UnaryVisits
  <2>4. \A Of : ChainOf(Of, h) = Single(ApplyUnary(o.tok, Of[k].operands[1]))
    BY <1>5 DEF ChainOf, TwoOperands
  <2> DEFINE a == Pushed("(") z == Pushed("0") b == Pushed(")")
  <2>5. Visits(h) = <<a, z>> \o <<o, k>> \o <<b>>
    BY <2>3, <1>5
  <2> HIDE DEF a, b, z, o, k
  <2>6. <<a, z>> \o <<o, k>> \o <<b>> = <<a, z, o, k, b>>
    BY ConcatTuples
  <2>7. UnaryNode(h, o, k)
    BY <1>5, <2>1, <2>2, <2>4, <2>5, <2>6 DEF UnaryNode, a, b, z, k
  <2> QED
    BY <2>7
<1>6. CASE /\ <<h.tid, h.sub>> \in TwoOperands
           /\ h.kids = <<h.kids[1], h.kids[2], h.kids[3]>> /\ {h.kids[1], h.kids[3]} \subseteq Nodes
           /\ IsOperator(h.kids[2])
           /\ NamesVariable(h) <=> NamesVariable(h.kids[1]) \/ NamesVariable(h.kids[3])
  <2> DEFINE k == h.kids[1] o == h.kids[2] l == h.kids[3]
  <2>1. IsBelow(h, k) /\ IsBelow(h, l) /\ h.tid \notin LeafClasses /\ h.tid \notin OperandClasses
    <3>1. 1 \in DOMAIN h.kids /\ 3 \in DOMAIN h.kids
      BY <1>6
    <3>2. h.tid \notin LeafClasses /\ h.tid \notin OperandClasses
      BY <1>6 DEF TwoOperands, LeafClasses, OperandClasses
    <3> QED
      BY <1>1, <1>6, <3>1, <3>2
  <2>2. o.tid \in LeafClasses /\ o.tok \in Opt
    BY <1>6 DEF IsOperator, LeafClasses
  <2>3. Visits(h) = <<k, o, l>>
    BY <1>6 DEF Visits, TwoOperands
  <2>4. \A Of : ChainOf(Of, h) = Joined(Of[k], o.tok, Of[l])
    BY <1>6 DEF ChainOf, TwoOperands
  <2>5. BinaryNode(h, k, o, l)
    BY <1>6, <2>1, <2>2, <2>3, <2>4 DEF BinaryNode
  <2> QED
    BY <2>5
<1>7. CASE /\ <<h.tid, h.sub>> \in Logical
           /\ h.kids = <<h.kids[1], h.kids[2]>> /\ {h.kids[1], h.kids[2]} \subseteq Nodes
           /\ NamesVariable(h) <=> NamesVariable(h.kids[1]) \/ NamesVariable(h.kids[2])
  <2> DEFINE k == h.kids[1] l == h.kids[2]
  <2>1. IsBelow(h, k) /\ IsBelow(h, l) /\ h.tid \notin LeafClasses /\ h.tid \notin OperandClasses
    <3>1. 1 \in DOMAIN h.kids /\ 2 \in DOMAIN h.kids
      BY <1>7
    <3>2. h.tid \notin LeafClasses /\ h.tid \notin OperandClasses
      BY <1>7 DEF Logical, LeafClasses, OperandClasses
    <3> QED
      BY <1>1, <1>7, <3>1, <3>2
  <2>2. PICK t \in {"&&", "||"} :
           Visits(h) = <<k, Pushed(t), l>> /\ \A Of : ChainOf(Of, h) = Joined(Of[k], t, Of[l])
    <3>1. CASE h.tid = "LAND_EXPR" /\ h.sub = "LAnd"
      BY <1>7, <3>1 DEF Visits, ChainOf, TwoOperands
    <3>2. CASE h.tid = "LOR_EXPR" /\ h.sub = "LOr"
      BY <1>7, <3>2 DEF Visits, ChainOf, TwoOperands
    <3> QED
      BY <1>7, <3>1, <3>2 DEF Logical
  <2> DEFINE o == Pushed(t)
  <2>3. o.tid \in LeafClasses /\ o.tok = t /\ t \in Opt
    BY NodesAssumption DEF Pushed, Leaf, LeafClasses
  <2>4. Visits(h) = <<k, o, l>> /\ \A Of : ChainOf(Of, h) = Joined(Of[k], o.tok, Of[l])
    BY <2>2, <2>3
  <2> HIDE DEF o
  <2>5. BinaryNode(h, k, o, l)
    BY <1>7, <2>1, <2>3, <2>4 DEF BinaryNode
  <2> QED
    BY <2>5
<1> QED
  BY <1>0, <1>2, <1>3, <1>4, <1>5, <1>6, <1>7 DEF IsExpression

-----------------------------------------------------------------------------
(* Chains and their outcomes                                               *)

\* Chains whose operands have outcomes.
Chains ==
    {c \in [operands : Seq(SUBSET Outcome), operators : Seq(Opt)] :
        Len(c.operands) = Len(c.operators) + 1}

\* Where the parts of a chain are.
SpanOf(c, i, j) == i \in 1..Len(c.operands) /\ j \in i..Len(c.operands)

\* Parts of a chain have operands from 1 on, and operators between those.
LEMMA SpansOfChain ==
    ASSUME NEW c \in Chains
    PROVE  /\ Len(c.operands) \in Nat /\ Len(c.operands) >= 1
           /\ \A p \in Spans(c) : p = <<p[1], p[2]>> /\ SpanOf(c, p[1], p[2])
           /\ \A i, j : SpanOf(c, i, j) => <<i, j>> \in Spans(c)
           /\ \A k \in 1..Len(c.operands) : c.operands[k] \in SUBSET Outcome
           /\ \A k \in 1..Len(c.operands)-1 : c.operators[k] \in Opt
<1>1. /\ c.operands \in Seq(SUBSET Outcome) /\ c.operators \in Seq(Opt)
      /\ Len(c.operands) = Len(c.operators) + 1
  BY DEF Chains
<1> DEFINE n == Len(c.operands)
<1>2. n \in Nat /\ n >= 1
  BY <1>1
<1>3. \A p \in Spans(c) : p = <<p[1], p[2]>> /\ SpanOf(c, p[1], p[2])
  BY <1>2 DEF Spans, SpanOf
<1>4. \A i, j : SpanOf(c, i, j) => <<i, j>> \in Spans(c)
  BY <1>2 DEF Spans, SpanOf
<1>5. \A k \in 1..n : c.operands[k] \in SUBSET Outcome
  BY <1>1
<1>6. \A k \in 1..n-1 : c.operators[k] \in Opt
  BY <1>1
<1> QED
  BY <1>2, <1>3, <1>4, <1>5, <1>6

\* Between two operands there is a last one of the loosest operators.
LEMMA LastAppliedFacts ==
    ASSUME NEW c \in Chains, NEW i, NEW j, SpanOf(c, i, j), i # j
    PROVE  LET r == LastApplied(c, i, j)
               o == c.operators
           IN  /\ i \in Int /\ j \in Int /\ r \in Int /\ i <= r /\ r < j
               /\ SpanOf(c, i, r) /\ SpanOf(c, r + 1, j)
               /\ o[r] \in Opt
               /\ \A l \in i..r : o[l] \in Opt /\ Prio[o[l]] <= Prio[o[r]]
               /\ \A l \in r+1..j-1 : o[l] \in Opt /\ Prio[o[l]] < Prio[o[r]]
<1> DEFINE o == c.operators
           n == Len(c.operands)
           T == i..j-1
           w == [l \in T |-> Prio[o[l]]]
           best == {k \in T : \A l \in T : Prio[o[l]] <= Prio[o[k]]}
<1>1. n \in Nat /\ i \in 1..n /\ j \in 1..n /\ i < j /\ i \in Int /\ j \in Int
  BY SpansOfChain DEF SpanOf
<1>2. \A l \in T : l \in 1..n-1
  BY <1>1
<1>3. \A l \in T : o[l] \in Opt /\ Prio[o[l]] \in Int /\ w[l] = Prio[o[l]]
  BY <1>2, SpansOfChain, TokenAssumption
<1>4. i \in T /\ j - 1 \in Int
  BY <1>1
<1>5. PICK r : LastBest(T, w, r)
  <2>1. \A a \in T : a \in i..j-1 /\ w[a] \in Int
    BY <1>3
  <2> HIDE DEF w, T
  <2> QED
    BY <1>1, <1>4, <2>1, LastBestExists
<1> HIDE DEF w
<1>6. r \in T /\ \A l \in T : Prio[o[l]] <= Prio[o[r]] /\ (Prio[o[l]] = Prio[o[r]] => l <= r)
  BY <1>3, <1>5 DEF LastBest
<1>7. LastApplied(c, i, j) = r
  <2>1. r \in best /\ \A a \in best : r >= a
    <3>1. \A a \in best : a \in T /\ Prio[o[r]] <= Prio[o[a]]
      BY <1>6
    <3>2. \A a \in best : Prio[o[a]] = Prio[o[r]]
      BY <1>3, <1>6, <3>1
    <3> QED
      BY <1>1, <1>6, <3>1, <3>2
  <2>2. \A x \in best : x \in Int
    BY <1>1
  <2>3. \A x \in best : (\A a \in best : x >= a) => x = r
    BY <2>1, <2>2
  <2>4. LastApplied(c, i, j) = CHOOSE x \in best : \A a \in best : x >= a
    BY DEF LastApplied, Max
  <2> HIDE DEF best
  <2> QED
    BY <2>1, <2>3, <2>4
<1>8. r \in Int /\ i <= r /\ r < j
  BY <1>1, <1>6
<1>9. SpanOf(c, i, r) /\ SpanOf(c, r + 1, j)
  BY <1>1, <1>8 DEF SpanOf
<1>10. \A l \in i..r : l \in T /\ o[l] \in Opt /\ Prio[o[l]] <= Prio[o[r]]
  BY <1>1, <1>3, <1>6, <1>8
<1>11. ASSUME NEW l \in r+1..j-1 PROVE o[l] \in Opt /\ Prio[o[l]] < Prio[o[r]]
  <2>1. l \in T /\ ~(l <= r)
    BY <1>1, <1>8
  <2> QED
    BY <1>3, <1>6, <2>1
<1> QED
  BY <1>1, <1>3, <1>6, <1>7, <1>8, <1>9, <1>10, <1>11

\* The outcomes of all parts of a chain.
Spanned(c) == CHOOSE f : f = [p \in Spans(c) |-> PartMeaning(f, c, p)]

\* Grouped is the value of the recursion at the whole chain.
LEMMA GroupedIsSpanned == \A c : Grouped(c) = Spanned(c)[<<1, Len(c.operands)>>]
BY DEF Grouped, Spanned

\* The recursion of Grouped has a solution.
LEMMA SpannedExists ==
    ASSUME NEW c \in Chains
    PROVE  /\ Spanned(c) \in [Spans(c) -> SUBSET Outcome]
           /\ Spanned(c) = [p \in Spans(c) |-> PartMeaning(Spanned(c), c, p)]
<1> DEFINE N == Spans(c)
           D == SUBSET Outcome
           lev == [p \in N |-> p[2] - p[1]]
           step == [q \in [N -> D] \X N |-> PartMeaning(q[1], c, q[2])]
<1>1. \A p \in N : /\ p = <<p[1], p[2]>> /\ SpanOf(c, p[1], p[2])
                   /\ p[1] \in Int /\ p[2] \in Int /\ p[1] <= p[2]
  BY SpansOfChain DEF SpanOf
<1>2. lev \in [N -> Nat]
  BY <1>1
<1>3. D # {}
  <2>1. {} \in D
    OBVIOUS
  <2> QED
    BY <2>1
<1>4. ASSUME NEW f, NEW p \in N, p[1] # p[2]
      PROVE  LET r == LastApplied(c, p[1], p[2])
             IN  /\ PartMeaning(f, c, p)
                       = Table!Apply(f[<<p[1], r>>], c.operators[r], f[<<r + 1, p[2]>>])
                 /\ c.operators[r] \in Opt
                 /\ <<p[1], r>> \in N /\ <<r + 1, p[2]>> \in N
                 /\ lev[<<p[1], r>>] < lev[p] /\ lev[<<r + 1, p[2]>>] < lev[p]
  <2> DEFINE i == p[1] j == p[2] r == LastApplied(c, i, j)
  <2>1. /\ r \in Int /\ i <= r /\ r < j /\ SpanOf(c, i, r) /\ SpanOf(c, r + 1, j)
        /\ c.operators[r] \in Opt /\ i \in Int /\ j \in Int
    BY <1>1, <1>4, LastAppliedFacts
  <2>2. <<i, r>> \in N /\ <<r + 1, j>> \in N
    BY <2>1, SpansOfChain
  <2>3. PartMeaning(f, c, p) = Table!Apply(f[<<i, r>>], c.operators[r], f[<<r + 1, j>>])
    BY <1>4 DEF PartMeaning
  <2> HIDE DEF r
  <2>4. lev[<<i, r>>] = r - i /\ lev[<<r + 1, j>>] = j - (r + 1) /\ lev[p] = j - i
    BY <2>2
  <2> QED
    BY <2>1, <2>2, <2>3, <2>4 DEF r
<1>5. ASSUME NEW f, NEW p \in N, p[1] = p[2]
      PROVE  PartMeaning(f, c, p) = c.operands[p[1]]
  BY <1>5 DEF PartMeaning
<1>6. ASSUME NEW f, NEW p \in N, \A k \in N : lev[k] < lev[p] => f[k] \in D
      PROVE  PartMeaning(f, c, p) \in D
  <2>1. CASE p[1] = p[2]
    BY <1>1, <1>5, <2>1, SpansOfChain DEF SpanOf
  <2>2. CASE p[1] # p[2]
    <3> DEFINE r == LastApplied(c, p[1], p[2])
    <3>1. /\ PartMeaning(f, c, p) = Table!Apply(f[<<p[1], r>>], c.operators[r], f[<<r + 1, p[2]>>])
          /\ c.operators[r] \in Opt
          /\ <<p[1], r>> \in N /\ <<r + 1, p[2]>> \in N
          /\ lev[<<p[1], r>>] < lev[p] /\ lev[<<r + 1, p[2]>>] < lev[p]
      BY <1>4, <2>2
    <3> HIDE DEF r, N, lev
    <3>2. f[<<p[1], r>>] \in D /\ f[<<r + 1, p[2]>>] \in D
      BY <1>6, <3>1
    <3> QED
      BY <3>1, <3>2, ApplyType
  <2> QED
    BY <2>1, <2>2
<1>7. step \in [[N -> D] \X N -> D]
  <2> HIDE DEF N, D, lev
  <2>1. \A f \in [N -> D], p \in N : PartMeaning(f, c, p) \in D
    BY <1>6
  <2> QED
    BY <2>1
<1>8. \A f \in [N -> D], p \in N : step[<<f, p>>] = PartMeaning(f, c, p)
  <2> HIDE DEF N, D
  <2> QED
    OBVIOUS
<1> HIDE DEF step, lev
<1>9. ASSUME NEW f \in [N -> D], NEW g \in [N -> D], NEW p \in N,
             \A k \in N : lev[k] < lev[p] => f[k] = g[k]
      PROVE  step[<<f, p>>] = step[<<g, p>>]
  <2>1. CASE p[1] = p[2]
    BY <1>5, <1>8, <2>1
  <2>2. CASE p[1] # p[2]
    <3> DEFINE r == LastApplied(c, p[1], p[2])
    <3>1. /\ <<p[1], r>> \in N /\ <<r + 1, p[2]>> \in N
          /\ lev[<<p[1], r>>] < lev[p] /\ lev[<<r + 1, p[2]>>] < lev[p]
          /\ PartMeaning(f, c, p) = Table!Apply(f[<<p[1], r>>], c.operators[r], f[<<r + 1, p[2]>>])
          /\ PartMeaning(g, c, p) = Table!Apply(g[<<p[1], r>>], c.operators[r], g[<<r + 1, p[2]>>])
      BY <1>4, <2>2
    <3> HIDE DEF r, N
    <3>2. f[<<p[1], r>>] = g[<<p[1], r>>] /\ f[<<r + 1, p[2]>>] = g[<<r + 1, p[2]>>]
      BY <1>9, <3>1
    <3> QED
      BY <1>8, <3>1, <3>2
  <2> QED
    BY <2>1, <2>2
<1> HIDE DEF N, D
<1>10. IsRecursion(N, lev, D, step)
  BY <1>2, <1>3, <1>7, <1>9 DEF IsRecursion
<1>11. PICK f : IsSolution(f, N, D, step)
  BY <1>10, RecursionExists
<1>12. f = [p \in N |-> PartMeaning(f, c, p)]
  <2>1. f \in [N -> D] /\ \A p \in N : f[p] = step[<<f, p>>]
    BY <1>11 DEF IsSolution
  <2> QED
    BY <1>8, <2>1
<1>13. Spanned(c) = [p \in N |-> PartMeaning(Spanned(c), c, p)]
  BY <1>12 DEF Spanned, N
<1> DEFINE h == Spanned(c)
<1> HIDE DEF h
<1>14. h = [p \in N |-> PartMeaning(h, c, p)]
  BY <1>13 DEF h
<1>15. N \subseteq {p \in N : h[p] \in D}
  <2> DEFINE P == {p \in N : h[p] \in D}
  <2>1. \A p \in N : (\A k \in N : lev[k] < lev[p] => k \in P) => p \in P
    BY <1>6, <1>14
  <2>2. \A p \in N : lev[p] \in Nat
    BY <1>2
  <2> HIDE DEF P
  <2>3. N \subseteq P
    BY <2>1, <2>2, LevelInduction
  <2> QED
    BY <2>3 DEF P
<1> QED
  BY <1>13, <1>14, <1>15 DEF h, N, D

\* A chain has outcomes.
LEMMA GroupedType ==
    ASSUME NEW c \in Chains
    PROVE  Grouped(c) \in SUBSET Outcome
<1>1. <<1, Len(c.operands)>> \in Spans(c)
  <2>1. SpanOf(c, 1, Len(c.operands))
    BY SpansOfChain DEF SpanOf
  <2> QED
    BY <2>1, SpansOfChain
<1> QED
  BY <1>1, SpannedExists, GroupedIsSpanned

\* A chain of one operand.
LEMMA SingleChain ==
    ASSUME NEW V \in SUBSET Outcome
    PROVE  /\ Single(V) \in Chains
           /\ Len(Single(V).operands) = 1 /\ Single(V).operands[1] = V
<1> DEFINE A == SUBSET Outcome
<1> HIDE DEF A
<1>1. V \in A
  BY DEF A
<1>2. <<V>> \in Seq(A) /\ Len(<<V>>) = 1 /\ <<V>>[1] = V
  BY <1>1
<1>3. <<>> \in Seq(Opt) /\ Len(<<>>) = 0
  OBVIOUS
<1> DEFINE s == <<V>>
           e == <<>>
<1>4. Single(V) = [operands |-> s, operators |-> e]
  BY DEF Single
<1>5. s \in Seq(A) /\ Len(s) = 1 /\ s[1] = V /\ e \in Seq(Opt) /\ Len(e) = 0
  BY <1>2, <1>3
<1> HIDE DEF s, e
<1>6. Single(V) \in Chains
  BY <1>4, <1>5 DEF Chains, A
<1> QED
  BY <1>4, <1>5, <1>6

\* c has the operands of a, then those of b, and o between them.
IsJoined(c, a, o, b) ==
    LET n == Len(a.operands)
        p == Len(b.operands)
    IN  /\ n \in Nat /\ n >= 1 /\ p \in Nat /\ p >= 1 /\ Len(c.operands) = n + p
        /\ \A k \in 1..n : c.operands[k] = a.operands[k]
        /\ \A k \in 1..p : c.operands[n + k] = b.operands[k]
        /\ \A k \in 1..n-1 : c.operators[k] = a.operators[k]
        /\ c.operators[n] = o
        /\ \A k \in 1..p-1 : c.operators[n + k] = b.operators[k]

\* Two chains with an operator between them.
LEMMA JoinedChain ==
    ASSUME NEW a \in Chains, NEW b \in Chains, NEW o \in Opt
    PROVE  Joined(a, o, b) \in Chains /\ IsJoined(Joined(a, o, b), a, o, b)
<1> DEFINE A == SUBSET Outcome
           x == a.operands
           y == b.operands
           u == a.operators
           v == b.operators
           z == x \o y
           w == u \o <<o>> \o v
<1> HIDE DEF A
<1>1. /\ x \in Seq(A) /\ y \in Seq(A) /\ u \in Seq(Opt) /\ v \in Seq(Opt)
      /\ Len(x) = Len(u) + 1 /\ Len(y) = Len(v) + 1
  BY DEF Chains, A
<1> HIDE DEF x, y, u, v
<1>2. /\ z \in Seq(A) /\ Len(z) = Len(x) + Len(y)
      /\ \A k \in 1..Len(x) : z[k] = x[k]
      /\ \A k \in 1..Len(y) : z[Len(x) + k] = y[k]
  BY <1>1
<1>3. /\ w \in Seq(Opt) /\ Len(w) = Len(u) + 1 + Len(v)
      /\ \A k \in 1..Len(u) : w[k] = u[k]
      /\ w[Len(u) + 1] = o
      /\ \A k \in 1..Len(v) : w[Len(u) + 1 + k] = v[k]
  <2> DEFINE t == u \o <<o>>
  <2>1. /\ t \in Seq(Opt) /\ Len(t) = Len(u) + 1 /\ t[Len(u) + 1] = o
        /\ \A k \in 1..Len(u) : t[k] = u[k]
    BY <1>1
  <2> HIDE DEF t
  <2>2. /\ t \o v \in Seq(Opt) /\ Len(t \o v) = Len(t) + Len(v)
        /\ \A k \in 1..Len(t) : (t \o v)[k] = t[k]
        /\ \A k \in 1..Len(v) : (t \o v)[Len(t) + k] = v[k]
    <3>1. t \in Seq(Opt) /\ v \in Seq(Opt)
      BY <1>1, <2>1
    <3> QED
      BY <3>1
  <2>3. Len(u) \in Nat /\ Len(v) \in Nat
    BY <1>1
  <2>4. w = t \o v
    BY DEF t
  <2> HIDE DEF w
  <2> QED
    BY <2>1, <2>2, <2>3, <2>4
<1>4. /\ Len(x) \in Nat /\ Len(y) \in Nat /\ Len(u) \in Nat /\ Len(v) \in Nat
      /\ Len(u) = Len(x) - 1 /\ Len(v) = Len(y) - 1
  BY <1>1
<1>5. Joined(a, o, b).operands = z /\ Joined(a, o, b).operators = w
  BY DEF Joined, x, y, u, v
<1> HIDE DEF z, w
<1>6. Joined(a, o, b) = [operands |-> z, operators |-> w]
  BY DEF Joined, x, y, u, v, z, w
<1>7. Joined(a, o, b) \in Chains
  BY <1>2, <1>3, <1>4, <1>6 DEF Chains, A
<1>8. /\ Len(x) + Len(y) \in Nat /\ Len(u) + 1 = Len(x)
      /\ \A k \in 1..Len(y)-1 : k \in 1..Len(v)
      /\ \A k \in 1..Len(x)-1 : k \in 1..Len(u)
  BY <1>4
<1>9. /\ Len(x) >= 1 /\ Len(y) >= 1 /\ w[Len(x)] = o
      /\ \A k \in 1..Len(x)-1 : w[k] = u[k]
      /\ \A k \in 1..Len(y)-1 : w[Len(x) + k] = v[k]
  <2>1. Len(x) >= 1 /\ Len(y) >= 1 /\ w[Len(x)] = o
    BY <1>3, <1>4, <1>8
  <2>2. \A k \in 1..Len(x)-1 : w[k] = u[k]
    BY <1>3, <1>8
  <2>3. ASSUME NEW k \in 1..Len(y)-1 PROVE w[Len(x) + k] = v[k]
    <3>1. k \in 1..Len(v) /\ Len(u) + 1 = Len(x)
      BY <1>8
    <3>2. w[Len(u) + 1 + k] = v[k]
      BY <1>3, <3>1
    <3> QED
      BY <3>1, <3>2
  <2> QED
    BY <2>1, <2>2, <2>3
<1>10. /\ Len(Joined(a, o, b).operands) = Len(x) + Len(y)
       /\ \A k \in 1..Len(x) : Joined(a, o, b).operands[k] = x[k]
       /\ \A k \in 1..Len(y) : Joined(a, o, b).operands[Len(x) + k] = y[k]
  BY <1>2, <1>5
<1> QED
  BY <1>4, <1>5, <1>7, <1>9, <1>10 DEF IsJoined, x, y, u, v

\* A unary operator is a binary one whose left operand is 0.
LEMMA UnaryIsBinary ==
    ASSUME NEW o \in Opt, NEW V \in SUBSET Outcome
    PROVE  /\ ApplyUnary(o, V) = Table!Apply(OperandValue("0"), o, V)
           /\ ApplyUnary(o, V) \in SUBSET Outcome
<1> DEFINE Z == {<<"val", 0>>}
<1>1. OperandValue("0") = Z
  BY TreesAssumption DEF OperandValue
<1>2. Table!Apply(Z, "!", V) = Table!Apply(Z, "==", V)
  <2>1. \A r \in V : r[1] = "val" => r[2] \in I32
    BY DEF Outcome
  <2>2. \A r \in V : r[1] = "val" => OptOutcomes(0, "!", r[2]) = OptOutcomes(0, "==", r[2])
    BY <2>1, TreesAssumption
  <2>3. \A l \in Z : l[1] = "val" /\ l[2] = 0
    OBVIOUS
  <2> HIDE DEF Z
  <2> QED
    BY <2>2, <2>3 DEF Table!Apply
<1>3. ApplyUnary(o, V) = Table!Apply(Z, o, V)
  BY <1>2 DEF ApplyUnary
<1>4. Z \in SUBSET Outcome
  BY OutcomesAssumption DEF Outcome
<1>5. Table!Apply(Z, o, V) \in SUBSET Outcome
  BY <1>4, ApplyType
<1> QED
  BY <1>1, <1>3, <1>5

\* The chain of a node is one if those of the nodes below it are.
LEMMA ChainOfType ==
    ASSUME NEW f, NEW h \in Nodes, \A k : IsBelow(h, k) => f[k] \in Chains
    PROVE  ChainOf(f, h) \in Chains
<1>1. CASE LiteralNode(h)
  BY <1>1, OperandValueType, SingleChain DEF LiteralNode
<1>2. CASE VariableNode(h)
  <2>1. {} \in SUBSET Outcome
    OBVIOUS
  <2> QED
    BY <1>2, <2>1, SingleChain DEF VariableNode
<1>3. ASSUME NEW k, LevelNode(h, k) PROVE ChainOf(f, h) \in Chains
  BY <1>3 DEF LevelNode
<1>4. ASSUME NEW k, ParenNode(h, k) PROVE ChainOf(f, h) \in Chains
  <2>1. f[k] \in Chains /\ ChainOf(f, h) = Single(Grouped(f[k]))
    BY <1>4 DEF ParenNode
  <2> QED
    BY <2>1, GroupedType, SingleChain
<1>5. ASSUME NEW o, NEW k, UnaryNode(h, o, k) PROVE ChainOf(f, h) \in Chains
  <2>1. /\ f[k] \in Chains /\ o.tok \in Opt
        /\ ChainOf(f, h) = Single(ApplyUnary(o.tok, f[k].operands[1]))
    BY <1>5 DEF UnaryNode
  <2>2. f[k].operands[1] \in SUBSET Outcome
    <3>1. 1 \in 1..Len(f[k].operands)
      BY <2>1, SpansOfChain
    <3> QED
      BY <2>1, <3>1, SpansOfChain
  <2> QED
    BY <2>1, <2>2, UnaryIsBinary, SingleChain
<1>6. ASSUME NEW k, NEW o, NEW l, BinaryNode(h, k, o, l) PROVE ChainOf(f, h) \in Chains
  <2>1. /\ f[k] \in Chains /\ f[l] \in Chains /\ o.tok \in Opt
        /\ ChainOf(f, h) = Joined(f[k], o.tok, f[l])
    BY <1>6 DEF BinaryNode
  <2> QED
    BY <2>1, JoinedChain
<1> QED
  BY <1>1, <1>2, <1>3, <1>4, <1>5, <1>6, NodeShapes

\* It depends on those only.
LEMMA ChainOfLocal ==
    ASSUME NEW f, NEW g, NEW h \in Nodes, \A k : IsBelow(h, k) => f[k] = g[k]
    PROVE  ChainOf(f, h) = ChainOf(g, h)
<1>1. CASE LiteralNode(h)
  BY <1>1 DEF LiteralNode
<1>2. CASE VariableNode(h)
  BY <1>2 DEF VariableNode
<1>3. ASSUME NEW k, LevelNode(h, k) PROVE ChainOf(f, h) = ChainOf(g, h)
  BY <1>3 DEF LevelNode
<1>4. ASSUME NEW k, ParenNode(h, k) PROVE ChainOf(f, h) = ChainOf(g, h)
  <2>1. f[k] = g[k] /\ \A Of : ChainOf(Of, h) = Single(Grouped(Of[k]))
    BY <1>4 DEF ParenNode
  <2> QED
    BY <2>1
<1>5. ASSUME NEW o, NEW k, UnaryNode(h, o, k) PROVE ChainOf(f, h) = ChainOf(g, h)
  <2>1. f[k] = g[k] /\ \A Of : ChainOf(Of, h) = Single(ApplyUnary(o.tok, Of[k].operands[1]))
    BY <1>5 DEF UnaryNode
  <2> QED
    BY <2>1
<1>6. ASSUME NEW k, NEW o, NEW l, BinaryNode(h, k, o, l) PROVE ChainOf(f, h) = ChainOf(g, h)
  <2>1. f[k] = g[k] /\ f[l] = g[l] /\ \A Of : ChainOf(Of, h) = Joined(Of[k], o.tok, Of[l])
    BY <1>6 DEF BinaryNode
  <2> QED
    BY <2>1
<1> QED
  BY <1>1, <1>2, <1>3, <1>4, <1>5, <1>6, NodeShapes

\* The recursion of Chain has a solution, and the chain of an operand is that
\* operand.
LEMMA ChainExists ==
    /\ \A h \in Nodes : Chain[h] \in Chains /\ Chain[h] = ChainOf(Chain, h)
    /\ \A h \in Nodes : h.tid \in OperandClasses => Len(Chain[h].operands) = 1
<1> DEFINE N == Nodes
           D == Chains
           lev == [h \in N |-> Levels(h)]
           step == [q \in [N -> D] \X N |-> ChainOf(q[1], q[2])]
<1>1. lev \in [N -> Nat]
  BY TreesAssumption DEF AreTrees
<1>2. D # {}
  <2>1. {} \in SUBSET Outcome
    OBVIOUS
  <2> QED
    BY <2>1, SingleChain
<1>3. \A h, k : IsBelow(h, k) /\ h \in N => k \in N /\ lev[k] < lev[h]
  BY DEF IsBelow
<1>4. \A f \in [N -> D], h \in N : ChainOf(f, h) \in D
  <2>1. ASSUME NEW f \in [N -> D], NEW h \in N PROVE ChainOf(f, h) \in D
    <3>1. \A k : IsBelow(h, k) => f[k] \in Chains
      BY <1>3
    <3> QED
      BY <3>1, ChainOfType
  <2> QED
    BY <2>1
<1>5. step \in [[N -> D] \X N -> D]
  <2> HIDE DEF D
  <2> QED
    BY <1>4
<1>6. \A f \in [N -> D], h \in N : step[<<f, h>>] = ChainOf(f, h)
  <2> HIDE DEF N, D
  <2> QED
    OBVIOUS
<1> HIDE DEF step
<1>7. ASSUME NEW f \in [N -> D], NEW g \in [N -> D], NEW h \in N,
             \A k \in N : lev[k] < lev[h] => f[k] = g[k]
      PROVE  step[<<f, h>>] = step[<<g, h>>]
  <2>1. \A k : IsBelow(h, k) => f[k] = g[k]
    BY <1>3, <1>7
  <2>2. ChainOf(f, h) = ChainOf(g, h)
    BY <2>1, ChainOfLocal
  <2> QED
    BY <1>6, <2>2
<1> HIDE DEF lev, N, D
<1>8. IsRecursion(N, lev, D, step)
  BY <1>1, <1>2, <1>5, <1>7 DEF IsRecursion
<1>9. PICK f : IsSolution(f, N, D, step)
  BY <1>8, RecursionExists
<1>10. f = [h \in N |-> ChainOf(f, h)]
  <2>1. f \in [N -> D] /\ \A h \in N : f[h] = step[<<f, h>>]
    BY <1>9 DEF IsSolution
  <2> QED
    BY <1>6, <2>1
<1>11. Chain = [h \in N |-> ChainOf(Chain, h)]
  BY <1>10 DEF Chain, N
<1> DEFINE P == {h \in N : Chain[h] \in D}
<1>12. \A h \in N : (\A k \in N : lev[k] < lev[h] => k \in P) => h \in P
  <2> SUFFICES ASSUME NEW h \in N, \A k \in N : lev[k] < lev[h] => k \in P
               PROVE  h \in P
    OBVIOUS
  <2>1. \A k : IsBelow(h, k) => Chain[k] \in Chains
    BY <1>3 DEF D
  <2>2. ChainOf(Chain, h) \in Chains
    BY <2>1, ChainOfType DEF N
  <2>3. Chain[h] = ChainOf(Chain, h)
    BY <1>11
  <2> QED
    BY <2>2, <2>3 DEF D
<1>13. \A h \in N : lev[h] \in Nat
  BY <1>1
<1> HIDE DEF P
<1>14. N \subseteq P
  BY <1>12, <1>13, LevelInduction
<1>15. \A h \in Nodes : Chain[h] \in Chains /\ Chain[h] = ChainOf(Chain, h)
  <2>1. \A h \in N : Chain[h] \in D
    BY <1>14 DEF P
  <2>2. \A h \in N : Chain[h] = ChainOf(Chain, h)
    BY <1>11
  <2> QED
    BY <2>1, <2>2 DEF N, D
<1> DEFINE Q == {h \in N : h.tid \in OperandClasses => Len(Chain[h].operands) = 1}
<1>16. \A h \in N : (\A k \in N : lev[k] < lev[h] => k \in Q) => h \in Q
  <2> SUFFICES ASSUME NEW h \in N, \A k \in N : lev[k] < lev[h] => k \in Q,
                      h.tid \in OperandClasses
               PROVE  Len(Chain[h].operands) = 1
    OBVIOUS
  <2>0. h \in Nodes /\ Chain[h] = ChainOf(Chain, h)
    BY <1>15 DEF N
  <2>1. CASE LiteralNode(h)
    BY <2>0, <2>1, OperandValueType, SingleChain DEF LiteralNode
  <2>2. CASE VariableNode(h)
    <3>1. {} \in SUBSET Outcome
      OBVIOUS
    <3> QED
      BY <2>0, <2>2, <3>1, SingleChain DEF VariableNode
  <2>3. ASSUME NEW k, LevelNode(h, k) PROVE Len(Chain[h].operands) = 1
    <3>1. IsBelow(h, k) /\ k.tid \in OperandClasses /\ Chain[h] = Chain[k]
      BY <2>0, <2>3 DEF LevelNode
    <3> QED
      BY <1>3, <3>1
  <2>4. ASSUME NEW k, ParenNode(h, k) PROVE Len(Chain[h].operands) = 1
    <3>1. IsBelow(h, k) /\ Chain[h] = Single(Grouped(Chain[k]))
      BY <2>0, <2>4 DEF ParenNode
    <3>2. Grouped(Chain[k]) \in SUBSET Outcome
      BY <1>15, <3>1, GroupedType DEF IsBelow
    <3> QED
      BY <3>1, <3>2, SingleChain
  <2>5. ASSUME NEW o, NEW k, UnaryNode(h, o, k) PROVE Len(Chain[h].operands) = 1
    <3>1. /\ IsBelow(h, k) /\ o.tok \in Opt
          /\ Chain[h] = Single(ApplyUnary(o.tok, Chain[k].operands[1]))
      BY <2>0, <2>5 DEF UnaryNode
    <3>2. Chain[k] \in Chains
      BY <1>15, <3>1 DEF IsBelow
    <3>3. 1 \in 1..Len(Chain[k].operands)
      BY <3>2, SpansOfChain
    <3>4. Chain[k].operands[1] \in SUBSET Outcome
      BY <3>2, <3>3, SpansOfChain
    <3> QED
      BY <3>1, <3>4, UnaryIsBinary, SingleChain
  <2>6. ASSUME NEW k, NEW o, NEW l, BinaryNode(h, k, o, l) PROVE Len(Chain[h].operands) = 1
    BY <2>6 DEF BinaryNode
  <2> QED
    BY <2>0, <2>1, <2>2, <2>3, <2>4, <2>5, <2>6, NodeShapes
<1> HIDE DEF Q
<1>17. N \subseteq Q
  BY <1>13, <1>16, LevelInduction
<1> QED
  BY <1>15, <1>17 DEF Q, N

-----------------------------------------------------------------------------
(* The tokens of a tree                                                    *)

\* The tokens that x adds to the queue, from those of the nodes below.
Text(Of, x) == IF x.tid \in LeafClasses THEN <<x.tok>> ELSE Of[x]

\* What the traversal of the tree h pushes: the tokens of what h visits, one
\* after the other.
SpellingOf(Of, h) ==
    LET v == Visits(h)
        T(k) == Text(Of, v[k])
    IN  IF h.tid \in LeafClasses THEN <<h.tok>>
        ELSE IF Len(v) = 1 THEN T(1)
        ELSE IF Len(v) = 3 THEN T(1) \o (T(2) \o T(3))
        ELSE IF Len(v) = 5 THEN T(1) \o (T(2) \o (T(3) \o (T(4) \o T(5))))
        ELSE <<>>

Spelling[h \in Nodes] == SpellingOf(Spelling, h)

\* The spelling of a node by its shape.
LEMMA SpellingShapes ==
    ASSUME NEW f, NEW h
    PROVE  /\ LiteralNode(h) => SpellingOf(f, h) = <<h.tok>>
           /\ VariableNode(h) => SpellingOf(f, h) = <<>>
           /\ \A k : LevelNode(h, k) => SpellingOf(f, h) = Text(f, k)
           /\ \A k : ParenNode(h, k) =>
                 SpellingOf(f, h) = <<"(">> \o (Text(f, k) \o <<")">>)
           /\ \A o, k : UnaryNode(h, o, k) =>
                 SpellingOf(f, h) = <<"(">> \o (<<"0">> \o (<<o.tok>> \o (Text(f, k) \o <<")">>)))
           /\ \A k, o, l : BinaryNode(h, k, o, l) =>
                 SpellingOf(f, h) = Text(f, k) \o (<<o.tok>> \o Text(f, l))
<1>1. \A t : Text(f, Pushed(t)) = <<t>>
  BY DEF Text, Pushed, Leaf, LeafClasses
<1>8. h.tid \notin LeafClasses /\ Len(Visits(h)) = 3 =>
         SpellingOf(f, h) = Text(f, Visits(h)[1]) \o (Text(f, Visits(h)[2]) \o Text(f, Visits(h)[3]))
  BY DEF SpellingOf
<1>9. h.tid \notin LeafClasses /\ Len(Visits(h)) = 5 =>
         SpellingOf(f, h) =
            Text(f, Visits(h)[1]) \o (Text(f, Visits(h)[2]) \o (Text(f, Visits(h)[3])
               \o (Text(f, Visits(h)[4]) \o Text(f, Visits(h)[5]))))
  <2>1. Len(Visits(h)) = 5 => Len(Visits(h)) # 1 /\ Len(Visits(h)) # 3
    OBVIOUS
  <2> QED
    BY <2>1, Zenon DEF SpellingOf
<1>2. LiteralNode(h) => SpellingOf(f, h) = <<h.tok>>
  BY DEF LiteralNode, SpellingOf, LeafClasses
<1>3. ASSUME VariableNode(h) PROVE SpellingOf(f, h) = <<>>
  <2>1. Visits(h) = <<>> /\ h.tid \notin LeafClasses /\ Len(<<>>) = 0
    BY <1>3 DEF VariableNode
  <2> QED
    BY <2>1 DEF SpellingOf
<1>4. ASSUME NEW k, LevelNode(h, k) PROVE SpellingOf(f, h) = Text(f, k)
  <2> DEFINE v == <<k>>
  <2>1. Visits(h) = v /\ h.tid \notin LeafClasses /\ Len(v) = 1 /\ v[1] = k
    BY <1>4 DEF LevelNode
  <2> HIDE DEF v
  <2> QED
    BY <2>1 DEF SpellingOf
<1>5. ASSUME NEW k, ParenNode(h, k)
      PROVE  SpellingOf(f, h) = <<"(">> \o (Text(f, k) \o <<")">>)
  <2> DEFINE v == <<Pushed("("), k, Pushed(")")>>
  <2>1. /\ Visits(h) = v /\ h.tid \notin LeafClasses /\ Len(v) = 3
        /\ v[1] = Pushed("(") /\ v[2] = k /\ v[3] = Pushed(")")
    BY <1>5 DEF ParenNode
  <2> HIDE DEF v
  <2> QED
    BY <1>1, <1>8, <2>1
<1>6. ASSUME NEW o, NEW k, UnaryNode(h, o, k)
      PROVE  SpellingOf(f, h) = <<"(">> \o (<<"0">> \o (<<o.tok>> \o (Text(f, k) \o <<")">>)))
  <2> DEFINE v == <<Pushed("("), Pushed("0"), o, k, Pushed(")")>>
  <2>1. /\ Visits(h) = v /\ h.tid \notin LeafClasses /\ Len(v) = 5
        /\ v[1] = Pushed("(") /\ v[2] = Pushed("0") /\ v[3] = o /\ v[4] = k /\ v[5] = Pushed(")")
    BY <1>6 DEF UnaryNode
  <2>2. Text(f, o) = <<o.tok>>
    BY <1>6 DEF UnaryNode, Text
  <2> HIDE DEF v
  <2> QED
    BY <1>1, <1>9, <2>1, <2>2
<1>7. ASSUME NEW k, NEW o, NEW l, BinaryNode(h, k, o, l)
      PROVE  SpellingOf(f, h) = Text(f, k) \o (<<o.tok>> \o Text(f, l))
  <2> DEFINE v == <<k, o, l>>
  <2>1. /\ Visits(h) = v /\ h.tid \notin LeafClasses /\ Len(v) = 3
        /\ v[1] = k /\ v[2] = o /\ v[3] = l
    BY <1>7 DEF BinaryNode
  <2>2. Text(f, o) = <<o.tok>>
    BY <1>7 DEF BinaryNode, Text
  <2> HIDE DEF v
  <2> QED
    BY <2>1, <2>2 DEF SpellingOf
<1> QED
  BY <1>2, <1>3, <1>4, <1>5, <1>6, <1>7

\* The tokens of a node below h, given those of the nodes there.
LEMMA TextBelow ==
    ASSUME NEW f, NEW k \in Nodes, f[k] \in Seq(Tokens)
    PROVE  Text(f, k) \in Seq(Tokens)
<1>1. k.tid \in LeafClasses => k.tok \in Tokens
  BY NodeFacts DEF Tokens
<1> QED
  BY <1>1 DEF Text

\* The spelling of a node is made of tokens if those of the nodes below it are,
\* and depends on those only.
LEMMA SpellingOfType ==
    ASSUME NEW f, NEW h \in Nodes, \A k : IsBelow(h, k) => f[k] \in Seq(Tokens)
    PROVE  SpellingOf(f, h) \in Seq(Tokens)
<1> DEFINE s == SpellingOf(f, h)
           A == Seq(Tokens)
<1>1. "(" \in Tokens /\ ")" \in Tokens /\ "0" \in Tokens /\ Num \cup Opt \subseteq Tokens
  BY NodesAssumption DEF Tokens
<1>2. \A t \in Tokens : <<t>> \in A
  OBVIOUS
<1>3. \A a \in A, b \in A : a \o b \in A
  OBVIOUS
<1>4. \A k : IsBelow(h, k) => Text(f, k) \in A
  BY TextBelow DEF IsBelow
<1> HIDE DEF A, s
<1>5. CASE LiteralNode(h)
  <2>1. h.tok \in Tokens /\ s = <<h.tok>>
    BY <1>1, <1>5, SpellingShapes DEF LiteralNode, s
  <2> QED
    BY <1>2, <2>1 DEF s, A
<1>6. CASE VariableNode(h)
  <2>1. s = <<>>
    BY <1>6, SpellingShapes DEF s
  <2> QED
    BY <2>1 DEF s
<1>7. ASSUME NEW k, LevelNode(h, k) PROVE s \in A
  BY <1>4, <1>7, SpellingShapes DEF s, LevelNode
<1>8. ASSUME NEW k, ParenNode(h, k) PROVE s \in A
  <2>1. Text(f, k) \in A /\ s = <<"(">> \o (Text(f, k) \o <<")">>)
    BY <1>4, <1>8, SpellingShapes DEF s, ParenNode
  <2> DEFINE a == <<"(">> b == <<")">>
  <2>2. a \in A /\ b \in A
    BY <1>1, <1>2
  <2> HIDE DEF a, b
  <2>3. a \o (Text(f, k) \o b) \in A
    BY <1>3, <2>1, <2>2
  <2> QED
    BY <2>1, <2>3 DEF a, b
<1>9. ASSUME NEW o, NEW k, UnaryNode(h, o, k) PROVE s \in A
  <2>0. s = <<"(">> \o (<<"0">> \o (<<o.tok>> \o (Text(f, k) \o <<")">>)))
    BY <1>9, SpellingShapes DEF s
  <2>1. Text(f, k) \in A /\ o.tok \in Opt
    BY <1>4, <1>9 DEF UnaryNode
  <2> DEFINE a == <<"(">> b == <<")">> z == <<"0">> c == <<o.tok>>
  <2>2. a \in A /\ b \in A /\ z \in A /\ c \in A
    BY <1>1, <1>2, <2>1
  <2> HIDE DEF a, b, z, c
  <2>3. a \o (z \o (c \o (Text(f, k) \o b))) \in A
    BY <1>3, <2>1, <2>2
  <2> QED
    BY <2>0, <2>3 DEF a, b, z, c
<1>10. ASSUME NEW k, NEW o, NEW l, BinaryNode(h, k, o, l) PROVE s \in A
  <2>0. s = Text(f, k) \o (<<o.tok>> \o Text(f, l))
    BY <1>10, SpellingShapes DEF s
  <2>1. Text(f, k) \in A /\ Text(f, l) \in A /\ o.tok \in Opt
    BY <1>4, <1>10 DEF BinaryNode
  <2>2. <<o.tok>> \in A
    BY <1>1, <1>2, <2>1
  <2> QED
    BY <1>3, <2>0, <2>1, <2>2
<1> QED
  BY <1>5, <1>6, <1>7, <1>8, <1>9, <1>10, NodeShapes DEF s, A

\* Trees that agree below h give h one spelling.
LEMMA SpellingOfLocal ==
    ASSUME NEW f, NEW g, NEW h \in Nodes, \A k : IsBelow(h, k) => f[k] = g[k]
    PROVE  SpellingOf(f, h) = SpellingOf(g, h)
<1>1. \A k : IsBelow(h, k) => Text(f, k) = Text(g, k)
  BY DEF Text
<1>2. CASE LiteralNode(h)
  BY <1>2, SpellingShapes
<1>3. CASE VariableNode(h)
  BY <1>3, SpellingShapes
<1>4. ASSUME NEW k, LevelNode(h, k) PROVE SpellingOf(f, h) = SpellingOf(g, h)
  BY <1>1, <1>4, SpellingShapes DEF LevelNode
<1>5. ASSUME NEW k, ParenNode(h, k) PROVE SpellingOf(f, h) = SpellingOf(g, h)
  BY <1>1, <1>5, SpellingShapes DEF ParenNode
<1>6. ASSUME NEW o, NEW k, UnaryNode(h, o, k) PROVE SpellingOf(f, h) = SpellingOf(g, h)
  <2>1. Text(f, k) = Text(g, k)
    BY <1>1, <1>6 DEF UnaryNode
  <2>2. \A Of : SpellingOf(Of, h)
                    = <<"(">> \o (<<"0">> \o (<<o.tok>> \o (Text(Of, k) \o <<")">>)))
    BY <1>6, SpellingShapes
  <2> QED
    BY <2>1, <2>2
<1>7. ASSUME NEW k, NEW o, NEW l, BinaryNode(h, k, o, l) PROVE SpellingOf(f, h) = SpellingOf(g, h)
  <2>1. Text(f, k) = Text(g, k) /\ Text(f, l) = Text(g, l)
    BY <1>1, <1>7 DEF BinaryNode
  <2>2. \A Of : SpellingOf(Of, h) = Text(Of, k) \o (<<o.tok>> \o Text(Of, l))
    BY <1>7, SpellingShapes
  <2> QED
    BY <2>1, <2>2
<1> QED
  BY <1>2, <1>3, <1>4, <1>5, <1>6, <1>7, NodeShapes

\* The recursion of Spelling has a solution.
LEMMA SpellingExists ==
    \A h \in Nodes : /\ Spelling[h] \in Seq(Tokens)
                     /\ Spelling[h] = SpellingOf(Spelling, h)
                     /\ Text(Spelling, h) = Spelling[h]
<1> DEFINE N == Nodes
           D == Seq(Tokens)
           lev == [h \in N |-> Levels(h)]
           step == [q \in [N -> D] \X N |-> SpellingOf(q[1], q[2])]
<1>1. lev \in [N -> Nat]
  BY TreesAssumption DEF AreTrees
<1>2. D # {}
  <2>1. <<>> \in D
    OBVIOUS
  <2> QED
    BY <2>1
<1>3. \A h, k : IsBelow(h, k) /\ h \in N => k \in N /\ lev[k] < lev[h]
  BY DEF IsBelow
<1>4. \A f \in [N -> D], h \in N : SpellingOf(f, h) \in D
  <2>1. ASSUME NEW f \in [N -> D], NEW h \in N PROVE SpellingOf(f, h) \in D
    <3>1. \A k : IsBelow(h, k) => f[k] \in Seq(Tokens)
      BY <1>3
    <3> QED
      BY <3>1, SpellingOfType
  <2> QED
    BY <2>1
<1>5. step \in [[N -> D] \X N -> D]
  <2> HIDE DEF D
  <2> QED
    BY <1>4
<1>6. \A f \in [N -> D], h \in N : step[<<f, h>>] = SpellingOf(f, h)
  <2> HIDE DEF N, D
  <2> QED
    OBVIOUS
<1> HIDE DEF step
<1>7. ASSUME NEW f \in [N -> D], NEW g \in [N -> D], NEW h \in N,
             \A k \in N : lev[k] < lev[h] => f[k] = g[k]
      PROVE  step[<<f, h>>] = step[<<g, h>>]
  <2>1. \A k : IsBelow(h, k) => f[k] = g[k]
    BY <1>3, <1>7
  <2>2. SpellingOf(f, h) = SpellingOf(g, h)
    BY <2>1, SpellingOfLocal
  <2> QED
    BY <1>6, <2>2
<1> HIDE DEF lev, N, D
<1>8. IsRecursion(N, lev, D, step)
  BY <1>1, <1>2, <1>5, <1>7 DEF IsRecursion
<1>9. PICK f : IsSolution(f, N, D, step)
  BY <1>8, RecursionExists
<1>10. f = [h \in N |-> SpellingOf(f, h)]
  <2>1. f \in [N -> D] /\ \A h \in N : f[h] = step[<<f, h>>]
    BY <1>9 DEF IsSolution
  <2> QED
    BY <1>6, <2>1
<1>11. Spelling = [h \in N |-> SpellingOf(Spelling, h)]
  BY <1>10 DEF Spelling, N
<1> DEFINE P == {h \in N : Spelling[h] \in D}
<1>12. \A h \in N : (\A k \in N : lev[k] < lev[h] => k \in P) => h \in P
  <2> SUFFICES ASSUME NEW h \in N, \A k \in N : lev[k] < lev[h] => k \in P
               PROVE  h \in P
    OBVIOUS
  <2>1. \A k : IsBelow(h, k) => Spelling[k] \in Seq(Tokens)
    BY <1>3 DEF D
  <2>2. SpellingOf(Spelling, h) \in Seq(Tokens)
    BY <2>1, SpellingOfType DEF N
  <2>3. Spelling[h] = SpellingOf(Spelling, h)
    BY <1>11
  <2> QED
    BY <2>2, <2>3 DEF D
<1>13. \A h \in N : lev[h] \in Nat
  BY <1>1
<1> HIDE DEF P
<1>14. N \subseteq P
  BY <1>12, <1>13, LevelInduction
<1>15. ASSUME NEW h \in Nodes
       PROVE  /\ Spelling[h] \in Seq(Tokens)
              /\ Spelling[h] = SpellingOf(Spelling, h)
              /\ Text(Spelling, h) = Spelling[h]
  <2>1. Spelling[h] \in D /\ Spelling[h] = SpellingOf(Spelling, h)
    BY <1>11, <1>14 DEF P, N
  <2>2. Text(Spelling, h) = Spelling[h]
    BY <2>1 DEF Text, SpellingOf
  <2> QED
    BY <2>1, <2>2 DEF D
<1> QED
  BY <1>15

-----------------------------------------------------------------------------
(* A chain in a queue                                                      *)

\* m[a..b] is an operand that has the outcomes V.
ReadsAs(m, a, b, V) == IsPart(m, a, b) /\ Tops(m, a, b) = {} /\ PartValues(m)[<<a, b>>] = V

\* The operands of the chain c are what lies between the positions C of m, where
\* its operators are.
Fenced(m, i, j, c, C) ==
    LET n == Len(c.operands)
    IN  /\ C \in [1..n+1 -> Int] /\ C[1] = i - 1 /\ C[n+1] = j + 1
        /\ \A k \in 1..n : ReadsAs(m, C[k] + 1, C[k+1] - 1, c.operands[k])
        /\ \A k \in 1..n-1 : m[C[k+1]] = c.operators[k]

\* m[i..j] is the chain c.
Reads(m, i, j, c) == i \in Int /\ j \in Int /\ \E C : Fenced(m, i, j, c, C)

\* The operands p[1] to p[2] of c are a part of m, whose outcomes are theirs, and
\* the operators that are outside its parentheses are those of c.
SpanReads(m, c, C, p) ==
    LET a == C[p[1]] + 1
        b == C[p[2] + 1] - 1
    IN  /\ IsPart(m, a, b)
        /\ PartValues(m)[<<a, b>>] = Spanned(c)[p]
        /\ \A l \in Tops(m, a, b) : \E q \in p[1]..p[2]-1 : l = C[q+1]

\* Two neighbouring spans of a chain are joined by the operator between them.
LEMMA SpansJoin ==
    ASSUME NEW m, WellFormed(m), NEW c \in Chains, NEW C, NEW i, NEW j,
           SpanOf(c, i, j), i # j,
           C \in [1..Len(c.operands)+1 -> Int],
           \A k \in 1..Len(c.operands)-1 : m[C[k+1]] = c.operators[k],
           SpanReads(m, c, C, <<i, LastApplied(c, i, j)>>),
           SpanReads(m, c, C, <<LastApplied(c, i, j) + 1, j>>)
    PROVE  SpanReads(m, c, C, <<i, j>>)
<1> DEFINE n == Len(c.operands)
           o == c.operators
           r == LastApplied(c, i, j)
           s == C[r+1]
           a == C[i] + 1
           b == C[j+1] - 1
<1>1. /\ i \in Int /\ j \in Int /\ r \in Int /\ i <= r /\ r < j
      /\ SpanOf(c, i, r) /\ SpanOf(c, r + 1, j)
      /\ o[r] \in Opt
      /\ \A l \in i..r : o[l] \in Opt /\ Prio[o[l]] <= Prio[o[r]]
      /\ \A l \in r+1..j-1 : o[l] \in Opt /\ Prio[o[l]] < Prio[o[r]]
  BY LastAppliedFacts
<1> HIDE DEF r
<1>2. n \in Nat /\ i >= 1 /\ j <= n /\ r + 1 \in 1..n+1 /\ r \in 1..n-1
  <2>1. n \in Nat /\ i \in 1..n /\ j \in 1..n
    BY <1>1, SpansOfChain DEF SpanOf
  <2> QED
    BY <1>1, <2>1
<1>3. s \in Int /\ m[s] = o[r]
  BY <1>2
<1>4. /\ IsPart(m, a, s - 1) /\ PartValues(m)[<<a, s - 1>>] = Spanned(c)[<<i, r>>]
      /\ \A l \in Tops(m, a, s - 1) : \E q \in i..r-1 : l = C[q+1]
  BY DEF SpanReads, r
<1>5. /\ IsPart(m, s + 1, b) /\ PartValues(m)[<<s + 1, b>>] = Spanned(c)[<<r + 1, j>>]
      /\ \A l \in Tops(m, s + 1, b) : \E q \in r+1..j-1 : l = C[q+1]
  BY DEF SpanReads, r
<1> HIDE DEF a, b, s
<1>6. \A q \in i..j-1 : m[C[q+1]] = o[q]
  <2>1. \A q \in i..j-1 : q \in 1..n-1
    BY <1>1, <1>2
  <2> QED
    BY <2>1
<1>7. \A l \in Tops(m, a, s - 1) : Prio[m[l]] <= Prio[m[s]]
  <2> TAKE l \in Tops(m, a, s - 1)
  <2>1. PICK q \in i..r-1 : l = C[q+1]
    BY <1>4
  <2>2. q \in i..j-1 /\ q \in i..r
    BY <1>1
  <2> QED
    BY <1>1, <1>3, <1>6, <2>1, <2>2
<1>8. \A l \in Tops(m, s + 1, b) : Prio[m[l]] < Prio[m[s]]
  <2> TAKE l \in Tops(m, s + 1, b)
  <2>1. PICK q \in r+1..j-1 : l = C[q+1]
    BY <1>5
  <2>2. q \in i..j-1
    BY <1>1
  <2> QED
    BY <1>1, <1>3, <1>6, <2>1, <2>2
<1>9. /\ IsPart(m, a, b)
      /\ Tops(m, a, b) = Tops(m, a, s - 1) \cup {s} \cup Tops(m, s + 1, b)
      /\ PartValues(m)[<<a, b>>]
            = Table!Apply(Spanned(c)[<<i, r>>], o[r], Spanned(c)[<<r + 1, j>>])
  <2>1. m[s] \in Opt
    BY <1>1, <1>3
  <2>2. /\ IsPart(m, a, b)
        /\ Tops(m, a, b) = Tops(m, a, s - 1) \cup {s} \cup Tops(m, s + 1, b)
        /\ PartValues(m)[<<a, b>>]
              = Table!Apply(PartValues(m)[<<a, s-1>>], m[s], PartValues(m)[<<s+1, b>>])
    BY <1>3, <1>4, <1>5, <1>7, <1>8, <2>1, OperatorJoinsParts
  <2> QED
    BY <1>3, <1>4, <1>5, <2>2
<1>10. Spanned(c)[<<i, j>>]
          = Table!Apply(Spanned(c)[<<i, r>>], o[r], Spanned(c)[<<r + 1, j>>])
  <2>1. <<i, j>> \in Spans(c)
    BY SpansOfChain
  <2>2. Spanned(c)[<<i, j>>] = PartMeaning(Spanned(c), c, <<i, j>>)
    BY <2>1, SpannedExists
  <2> QED
    BY <2>2 DEF PartMeaning, r
<1>11. \A l \in Tops(m, a, b) : \E q \in i..j-1 : l = C[q+1]
  <2> TAKE l \in Tops(m, a, b)
  <2>1. CASE l \in Tops(m, a, s - 1)
    <3>1. PICK q \in i..r-1 : l = C[q+1]
      BY <1>4, <2>1
    <3>2. q \in i..j-1
      BY <1>1
    <3> QED
      BY <3>1, <3>2
  <2>2. CASE l = s
    <3>1. r \in i..j-1
      BY <1>1
    <3> QED
      BY <2>2, <3>1 DEF s
  <2>3. CASE l \in Tops(m, s + 1, b)
    <3>1. PICK q \in r+1..j-1 : l = C[q+1]
      BY <1>5, <2>3
    <3>2. q \in i..j-1
      BY <1>1
    <3> QED
      BY <3>1, <3>2
  <2> QED
    BY <1>9, <2>1, <2>2, <2>3
<1> QED
  BY <1>9, <1>10, <1>11 DEF SpanReads, a, b

\* So all spans of a chain are read as they are grouped.
LEMMA SpansRead ==
    ASSUME NEW m, WellFormed(m), NEW c \in Chains, NEW i, NEW j, NEW C, Fenced(m, i, j, c, C)
    PROVE  \A p \in Spans(c) : SpanReads(m, c, C, p)
<1> DEFINE N == Spans(c)
           n == Len(c.operands)
           lev == [p \in N |-> p[2] - p[1]]
           P == {p \in N : SpanReads(m, c, C, p)}
<1>1. /\ C \in [1..n+1 -> Int]
      /\ \A k \in 1..n : ReadsAs(m, C[k] + 1, C[k+1] - 1, c.operands[k])
      /\ \A k \in 1..n-1 : m[C[k+1]] = c.operators[k]
  BY DEF Fenced
<1>2. \A p \in N : /\ p = <<p[1], p[2]>> /\ SpanOf(c, p[1], p[2])
                   /\ p[1] \in Int /\ p[2] \in Int /\ p[1] <= p[2] /\ p[1] \in 1..n
  BY SpansOfChain DEF SpanOf
<1>3. \A p \in N : lev[p] \in Nat
  BY <1>2
<1>4. ASSUME NEW p \in N, \A k \in N : lev[k] < lev[p] => k \in P PROVE p \in P
  <2>1. CASE p[1] = p[2]
    <3> DEFINE k == p[1]
    <3>1. ReadsAs(m, C[k] + 1, C[k+1] - 1, c.operands[k])
      BY <1>1, <1>2
    <3>2. Spanned(c)[p] = c.operands[k]
      BY <2>1, SpannedExists DEF PartMeaning
    <3>3. SpanReads(m, c, C, p)
      BY <2>1, <3>1, <3>2 DEF SpanReads, ReadsAs
    <3> QED
      BY <3>3
  <2>2. CASE p[1] # p[2]
    <3> DEFINE r == LastApplied(c, p[1], p[2])
    <3>1. /\ r \in Int /\ p[1] <= r /\ r < p[2] /\ SpanOf(c, p[1], r) /\ SpanOf(c, r + 1, p[2])
          /\ p[1] \in Int /\ p[2] \in Int
      BY <1>2, <2>2, LastAppliedFacts
    <3>2. <<p[1], r>> \in N /\ <<r + 1, p[2]>> \in N
      BY <3>1, SpansOfChain
    <3> HIDE DEF r
    <3>3. lev[<<p[1], r>>] = r - p[1] /\ lev[<<r + 1, p[2]>>] = p[2] - (r + 1) /\ lev[p] = p[2] - p[1]
      BY <3>2
    <3> HIDE DEF N, lev
    <3>4. lev[<<p[1], r>>] < lev[p] /\ lev[<<r + 1, p[2]>>] < lev[p]
      BY <3>1, <3>3
    <3>5. SpanReads(m, c, C, <<p[1], r>>) /\ SpanReads(m, c, C, <<r + 1, p[2]>>)
      BY <1>4, <3>2, <3>4
    <3>6. SpanReads(m, c, C, <<p[1], p[2]>>)
      BY <1>1, <1>2, <2>2, <3>5, SpansJoin DEF r
    <3> QED
      BY <1>2, <3>6
  <2> QED
    BY <2>1, <2>2
<1>5. \A p \in N : (\A k \in N : lev[k] < lev[p] => k \in P) => p \in P
  BY <1>4
<1> HIDE DEF P, lev, N
<1>6. N \subseteq P
  BY <1>3, <1>5, LevelInduction
<1> QED
  BY <1>6 DEF P, N

\* A chain in a queue is a part of it that has the chain's outcomes.
LEMMA ReadsMeans ==
    ASSUME NEW m, WellFormed(m), NEW c \in Chains, NEW i, NEW j, Reads(m, i, j, c)
    PROVE  IsPart(m, i, j) /\ PartValues(m)[<<i, j>>] = Grouped(c)
<1>1. PICK C : Fenced(m, i, j, c, C)
  BY DEF Reads
<1> DEFINE n == Len(c.operands)
<1>2. <<1, n>> \in Spans(c)
  <2>1. SpanOf(c, 1, n)
    BY SpansOfChain DEF SpanOf
  <2> QED
    BY <2>1, SpansOfChain
<1>3. SpanReads(m, c, C, <<1, n>>)
  BY <1>1, <1>2, SpansRead
<1>4. C[1] + 1 = i /\ C[n + 1] - 1 = j
  BY <1>1 DEF Fenced, Reads
<1> QED
  BY <1>3, <1>4, GroupedIsSpanned DEF SpanReads

\* An operand is a chain of its own, and a chain of one is an operand.
LEMMA ReadsSingle ==
    ASSUME NEW m, NEW i \in Int, NEW j \in Int, NEW V \in SUBSET Outcome, ReadsAs(m, i, j, V)
    PROVE  Reads(m, i, j, Single(V))
<1> DEFINE C == [k \in 1..2 |-> IF k = 1 THEN i - 1 ELSE j + 1]
           c == Single(V)
<1>1. Len(c.operands) = 1 /\ c.operands[1] = V
  BY SingleChain
<1>2. C \in [1..2 -> Int] /\ C[1] = i - 1 /\ C[2] = j + 1 /\ C[1] + 1 = i /\ C[2] - 1 = j
  OBVIOUS
<1> HIDE DEF C, c
<1>3. Fenced(m, i, j, c, C)
  <2>1. \A k \in 1..1 : k = 1 /\ k + 1 = 2
    OBVIOUS
  <2>2. \A k \in 1..1 : ReadsAs(m, C[k] + 1, C[k+1] - 1, c.operands[k])
    BY <1>1, <1>2, <2>1
  <2>3. 1 + 1 = 2 /\ 1 - 1 = 0 /\ 1..0 = {}
    OBVIOUS
  <2> QED
    BY <1>1, <1>2, <2>2, <2>3 DEF Fenced
<1> QED
  BY <1>3 DEF Reads, c

\* A chain of one operand is read as that operand.
LEMMA ReadsOne ==
    ASSUME NEW m, NEW i, NEW j, NEW c, Len(c.operands) = 1, Reads(m, i, j, c)
    PROVE  ReadsAs(m, i, j, c.operands[1])
<1>1. PICK C : Fenced(m, i, j, c, C)
  BY DEF Reads
<1>2. /\ C[1] = i - 1 /\ C[1+1] = j + 1
      /\ \A k \in 1..1 : ReadsAs(m, C[k] + 1, C[k+1] - 1, c.operands[k])
  BY <1>1 DEF Fenced
<1>3. C[1] + 1 = i /\ C[1+1] - 1 = j /\ 1 \in 1..1
  BY <1>2 DEF Reads
<1>4. ReadsAs(m, C[1] + 1, C[1+1] - 1, c.operands[1])
  BY <1>2, <1>3
<1> QED
  BY <1>3, <1>4

\* Two chains with an operator between them are one.
LEMMA ReadsJoined ==
    ASSUME NEW m, NEW c \in Chains, NEW d \in Chains, NEW i, NEW k \in Int, NEW j,
           Reads(m, i, k - 1, c), Reads(m, k + 1, j, d), m[k] \in Opt
    PROVE  Reads(m, i, j, Joined(c, m[k], d))
<1> DEFINE o == m[k]
           e == Joined(c, o, d)
           n == Len(c.operands)
           p == Len(d.operands)
<1>1. PICK C : Fenced(m, i, k - 1, c, C)
  BY DEF Reads
<1>2. PICK D : Fenced(m, k + 1, j, d, D)
  BY DEF Reads
<1>3. /\ n \in Nat /\ n >= 1 /\ p \in Nat /\ p >= 1 /\ Len(e.operands) = n + p
      /\ \A q \in 1..n : e.operands[q] = c.operands[q]
      /\ \A q \in 1..p : e.operands[n + q] = d.operands[q]
      /\ \A q \in 1..n-1 : e.operators[q] = c.operators[q]
      /\ e.operators[n] = m[k]
      /\ \A q \in 1..p-1 : e.operators[n + q] = d.operators[q]
  <2>1. IsJoined(e, c, o, d) /\ o = m[k]
    BY JoinedChain
  <2> HIDE DEF e, o
  <2> QED
    BY <2>1 DEF IsJoined
<1>4. /\ C \in [1..n+1 -> Int] /\ C[1] = i - 1 /\ C[n+1] = k
      /\ \A q \in 1..n : ReadsAs(m, C[q] + 1, C[q+1] - 1, c.operands[q])
      /\ \A q \in 1..n-1 : m[C[q+1]] = c.operators[q]
  <2>1. (k - 1) + 1 = k
    OBVIOUS
  <2> QED
    BY <1>1, <2>1 DEF Fenced
<1>5. /\ D \in [1..p+1 -> Int] /\ D[1] = k /\ D[p+1] = j + 1
      /\ \A q \in 1..p : ReadsAs(m, D[q] + 1, D[q+1] - 1, d.operands[q])
      /\ \A q \in 1..p-1 : m[D[q+1]] = d.operators[q]
  <2>1. (k + 1) - 1 = k
    OBVIOUS
  <2> QED
    BY <1>2, <2>1 DEF Fenced
<1> HIDE DEF e, n, p
<1> DEFINE E == [q \in 1..n+p+1 |-> IF q <= n+1 THEN C[q] ELSE D[q-n]]
<1>6. E \in [1..n+p+1 -> Int]
  <2>1. \A q \in 1..n+p+1 : (q <= n+1 => q \in 1..n+1) /\ (~(q <= n+1) => q - n \in 1..p+1)
    BY <1>3
  <2> QED
    BY <1>4, <1>5, <2>1
<1>7. \A q \in 1..n+1 : E[q] = C[q]
  BY <1>3
<1>8. \A q \in 1..p+1 : E[n + q] = D[q]
  <2> TAKE q \in 1..p+1
  <2>1. n + q \in 1..n+p+1 /\ (n + q) - n = q /\ (n + q <= n + 1 <=> q = 1)
    BY <1>3
  <2>2. CASE q = 1
    BY <1>3, <1>4, <1>5, <1>7, <2>2
  <2>3. CASE q # 1
    BY <2>1, <2>3
  <2> QED
    BY <2>2, <2>3
<1> HIDE DEF E
<1>9. E[1] = i - 1 /\ E[n + p + 1] = j + 1
  <2>1. 1 \in 1..n+1 /\ p + 1 \in 1..p+1 /\ n + (p + 1) = n + p + 1
    BY <1>3
  <2> QED
    BY <1>4, <1>5, <1>7, <1>8, <2>1
<1>10. ASSUME NEW q \in 1..n+p PROVE ReadsAs(m, E[q] + 1, E[q+1] - 1, e.operands[q])
  <2>1. CASE q \in 1..n
    <3>1. q \in 1..n+1 /\ q + 1 \in 1..n+1
      BY <1>3, <2>1
    <3> QED
      BY <1>3, <1>4, <1>7, <2>1, <3>1
  <2>2. CASE q \notin 1..n
    <3> DEFINE t == q - n
    <3>1. t \in 1..p /\ t \in 1..p+1 /\ t + 1 \in 1..p+1 /\ q = n + t /\ q + 1 = n + (t + 1)
      BY <1>3, <2>2
    <3> HIDE DEF t
    <3>2. E[q] = D[t] /\ E[q+1] = D[t+1] /\ e.operands[q] = d.operands[t]
      BY <1>3, <1>8, <3>1
    <3> QED
      BY <1>5, <3>1, <3>2
  <2> QED
    BY <2>1, <2>2
<1>11. ASSUME NEW q \in 1..(n+p)-1 PROVE m[E[q+1]] = e.operators[q]
  <2>1. CASE q \in 1..n-1
    <3>1. q + 1 \in 1..n+1
      BY <1>3, <2>1
    <3> QED
      BY <1>3, <1>4, <1>7, <2>1, <3>1
  <2>2. CASE q = n
    <3>1. n + 1 \in 1..n+1
      BY <1>3
    <3> QED
      BY <1>3, <1>4, <1>7, <2>2, <3>1
  <2>3. CASE q > n
    <3> DEFINE t == q - n
    <3>1. t \in 1..p-1 /\ t + 1 \in 1..p+1 /\ q = n + t /\ q + 1 = n + (t + 1)
      <4>1. q \in Int /\ q <= n + p - 1 /\ n \in Int /\ p \in Int
        BY <1>3
      <4> QED
        BY <2>3, <4>1
    <3> HIDE DEF t
    <3>2. E[q+1] = D[t+1] /\ e.operators[q] = d.operators[t]
      BY <1>3, <1>8, <3>1
    <3> QED
      BY <1>5, <3>1, <3>2
  <2> QED
    BY <1>3, <2>1, <2>2, <2>3
<1>12. Fenced(m, i, j, e, E)
  BY <1>3, <1>6, <1>9, <1>10, <1>11 DEF Fenced
<1> QED
  BY <1>12 DEF Reads, e

-----------------------------------------------------------------------------
(* The queue of a tree                                                     *)

\* m[i..j] are the tokens s.
SpelledAt(m, i, j, s) ==
    /\ i \in Int /\ j \in Int /\ i >= 1 /\ j <= Len(m)
    /\ Len(s) = j - i + 1
    /\ \A k \in 1..Len(s) : m[i + k - 1] = s[k]

\* Tokens that are spelled one after the other.
LEMMA SpelledSplit ==
    ASSUME NEW m, NEW i, NEW j, NEW a \in Seq(Tokens), NEW b \in Seq(Tokens),
           SpelledAt(m, i, j, a \o b), Len(m) \in Nat, NEW q, q = i + Len(a)
    PROVE  SpelledAt(m, i, q - 1, a) /\ SpelledAt(m, q, j, b)
<1> DEFINE n == Len(a)
           p == Len(b)
           s == a \o b
<1>1. /\ n \in Nat /\ p \in Nat /\ Len(s) = n + p
      /\ \A k \in 1..n : s[k] = a[k]
      /\ \A k \in 1..p : s[n + k] = b[k]
  OBVIOUS
<1>2. /\ i \in Int /\ j \in Int /\ i >= 1 /\ j <= Len(m)
      /\ Len(s) = j - i + 1
      /\ \A k \in 1..Len(s) : m[i + k - 1] = s[k]
  BY DEF SpelledAt
<1>0. q = i + n
  OBVIOUS
<1> HIDE DEF n, p, s
<1>3. n + p = j - i + 1
  BY <1>1, <1>2
<1>4. /\ q - 1 \in Int /\ q - 1 <= Len(m) /\ n = (q - 1) - i + 1
      /\ q \in Int /\ q >= 1 /\ p = j - q + 1
  <2>1. q \in Int /\ n \in Nat /\ p \in Nat /\ i \in Int /\ j \in Int
    BY <1>0, <1>1, <1>2
  <2>2. p = j - q + 1 /\ n = (q - 1) - i + 1
    BY <1>0, <1>3, <2>1
  <2>3. q >= 1 /\ q - 1 <= j
    BY <1>0, <1>2, <2>1, <2>2
  <2> QED
    BY <1>2, <2>1, <2>2, <2>3
<1>5. ASSUME NEW k \in 1..n PROVE m[i + k - 1] = a[k]
  <2>1. k \in 1..Len(s)
    BY <1>1
  <2> QED
    BY <1>1, <1>2, <2>1
<1>6. ASSUME NEW k \in 1..p PROVE m[q + k - 1] = b[k]
  <2>1. n + k \in 1..Len(s)
    BY <1>1
  <2>2. i + (n + k) - 1 = q + k - 1
    <3>1. i \in Int /\ n \in Int /\ k \in Int /\ q \in Int
      BY <1>1, <1>2, <1>4
    <3> QED
      BY <1>0, <3>1
  <2> QED
    BY <1>1, <1>2, <2>1, <2>2
<1>7. SpelledAt(m, i, q - 1, a)
  BY <1>2, <1>4, <1>5 DEF SpelledAt, n
<1>8. SpelledAt(m, q, j, b)
  BY <1>2, <1>4, <1>6 DEF SpelledAt, p
<1> QED
  BY <1>7, <1>8

\* A single token, at either end.
LEMMA SpelledToken ==
    ASSUME NEW m, NEW i, NEW j, NEW t, SpelledAt(m, i, j, <<t>>)
    PROVE  i = j /\ i \in 1..Len(m) /\ m[i] = t
<1> DEFINE s == <<t>>
<1>1. Len(s) = 1 /\ s[1] = t
  OBVIOUS
<1> HIDE DEF s
<1>2. /\ i \in Int /\ j \in Int /\ i >= 1 /\ j <= Len(m) /\ 1 = j - i + 1
      /\ m[i + 1 - 1] = t
  <2>1. SpelledAt(m, i, j, s)
    BY DEF s
  <2> QED
    BY <1>1, <2>1 DEF SpelledAt
<1>3. i = j /\ i + 1 - 1 = i
  BY <1>2
<1> QED
  BY <1>2, <1>3

\* The first token taken off.
LEMMA SpelledFirst ==
    ASSUME NEW m, NEW i, NEW j, NEW t \in Tokens, NEW b \in Seq(Tokens),
           SpelledAt(m, i, j, <<t>> \o b), Len(m) \in Nat
    PROVE  i \in 1..Len(m) /\ m[i] = t /\ SpelledAt(m, i + 1, j, b)
<1> DEFINE a == <<t>>
<1>1. a \in Seq(Tokens) /\ Len(a) = 1
  OBVIOUS
<1>2. SpelledAt(m, i, j, a \o b)
  OBVIOUS
<1> HIDE DEF a
<1> DEFINE q == i + Len(a)
<1>0. q = i + 1
  BY <1>1
<1>3. SpelledAt(m, i, q - 1, a) /\ SpelledAt(m, q, j, b)
  <2>1. q = i + Len(a)
    OBVIOUS
  <2> HIDE DEF q
  <2> QED
    BY <1>1, <1>2, <2>1, SpelledSplit
<1> HIDE DEF q
<1>4. i \in 1..Len(m) /\ m[i] = t
  BY <1>3, SpelledToken DEF a
<1> QED
  BY <1>0, <1>3, <1>4

\* The last token taken off.
LEMMA SpelledLast ==
    ASSUME NEW m, NEW i, NEW j, NEW t \in Tokens, NEW b \in Seq(Tokens),
           SpelledAt(m, i, j, b \o <<t>>), Len(m) \in Nat
    PROVE  j \in 1..Len(m) /\ m[j] = t /\ SpelledAt(m, i, j - 1, b)
<1> DEFINE a == <<t>>
<1>1. a \in Seq(Tokens) /\ Len(a) = 1
  OBVIOUS
<1>2. SpelledAt(m, i, j, b \o a)
  OBVIOUS
<1> HIDE DEF a
<1> DEFINE q == i + Len(b)
<1>3. SpelledAt(m, i, q - 1, b) /\ SpelledAt(m, q, j, a)
  <2>1. q = i + Len(b)
    OBVIOUS
  <2> HIDE DEF q
  <2> QED
    BY <1>1, <1>2, <2>1, SpelledSplit
<1> HIDE DEF q
<1>4. q = j /\ q \in 1..Len(m) /\ m[q] = t
  BY <1>3, SpelledToken DEF a
<1> QED
  BY <1>3, <1>4

\* Where a tree without variables is spelled in an expression, its chain is read.
NodeReads(h) ==
    ~NamesVariable(h) =>
        \A m, i, j : WellFormed(m) /\ SpelledAt(m, i, j, Spelling[h]) => Reads(m, i, j, Chain[h])

\* Parentheses around a part make an operand of it.
LEMMA ReadsParen ==
    ASSUME NEW m, WellFormed(m), NEW i \in 1..Len(m), NEW j \in 1..Len(m),
           m[i] = "(", m[j] = ")", IsPart(m, i + 1, j - 1),
           NEW V \in SUBSET Outcome, PartValues(m)[<<i + 1, j - 1>>] = V
    PROVE  Reads(m, i, j, Single(V))
<1>1. ReadsAs(m, i, j, V)
  BY ParenIsPart DEF ReadsAs
<1>2. i \in Int /\ j \in Int
  OBVIOUS
<1> QED
  BY <1>1, <1>2, ReadsSingle

\* An expression in parentheses is read as it is grouped.
LEMMA ParenReads ==
    ASSUME NEW h \in Nodes, NEW k, ParenNode(h, k), NodeReads(k)
    PROVE  NodeReads(h)
<1> SUFFICES ASSUME ~NamesVariable(h), NEW m, NEW i, NEW j, WellFormed(m),
                    SpelledAt(m, i, j, Spelling[h])
             PROVE  Reads(m, i, j, Chain[h])
  BY DEF NodeReads
<1>1. k \in Nodes /\ ~NamesVariable(k) /\ Chain[h] = Single(Grouped(Chain[k]))
  BY ChainExists DEF ParenNode, IsBelow
<1>2. /\ Spelling[k] \in Seq(Tokens) /\ Len(m) \in Nat /\ Chain[k] \in Chains
      /\ "(" \in Tokens /\ ")" \in Tokens
  BY <1>1, SpellingExists, ChainExists DEF WellFormed, Tokens
<1>3. Spelling[h] = <<"(">> \o (Spelling[k] \o <<")">>)
  <2>1. Spelling[h] = SpellingOf(Spelling, h) /\ Text(Spelling, k) = Spelling[k]
    BY <1>1, SpellingExists
  <2>2. SpellingOf(Spelling, h) = <<"(">> \o (Text(Spelling, k) \o <<")">>)
    BY SpellingShapes
  <2> QED
    BY <2>1, <2>2
<1>4. i \in 1..Len(m) /\ m[i] = "(" /\ SpelledAt(m, i + 1, j, Spelling[k] \o <<")">>)
  <2> DEFINE b == Spelling[k] \o <<")">>
  <2>1. b \in Seq(Tokens)
    BY <1>2
  <2>2. SpelledAt(m, i, j, <<"(">> \o b)
    BY <1>3
  <2> HIDE DEF b
  <2>3. i \in 1..Len(m) /\ m[i] = "(" /\ SpelledAt(m, i + 1, j, b)
    BY <1>2, <2>1, <2>2, SpelledFirst
  <2> QED
    BY <2>3 DEF b
<1>5. j \in 1..Len(m) /\ m[j] = ")" /\ SpelledAt(m, i + 1, j - 1, Spelling[k])
  BY <1>2, <1>4, SpelledLast
<1>6. Reads(m, i + 1, j - 1, Chain[k])
  BY <1>1, <1>5 DEF NodeReads
<1>7. IsPart(m, i + 1, j - 1) /\ PartValues(m)[<<i + 1, j - 1>>] = Grouped(Chain[k])
  BY <1>2, <1>6, ReadsMeans
<1>8. Grouped(Chain[k]) \in SUBSET Outcome
  BY <1>2, GroupedType
<1> QED
  BY <1>1, <1>4, <1>5, <1>7, <1>8, ReadsParen

\* A unary operator is read as a binary one with 0 in front of it.
LEMMA UnaryReads ==
    ASSUME NEW h \in Nodes, NEW o, NEW k, UnaryNode(h, o, k), NodeReads(k)
    PROVE  NodeReads(h)
<1> SUFFICES ASSUME ~NamesVariable(h), NEW m, NEW i, NEW j, WellFormed(m),
                    SpelledAt(m, i, j, Spelling[h])
             PROVE  Reads(m, i, j, Chain[h])
  BY DEF NodeReads
<1> DEFINE V == Chain[k].operands[1]
           t == o.tok
<1>1. /\ k \in Nodes /\ ~NamesVariable(k) /\ t \in Opt
      /\ Chain[h] = Single(ApplyUnary(t, V))
      /\ Len(Chain[k].operands) = 1
  BY ChainExists DEF UnaryNode, IsBelow
<1>2. /\ Spelling[k] \in Seq(Tokens) /\ Len(m) \in Nat /\ Chain[k] \in Chains
      /\ "(" \in Tokens /\ ")" \in Tokens /\ "0" \in Tokens /\ "0" \in Num /\ t \in Tokens
  BY <1>1, SpellingExists, ChainExists, NodesAssumption DEF WellFormed, Tokens
<1>3. V \in SUBSET Outcome
  <2>1. 1 \in 1..Len(Chain[k].operands)
    BY <1>1
  <2> QED
    BY <1>2, <2>1, SpansOfChain
<1> DEFINE c == Spelling[k] \o <<")">>
           b == <<t>> \o c
           a == <<"0">> \o b
<1>4. Spelling[h] = <<"(">> \o a
  <2>1. Spelling[h] = SpellingOf(Spelling, h) /\ Text(Spelling, k) = Spelling[k]
    BY <1>1, SpellingExists
  <2>2. SpellingOf(Spelling, h)
           = <<"(">> \o (<<"0">> \o (<<o.tok>> \o (Text(Spelling, k) \o <<")">>)))
    BY SpellingShapes
  <2> QED
    BY <2>1, <2>2
<1>5. c \in Seq(Tokens) /\ b \in Seq(Tokens) /\ a \in Seq(Tokens)
  <2>1. c \in Seq(Tokens)
    BY <1>2
  <2> HIDE DEF c
  <2>2. b \in Seq(Tokens)
    BY <1>2, <2>1
  <2> HIDE DEF b
  <2>3. a \in Seq(Tokens)
    BY <1>2, <2>2
  <2> QED
    BY <2>1, <2>2, <2>3
<1> HIDE DEF V, t
<1>6. i \in 1..Len(m) /\ m[i] = "(" /\ SpelledAt(m, i + 1, j, a)
  <2> HIDE DEF a
  <2> QED
    BY <1>2, <1>4, <1>5, SpelledFirst
<1>7. i + 1 \in 1..Len(m) /\ m[i+1] = "0" /\ SpelledAt(m, (i + 1) + 1, j, b)
  <2> HIDE DEF b
  <2> QED
    BY <1>2, <1>5, <1>6, SpelledFirst
<1>8. (i + 1) + 1 \in 1..Len(m) /\ m[(i + 1) + 1] = t /\ SpelledAt(m, ((i + 1) + 1) + 1, j, c)
  <2> HIDE DEF c
  <2> QED
    BY <1>2, <1>5, <1>7, SpelledFirst
<1>9. j \in 1..Len(m) /\ m[j] = ")" /\ SpelledAt(m, ((i + 1) + 1) + 1, j - 1, Spelling[k])
  BY <1>2, <1>8, SpelledLast
<1> HIDE DEF a, b, c
<1> DEFINE p == i + 1
           q == p + 1
<1>10. Reads(m, q + 1, j - 1, Chain[k])
  BY <1>1, <1>9 DEF NodeReads
<1>11. ReadsAs(m, q + 1, j - 1, V)
  BY <1>1, <1>10, ReadsOne DEF V
<1>12. /\ IsPart(m, p, p) /\ Tops(m, p, p) = {}
       /\ PartValues(m)[<<p, p>>] = OperandValue("0")
  BY <1>2, <1>7, OperandIsPart
<1>13. q \in Int /\ q - 1 = p /\ m[q] = t
  BY <1>6, <1>8
<1> HIDE DEF p, q
<1>14. /\ IsPart(m, p, j - 1)
       /\ PartValues(m)[<<p, j - 1>>] = Table!Apply(OperandValue("0"), t, V)
  <2>1. /\ \A l \in Tops(m, p, q - 1) : Prio[m[l]] <= Prio[m[q]]
        /\ \A l \in Tops(m, q + 1, j - 1) : Prio[m[l]] < Prio[m[q]]
        /\ IsPart(m, p, q - 1) /\ IsPart(m, q + 1, j - 1) /\ m[q] \in Opt
    BY <1>1, <1>11, <1>12, <1>13 DEF ReadsAs
  <2>2. /\ IsPart(m, p, j - 1)
        /\ PartValues(m)[<<p, j - 1>>]
              = Table!Apply(PartValues(m)[<<p, q-1>>], m[q], PartValues(m)[<<q+1, j - 1>>])
    BY <1>13, <2>1, OperatorJoinsParts
  <2> QED
    BY <1>11, <1>12, <1>13, <2>2 DEF ReadsAs
<1>15. PartValues(m)[<<p, j - 1>>] = ApplyUnary(t, V) /\ ApplyUnary(t, V) \in SUBSET Outcome
  BY <1>1, <1>3, <1>14, UnaryIsBinary
<1> QED
  BY <1>1, <1>6, <1>9, <1>14, <1>15, ReadsParen DEF p

\* A binary operator joins the chains on its two sides: the tree is read flat.
LEMMA BinaryReads ==
    ASSUME NEW h \in Nodes, NEW k, NEW o, NEW l, BinaryNode(h, k, o, l),
           NodeReads(k), NodeReads(l)
    PROVE  NodeReads(h)
<1> SUFFICES ASSUME ~NamesVariable(h), NEW m, NEW i, NEW j, WellFormed(m),
                    SpelledAt(m, i, j, Spelling[h])
             PROVE  Reads(m, i, j, Chain[h])
  BY DEF NodeReads
<1> DEFINE t == o.tok
           b == <<t>> \o Spelling[l]
           q == i + Len(Spelling[k])
<1>1. /\ k \in Nodes /\ l \in Nodes /\ ~NamesVariable(k) /\ ~NamesVariable(l) /\ t \in Opt
      /\ Chain[h] = Joined(Chain[k], t, Chain[l])
  BY ChainExists DEF BinaryNode, IsBelow
<1>2. /\ Spelling[k] \in Seq(Tokens) /\ Spelling[l] \in Seq(Tokens) /\ Len(m) \in Nat
      /\ Chain[k] \in Chains /\ Chain[l] \in Chains /\ t \in Tokens
  BY <1>1, SpellingExists, ChainExists DEF WellFormed, Tokens
<1>3. Spelling[h] = Spelling[k] \o b
  <2>1. /\ Spelling[h] = SpellingOf(Spelling, h)
        /\ Text(Spelling, k) = Spelling[k] /\ Text(Spelling, l) = Spelling[l]
    BY <1>1, SpellingExists
  <2>2. SpellingOf(Spelling, h) = Text(Spelling, k) \o (<<o.tok>> \o Text(Spelling, l))
    BY SpellingShapes
  <2> QED
    BY <2>1, <2>2
<1>4. b \in Seq(Tokens)
  BY <1>2
<1> HIDE DEF t
<1>5. SpelledAt(m, i, q - 1, Spelling[k]) /\ SpelledAt(m, q, j, b)
  <2> HIDE DEF b
  <2> DEFINE a == Spelling[k]
  <2>1. a \in Seq(Tokens) /\ SpelledAt(m, i, j, a \o b)
    BY <1>2, <1>3
  <2> HIDE DEF a
  <2>2. q = i + Len(a)
    BY DEF a
  <2> HIDE DEF q
  <2>3. SpelledAt(m, i, q - 1, a) /\ SpelledAt(m, q, j, b)
    BY <1>2, <1>4, <2>1, <2>2, SpelledSplit
  <2> QED
    BY <2>3 DEF a
<1> HIDE DEF q
<1>6. q \in 1..Len(m) /\ m[q] = t /\ SpelledAt(m, q + 1, j, Spelling[l])
  BY <1>2, <1>5, SpelledFirst
<1>7. Reads(m, i, q - 1, Chain[k]) /\ Reads(m, q + 1, j, Chain[l])
  BY <1>1, <1>5, <1>6 DEF NodeReads
<1>8. Reads(m, i, j, Joined(Chain[k], m[q], Chain[l]))
  <2>1. q \in Int /\ m[q] \in Opt
    BY <1>1, <1>6
  <2> QED
    BY <1>2, <1>7, <2>1, ReadsJoined
<1> QED
  BY <1>1, <1>6, <1>8

\* Every tree is read as it is grouped, by induction on its height.
LEMMA AllNodesRead == \A h \in Nodes : NodeReads(h)
<1> DEFINE N == Nodes
           lev == [h \in N |-> Levels(h)]
           P == {h \in N : NodeReads(h)}
<1>1. \A h \in N : lev[h] \in Nat
  BY TreesAssumption DEF AreTrees
<1>2. ASSUME NEW h \in N, \A k \in N : lev[k] < lev[h] => k \in P PROVE h \in P
  <2>1. \A k : IsBelow(h, k) => NodeReads(k)
    BY <1>2 DEF IsBelow
  <2>2. CASE LiteralNode(h)
    <3> SUFFICES ASSUME NEW m, NEW i, NEW j, WellFormed(m), SpelledAt(m, i, j, Spelling[h])
                 PROVE  Reads(m, i, j, Chain[h])
      BY DEF NodeReads
    <3>1. Spelling[h] = <<h.tok>> /\ h.tok \in Num /\ Chain[h] = Single(OperandValue(h.tok))
      BY <2>2, SpellingExists, SpellingShapes, ChainExists DEF LiteralNode
    <3>2. i = j /\ i \in 1..Len(m) /\ m[i] = h.tok
      BY <3>1, SpelledToken
    <3>3. ReadsAs(m, i, j, OperandValue(h.tok)) /\ i \in Int
      BY <3>1, <3>2, OperandIsPart DEF ReadsAs
    <3> QED
      BY <3>1, <3>2, <3>3, OperandValueType, ReadsSingle
  <2>3. CASE VariableNode(h)
    BY <2>3 DEF NodeReads, VariableNode
  <2>4. ASSUME NEW k, LevelNode(h, k) PROVE NodeReads(h)
    <3>1. /\ NodeReads(k) /\ k \in Nodes /\ (NamesVariable(h) <=> NamesVariable(k))
          /\ Chain[h] = Chain[k]
      BY <2>1, <2>4, ChainExists DEF LevelNode, IsBelow
    <3>2. Spelling[h] = Spelling[k]
      BY <2>4, <3>1, SpellingExists, SpellingShapes
    <3> QED
      BY <3>1, <3>2 DEF NodeReads
  <2>5. ASSUME NEW k, ParenNode(h, k) PROVE NodeReads(h)
    <3>1. NodeReads(k)
      BY <2>1, <2>5 DEF ParenNode
    <3> QED
      BY <2>5, <3>1, ParenReads
  <2>6. ASSUME NEW o, NEW k, UnaryNode(h, o, k) PROVE NodeReads(h)
    <3>1. NodeReads(k)
      BY <2>1, <2>6 DEF UnaryNode
    <3> QED
      BY <2>6, <3>1, UnaryReads
  <2>7. ASSUME NEW k, NEW o, NEW l, BinaryNode(h, k, o, l) PROVE NodeReads(h)
    <3>1. NodeReads(k) /\ NodeReads(l)
      BY <2>1, <2>7 DEF BinaryNode
    <3> QED
      BY <2>7, <3>1, BinaryReads
  <2>8. NodeReads(h)
    BY <2>2, <2>3, <2>4, <2>5, <2>6, <2>7, NodeShapes
  <2> QED
    BY <2>8
<1>3. \A h \in N : (\A k \in N : lev[k] < lev[h] => k \in P) => h \in P
  BY <1>2
<1> HIDE DEF P, lev
<1>4. N \subseteq P
  BY <1>1, <1>3, LevelInduction
<1> QED
  BY <1>4 DEF P

\* The outcomes of the queue of a tree, grouped by the table, are those of the tree.
LEMMA SpellingMeans ==
    ASSUME NEW h \in Nodes, ~NamesVariable(h), WellFormed(Spelling[h])
    PROVE  Table!Outcomes(Spelling[h]) = MeaningOf(h)
<1> DEFINE m == Spelling[h]
           n == Len(m)
<1>1. n \in Nat
  BY SpellingExists
<1>2. SpelledAt(m, 1, n, m)
  <2>1. \A k \in 1..n : 1 + k - 1 = k
    BY <1>1
  <2>2. n = n - 1 + 1
    BY <1>1
  <2> QED
    BY <1>1, <2>1, <2>2 DEF SpelledAt
<1>3. Reads(m, 1, n, Chain[h])
  BY <1>2, AllNodesRead DEF NodeReads
<1>4. PartValues(m)[<<1, n>>] = Grouped(Chain[h])
  BY <1>3, ChainExists, ReadsMeans
<1> QED
  BY <1>4, ValueIsOutcomes DEF MeaningOf

-----------------------------------------------------------------------------
(* Sequences, one after the other                                          *)

\* Concatenation, as an operator that the provers take as it is.
Cat(a, b) == a \o b

\* What its elements are.
LEMMA CatProperties ==
    ASSUME NEW S, NEW a \in Seq(S), NEW b \in Seq(S)
    PROVE  /\ Cat(a, b) \in Seq(S) /\ Len(Cat(a, b)) = Len(a) + Len(b)
           /\ \A i \in 1..Len(a)+Len(b) :
                 Cat(a, b)[i] = IF i <= Len(a) THEN a[i] ELSE b[i - Len(a)]
BY ConcatProperties DEF Cat

\* Concatenation may be grouped either way.
LEMMA CatAssociative ==
    ASSUME NEW S, NEW a \in Seq(S), NEW b \in Seq(S), NEW c \in Seq(S)
    PROVE  Cat(Cat(a, b), c) = Cat(a, Cat(b, c))
<1> DEFINE x == Cat(a, b) y == Cat(b, c) l == Cat(x, c) r == Cat(a, y)
           p == Len(a) q == Len(b) n == Len(c)
<1>1. /\ x \in Seq(S) /\ Len(x) = p + q
      /\ \A i \in 1..p+q : x[i] = IF i <= p THEN a[i] ELSE b[i - p]
  BY CatProperties
<1>2. /\ y \in Seq(S) /\ Len(y) = q + n
      /\ \A i \in 1..q+n : y[i] = IF i <= q THEN b[i] ELSE c[i - q]
  BY CatProperties
<1>0. p \in Nat /\ q \in Nat /\ n \in Nat
  OBVIOUS
<1> HIDE DEF x, y
<1>3. /\ l \in Seq(S) /\ Len(l) = Len(x) + n
      /\ \A i \in 1..Len(x)+n : l[i] = IF i <= Len(x) THEN x[i] ELSE c[i - Len(x)]
  <2>1. x \in Seq(S)
    BY <1>1
  <2> QED
    BY <2>1, CatProperties
<1>4. /\ r \in Seq(S) /\ Len(r) = p + Len(y)
      /\ \A i \in 1..p+Len(y) : r[i] = IF i <= p THEN a[i] ELSE y[i - p]
  <2>1. y \in Seq(S)
    BY <1>2
  <2> QED
    BY <2>1, CatProperties
<1> HIDE DEF l, r, p, q, n
<1>5. Len(l) = Len(r) /\ Len(l) = p + q + n
  BY <1>0, <1>1, <1>2, <1>3, <1>4
<1>6. ASSUME NEW i \in 1..Len(l) PROVE l[i] = r[i]
  <2>1. CASE i <= p
    <3>1. i <= p + q /\ i \in 1..p+q
      BY <1>0, <2>1
    <3>2. l[i] = a[i]
      BY <1>0, <1>1, <1>3, <1>5, <2>1, <3>1
    <3>3. r[i] = a[i]
      BY <1>0, <1>2, <1>4, <1>5, <2>1
    <3> QED
      BY <3>2, <3>3
  <2>2. CASE i > p /\ i <= p + q
    <3>1. i - p \in 1..q+n /\ i - p <= q
      BY <1>0, <2>2
    <3>2. l[i] = b[i - p]
      BY <1>0, <1>1, <1>3, <1>5, <2>2
    <3>3. r[i] = y[i - p]
      BY <1>0, <1>2, <1>4, <1>5, <2>2
    <3> QED
      BY <1>2, <3>1, <3>2, <3>3
  <2>3. CASE i > p + q
    <3>1. i - p \in 1..q+n /\ ~(i - p <= q) /\ (i - p) - q = i - (p + q)
      BY <1>0, <1>5, <2>3
    <3>2. l[i] = c[i - (p + q)]
      BY <1>0, <1>1, <1>3, <1>5, <2>3
    <3>3. r[i] = y[i - p]
      BY <1>0, <1>2, <1>4, <1>5, <2>3
    <3>4. y[i - p] = c[(i - p) - q]
      BY <1>2, <3>1
    <3> QED
      BY <3>1, <3>2, <3>3, <3>4
  <2> QED
    BY <1>0, <1>5, <2>1, <2>2, <2>3
<1>7. l = r
  BY <1>3, <1>4, <1>5, <1>6, SeqEqual
<1> QED
  BY <1>7 DEF l, r, x, y

\* Appending to sequences that are put together from the right.
LEMMA CatNested ==
    ASSUME NEW S, NEW a \in Seq(S), NEW b \in Seq(S), NEW c \in Seq(S), NEW d \in Seq(S),
           NEW e \in Seq(S), NEW r \in Seq(S)
    PROVE  /\ Cat(Cat(a, Cat(b, c)), r) = Cat(a, Cat(b, Cat(c, r)))
           /\ Cat(Cat(a, Cat(b, Cat(c, Cat(d, e)))), r)
                 = Cat(a, Cat(b, Cat(c, Cat(d, Cat(e, r)))))
<1>1. Cat(d, e) \in Seq(S) /\ Cat(c, Cat(d, e)) \in Seq(S) /\ Cat(b, c) \in Seq(S)
  BY CatProperties
<1>2. Cat(b, Cat(c, Cat(d, e))) \in Seq(S)
  BY <1>1, CatProperties
<1>3. /\ Cat(Cat(d, e), r) = Cat(d, Cat(e, r))
      /\ Cat(Cat(c, Cat(d, e)), r) = Cat(c, Cat(Cat(d, e), r))
      /\ Cat(Cat(b, c), r) = Cat(b, Cat(c, r))
      /\ Cat(Cat(a, Cat(b, c)), r) = Cat(a, Cat(Cat(b, c), r))
  BY <1>1, CatAssociative
<1>4. /\ Cat(Cat(b, Cat(c, Cat(d, e))), r) = Cat(b, Cat(Cat(c, Cat(d, e)), r))
      /\ Cat(Cat(a, Cat(b, Cat(c, Cat(d, e)))), r) = Cat(a, Cat(Cat(b, Cat(c, Cat(d, e))), r))
  BY <1>1, <1>2, CatAssociative
<1> QED
  BY <1>3, <1>4

\* f is a and the elements of t behind it.
IsFirst(S, a, t, f) ==
    /\ a \in S /\ t \in Seq(S) /\ f \in Seq(S)
    /\ Len(f) = Len(t) + 1
    /\ f[1] = a
    /\ \A i \in 1..Len(t) : f[i+1] = t[i]

\* A sequence in front of another begins with its own first element.
LEMMA FirstInFront ==
    ASSUME NEW S, NEW v \in Seq(S), NEW a, NEW t, NEW f, IsFirst(S, a, t, f)
    PROVE  Cat(f, v) = Cat(<<a>>, Cat(t, v))
<1> DEFINE x == <<a>>
<1>0. a \in S /\ t \in Seq(S) /\ f \in Seq(S)
  BY DEF IsFirst
<1>1. x \in Seq(S) /\ Len(x) = 1 /\ x[1] = a
  BY <1>0
<1> HIDE DEF x
<1>2. /\ Cat(x, t) \in Seq(S) /\ Len(Cat(x, t)) = Len(x) + Len(t)
      /\ \A i \in 1..Len(x)+Len(t) : Cat(x, t)[i] = IF i <= Len(x) THEN x[i] ELSE t[i - Len(x)]
  <2>1. x \in Seq(S) /\ t \in Seq(S)
    BY <1>0, <1>1
  <2> QED
    BY <2>1, CatProperties
<1>3. ASSUME NEW i \in 1..Len(f) PROVE Cat(x, t)[i] = f[i]
  <2>0. Len(t) \in Nat /\ Len(f) = Len(t) + 1 /\ f[1] = a
    BY <1>0 DEF IsFirst
  <2>1. CASE i = 1
    BY <1>1, <1>2, <2>0, <2>1
  <2>2. CASE i # 1
    <3> DEFINE j == i - 1
    <3>1. j \in 1..Len(t) /\ j + 1 = i /\ i \in 1..1+Len(t)
      BY <2>0, <2>2
    <3>2. Cat(x, t)[i] = t[j]
      BY <1>1, <1>2, <2>0, <2>2, <3>1
    <3> HIDE DEF j
    <3> QED
      BY <3>1, <3>2 DEF IsFirst
  <2> QED
    BY <2>1, <2>2
<1>4. Cat(x, t) = f
  <2>1. Len(Cat(x, t)) = Len(f)
    BY <1>0, <1>1, <1>2 DEF IsFirst
  <2> QED
    BY <1>0, <1>2, <1>3, <2>1, SeqEqual
<1>5. Cat(Cat(x, t), v) = Cat(x, Cat(t, v))
  BY <1>0, <1>1, CatAssociative
<1> QED
  BY <1>4, <1>5 DEF x

\* A short sequence in front of another, element by element.
LEMMA TuplesInFront ==
    ASSUME NEW S, NEW v \in Seq(S),
           NEW a \in S, NEW b \in S, NEW c \in S
    PROVE  Cat(<<a, b, c>>, v) = Cat(<<a>>, Cat(<<b>>, Cat(<<c>>, v)))
<1>1. Cat(<<b, c>>, v) = Cat(<<b>>, Cat(<<c>>, v))
  <2> DEFINE f == <<b, c>> t == <<c>>
  <2>1. IsFirst(S, b, t, f)
    BY DEF IsFirst
  <2> HIDE DEF f, t
  <2>2. Cat(f, v) = Cat(<<b>>, Cat(t, v))
    BY <2>1, FirstInFront
  <2> QED
    BY <2>2 DEF f, t
<1>2. Cat(<<a, b, c>>, v) = Cat(<<a>>, Cat(<<b, c>>, v))
  <2> DEFINE f == <<a, b, c>> t == <<b, c>>
  <2>1. IsFirst(S, a, t, f)
    BY DEF IsFirst
  <2> HIDE DEF f, t
  <2>2. Cat(f, v) = Cat(<<a>>, Cat(t, v))
    BY <2>1, FirstInFront
  <2> QED
    BY <2>2 DEF f, t
<1> QED
  BY <1>1, <1>2

\* The same for five elements.
LEMMA LongTuplesInFront ==
    ASSUME NEW S, NEW v \in Seq(S),
           NEW a \in S, NEW b \in S, NEW c \in S, NEW d \in S, NEW e \in S
    PROVE  Cat(<<a, b, c, d, e>>, v)
              = Cat(<<a>>, Cat(<<b>>, Cat(<<c>>, Cat(<<d>>, Cat(<<e>>, v)))))
<1>1. Cat(<<b, c, d, e>>, v) = Cat(<<b>>, Cat(<<c, d, e>>, v))
  <2> DEFINE f == <<b, c, d, e>> t == <<c, d, e>>
  <2>1. IsFirst(S, b, t, f)
    BY DEF IsFirst
  <2> HIDE DEF f, t
  <2>2. Cat(f, v) = Cat(<<b>>, Cat(t, v))
    BY <2>1, FirstInFront
  <2> QED
    BY <2>2 DEF f, t
<1>2. Cat(<<a, b, c, d, e>>, v) = Cat(<<a>>, Cat(<<b, c, d, e>>, v))
  <2> DEFINE f == <<a, b, c, d, e>> t == <<b, c, d, e>>
  <2>1. IsFirst(S, a, t, f)
    BY DEF IsFirst
  <2> HIDE DEF f, t
  <2>2. Cat(f, v) = Cat(<<a>>, Cat(t, v))
    BY <2>1, FirstInFront
  <2> QED
    BY <2>2 DEF f, t
<1>3. Cat(<<c, d, e>>, v) = Cat(<<c>>, Cat(<<d>>, Cat(<<e>>, v)))
  BY TuplesInFront
<1> QED
  BY <1>1, <1>2, <1>3

-----------------------------------------------------------------------------
(* The traversal spells the tree                                           *)

\* w[k] are the tokens that the k-th element of v and those behind it add.
IsText(w, v) ==
    /\ w \in [1..Len(v)+1 -> Seq(Tokens)]
    /\ w[Len(v)+1] = <<>>
    /\ \A k \in 1..Len(v) : w[k] = Text(Spelling, v[k]) \o w[k+1]

\* s are the tokens that the elements of v add to the queue.
HasText(v, s) == \E w : IsText(w, v) /\ s = w[1]

\* What traverseExpr may come to adds tokens.
LEMMA TextType ==
    ASSUME NEW x \in Visitable
    PROVE  Text(Spelling, x) \in Seq(Tokens)
<1>1. CASE x \in Nodes
  BY <1>1, SpellingExists, TextBelow
<1>2. CASE x \in Leaves
  <2>1. x.tid \in LeafClasses /\ x.tok \in Tokens
    BY <1>2 DEF Leaves
  <2> QED
    BY <2>1 DEF Text
<1> QED
  BY <1>1, <1>2 DEF Visitable

\* Nothing left to visit adds no token.
LEMMA TextOfNothing ==
    /\ HasText(<<>>, <<>>)
    /\ \A s : HasText(<<>>, s) => s = <<>>
<1> DEFINE v == <<>>
           w == [k \in 1..1 |-> <<>>]
<1>1. Len(v) + 1 = 1 /\ 1..Len(v) = {}
  OBVIOUS
<1> HIDE DEF v
<1>2. IsText(w, v) /\ w[1] = <<>>
  <2>1. <<>> \in Seq(Tokens)
    OBVIOUS
  <2>2. w \in [1..1 -> Seq(Tokens)] /\ w[1] = <<>>
    BY <2>1
  <2> HIDE DEF w
  <2> QED
    BY <1>1, <2>2 DEF IsText
<1> HIDE DEF w
<1>3. HasText(v, <<>>)
  BY <1>2 DEF HasText
<1>4. \A s : HasText(v, s) => s = <<>>
  BY <1>1 DEF HasText, IsText
<1> QED
  BY <1>3, <1>4 DEF v

\* What is left to visit adds tokens only.
LEMMA TextIsTokens ==
    ASSUME NEW S, NEW v \in Seq(S), NEW s, HasText(v, s)
    PROVE  s \in Seq(Tokens)
<1>1. PICK w : IsText(w, v) /\ s = w[1]
  BY DEF HasText
<1>2. 1 \in 1..Len(v)+1
  OBVIOUS
<1> QED
  BY <1>1, <1>2 DEF IsText

\* One more element in front.
LEMMA TextPrepend ==
    ASSUME NEW S, NEW v \in Seq(S), NEW x \in S, Text(Spelling, x) \in Seq(Tokens),
           NEW s, HasText(v, s)
    PROVE  HasText(<<x>> \o v, Text(Spelling, x) \o s) /\ <<x>> \o v \in Seq(S)
<1>1. PICK w : IsText(w, v) /\ s = w[1]
  BY DEF HasText
<1> DEFINE n == Len(v)
           u == <<x>> \o v
           c == Text(Spelling, x)
           z == [k \in 1..n+2 |-> IF k = 1 THEN c \o s ELSE w[k-1]]
<1>2. /\ n \in Nat /\ Len(u) = n + 1 /\ u[1] = x /\ \A k \in 1..n : u[k+1] = v[k]
      /\ u \in Seq(S)
  OBVIOUS
<1>3. /\ w \in [1..n+1 -> Seq(Tokens)] /\ w[n+1] = <<>>
      /\ \A k \in 1..n : w[k] = Text(Spelling, v[k]) \o w[k+1]
  BY <1>1 DEF IsText
<1>4. s \in Seq(Tokens) /\ c \in Seq(Tokens) /\ c \o s \in Seq(Tokens)
  <2>1. s \in Seq(Tokens)
    BY TextIsTokens
  <2> HIDE DEF c
  <2>2. c \in Seq(Tokens)
    BY DEF c
  <2> QED
    BY <2>1, <2>2
<1> HIDE DEF n, u, c
<1>5. z \in [1..n+2 -> Seq(Tokens)] /\ z[1] = c \o s /\ \A k \in 2..n+2 : z[k] = w[k-1]
  <2>1. \A k \in 2..n+2 : k - 1 \in 1..n+1
    BY <1>2
  <2> QED
    BY <1>2, <1>3, <1>4, <2>1
<1> HIDE DEF z
<1>6. Len(u) + 1 = n + 2 /\ z[n + 2] = <<>>
  <2>1. n + 2 \in 2..n+2 /\ (n + 2) - 1 = n + 1
    BY <1>2
  <2> QED
    BY <1>2, <1>3, <1>5, <2>1
<1>7. ASSUME NEW k \in 1..n+1 PROVE z[k] = Text(Spelling, u[k]) \o z[k+1]
  <2>1. k + 1 \in 2..n+2 /\ (k + 1) - 1 = k
    BY <1>2
  <2>2. z[k+1] = w[k]
    BY <1>5, <2>1
  <2>3. CASE k = 1
    BY <1>1, <1>2, <1>5, <2>2, <2>3 DEF c
  <2>4. CASE k # 1
    <3> DEFINE j == k - 1
    <3>1. j \in 1..n /\ j + 1 = k /\ k \in 2..n+2
      BY <1>2, <2>4
    <3>2. u[j+1] = v[j] /\ w[j] = Text(Spelling, v[j]) \o w[j+1]
      BY <1>2, <1>3, <3>1
    <3>3. z[k] = w[j]
      BY <1>5, <3>1
    <3> HIDE DEF j
    <3> QED
      BY <2>2, <3>1, <3>2, <3>3
  <2> QED
    BY <2>3, <2>4
<1>8. IsText(z, u)
  BY <1>2, <1>5, <1>6, <1>7 DEF IsText
<1>9. HasText(u, c \o s)
  BY <1>5, <1>8 DEF HasText
<1> QED
  BY <1>2, <1>9 DEF u, c

\* The first element taken away.
LEMMA TextBehead ==
    ASSUME NEW S, NEW v \in Seq(S), v # <<>>, NEW s, HasText(v, s)
    PROVE  \E r : s = Text(Spelling, Head(v)) \o r /\ HasText(Tail(v), r)
<1>1. PICK w : IsText(w, v) /\ s = w[1]
  BY DEF HasText
<1> DEFINE n == Len(v)
           u == Tail(v)
           z == [k \in 1..n |-> w[k+1]]
<1>2. /\ n \in Nat /\ n >= 1 /\ Len(u) = n - 1 /\ Head(v) = v[1]
      /\ \A k \in 1..n-1 : u[k] = v[k+1]
  BY HeadTailProperties
<1>3. /\ w \in [1..n+1 -> Seq(Tokens)] /\ w[n+1] = <<>>
      /\ \A k \in 1..n : w[k] = Text(Spelling, v[k]) \o w[k+1]
  BY <1>1 DEF IsText
<1> HIDE DEF n, u
<1>4. z \in [1..n -> Seq(Tokens)] /\ \A k \in 1..n : z[k] = w[k+1]
  <2>1. \A k \in 1..n : k + 1 \in 1..n+1
    BY <1>2
  <2> QED
    BY <1>3, <2>1
<1> HIDE DEF z
<1>5. Len(u) + 1 = n /\ z[n] = <<>>
  <2>1. n \in 1..n /\ Len(u) + 1 = n
    BY <1>2
  <2> QED
    BY <1>3, <1>4, <2>1
<1>6. ASSUME NEW k \in 1..Len(u) PROVE z[k] = Text(Spelling, u[k]) \o z[k+1]
  <2>1. k \in 1..n-1 /\ k \in 1..n /\ k + 1 \in 1..n
    BY <1>2
  <2>2. z[k] = w[k+1] /\ z[k+1] = w[k+1+1] /\ u[k] = v[k+1]
    BY <1>2, <1>4, <2>1
  <2> QED
    BY <1>3, <2>1, <2>2
<1>7. IsText(z, u)
  BY <1>4, <1>5, <1>6 DEF IsText
<1>8. HasText(u, z[1])
  BY <1>7 DEF HasText
<1>9. s = Text(Spelling, Head(v)) \o z[1]
  <2>1. 1 \in 1..n
    BY <1>2
  <2>2. w[1] = Text(Spelling, v[1]) \o w[1+1] /\ z[1] = w[1+1]
    BY <1>3, <1>4, <2>1
  <2> QED
    BY <1>1, <1>2, <2>2
<1> QED
  BY <1>8, <1>9 DEF u

\* A binary operator is spelled between its operands.
LEMMA BinarySpelling ==
    ASSUME NEW h \in Nodes, NEW k, NEW o, NEW l, BinaryNode(h, k, o, l)
    PROVE  Spelling[h] = Cat(Spelling[k], Cat(<<o.tok>>, Spelling[l]))
<1>1. /\ Spelling[h] = SpellingOf(Spelling, h)
      /\ Text(Spelling, k) = Spelling[k] /\ Text(Spelling, l) = Spelling[l]
  BY SpellingExists DEF BinaryNode, IsBelow
<1>2. SpellingOf(Spelling, h) = Text(Spelling, k) \o (<<o.tok>> \o Text(Spelling, l))
  BY SpellingShapes
<1> QED
  BY <1>1, <1>2 DEF Cat

\* What a node visits adds the tokens of the node.
LEMMA TextVisit ==
    ASSUME NEW h \in Nodes, h.tid \notin LeafClasses,
           NEW v \in Seq(Visitable), NEW r, HasText(v, r)
    PROVE  HasText(Visits(h) \o v, Spelling[h] \o r)
<1> DEFINE S == Visitable \cup {x \in {Visits(h)[k] : k \in 1..5} : x.tid \in LeafClasses}
           A == Seq(Tokens)
<1>1. r \in A /\ v \in Seq(S)
  BY TextIsTokens
<1>2. "(" \in Tokens /\ ")" \in Tokens /\ "0" \in Tokens /\ Opt \subseteq Tokens
  BY NodesAssumption DEF Tokens
<1>3. \A t \in Tokens : /\ Pushed(t) \in S /\ <<t>> \in A
                        /\ Text(Spelling, Pushed(t)) = <<t>>
  <2> TAKE t \in Tokens
  <2>1. Pushed(t) \in Visitable
    BY PushedFacts
  <2>2. Text(Spelling, Pushed(t)) = <<t>>
    BY DEF Text, Pushed, Leaf, LeafClasses
  <2> QED
    BY <2>1, <2>2
<1>4. \A k : IsBelow(h, k) => k \in S /\ Text(Spelling, k) = Spelling[k] /\ Spelling[k] \in A
  BY SpellingExists, NodeFacts DEF IsBelow
<1>5. Spelling[h] = SpellingOf(Spelling, h)
  BY SpellingExists
<1>6. \A k \in 1..5 : Visits(h)[k].tid \in LeafClasses => Visits(h)[k] \in S
  OBVIOUS
<1>7. ASSUME NEW x \in S, NEW u \in Seq(S), NEW s, Text(Spelling, x) \in A, HasText(u, s)
      PROVE  HasText(Cat(<<x>>, u), Cat(Text(Spelling, x), s)) /\ Cat(<<x>>, u) \in Seq(S)
  <2> HIDE DEF S
  <2> QED
    BY <1>7, TextPrepend DEF Cat
<1> SUFFICES HasText(Cat(Visits(h), v), Cat(Spelling[h], r))
  BY DEF Cat
<1> HIDE DEF S
<1>8. CASE VariableNode(h)
  <2>1. Visits(h) = <<>> /\ Spelling[h] = <<>>
    BY <1>5, <1>8, SpellingShapes DEF VariableNode
  <2>2. <<>> \o v = v /\ <<>> \o r = r
    BY <1>1, ConcatEmptySeq
  <2> QED
    BY <2>1, <2>2 DEF Cat
<1> HIDE DEF A
<1>9. ASSUME NEW k, LevelNode(h, k) PROVE HasText(Cat(Visits(h), v), Cat(Spelling[h], r))
  <2>1. IsBelow(h, k) /\ Visits(h) = <<k>> /\ Spelling[h] = Text(Spelling, k)
    BY <1>5, <1>9, SpellingShapes DEF LevelNode
  <2> QED
    BY <1>1, <1>4, <1>7, <2>1
<1>10. ASSUME NEW k, ParenNode(h, k) PROVE HasText(Cat(Visits(h), v), Cat(Spelling[h], r))
  <2> DEFINE p == Pushed("(") q == Pushed(")") a == <<"(">> b == <<")">> s == Spelling[k]
  <2>1. IsBelow(h, k) /\ Visits(h) = <<p, k, q>>
    BY <1>10 DEF ParenNode
  <2>2. /\ p \in S /\ q \in S /\ k \in S /\ a \in A /\ b \in A /\ s \in A
        /\ Text(Spelling, p) = a /\ Text(Spelling, q) = b /\ Text(Spelling, k) = s
    BY <1>2, <1>3, <1>4, <2>1
  <2>3. Spelling[h] = Cat(a, Cat(s, b))
    <3>1. Spelling[h] = <<"(">> \o (Text(Spelling, k) \o <<")">>)
      BY <1>5, <1>10, SpellingShapes
    <3> QED
      BY <2>2, <3>1 DEF Cat
  <2> HIDE DEF p, q, a, b, s
  <2>4. HasText(Cat(<<q>>, v), Cat(b, r)) /\ Cat(<<q>>, v) \in Seq(S)
    BY <1>1, <1>7, <2>2
  <2>5. /\ HasText(Cat(<<k>>, Cat(<<q>>, v)), Cat(s, Cat(b, r)))
        /\ Cat(<<k>>, Cat(<<q>>, v)) \in Seq(S)
    BY <1>7, <2>2, <2>4
  <2>6. HasText(Cat(<<p>>, Cat(<<k>>, Cat(<<q>>, v))), Cat(a, Cat(s, Cat(b, r))))
    BY <1>7, <2>2, <2>5
  <2>7. Cat(<<p, k, q>>, v) = Cat(<<p>>, Cat(<<k>>, Cat(<<q>>, v)))
    BY <1>1, <2>2, TuplesInFront
  <2>8. Cat(Cat(a, Cat(s, b)), r) = Cat(a, Cat(s, Cat(b, r)))
    BY <1>1, <2>2, CatNested DEF A
  <2> QED
    BY <2>1, <2>3, <2>6, <2>7, <2>8
<1>11. ASSUME NEW o, NEW k, UnaryNode(h, o, k)
       PROVE  HasText(Cat(Visits(h), v), Cat(Spelling[h], r))
  <2> DEFINE p == Pushed("(") q == Pushed(")") n == Pushed("0")
             a == <<"(">> b == <<")">> z == <<"0">> c == <<o.tok>> s == Spelling[k]
  <2>1. /\ IsBelow(h, k) /\ Visits(h) = <<p, n, o, k, q>>
        /\ o.tid \in LeafClasses /\ o.tok \in Tokens
    BY <1>2, <1>11 DEF UnaryNode
  <2>2. o \in S /\ c \in A /\ Text(Spelling, o) = c
    <3>1. o = Visits(h)[3]
      BY <2>1
    <3>2. o \in S
      BY <1>6, <2>1, <3>1
    <3> QED
      BY <2>1, <3>2 DEF A, Text
  <2>3. /\ p \in S /\ q \in S /\ n \in S /\ k \in S
        /\ a \in A /\ b \in A /\ z \in A /\ s \in A
        /\ Text(Spelling, p) = a /\ Text(Spelling, q) = b /\ Text(Spelling, k) = s
        /\ Text(Spelling, n) = z
    BY <1>2, <1>3, <1>4, <2>1
  <2>4. Spelling[h] = Cat(a, Cat(z, Cat(c, Cat(s, b))))
    <3>1. Spelling[h] = <<"(">> \o (<<"0">> \o (<<o.tok>> \o (Text(Spelling, k) \o <<")">>)))
      BY <1>5, <1>11, SpellingShapes
    <3> QED
      BY <2>3, <3>1 DEF Cat
  <2> HIDE DEF p, q, n, a, b, z, c, s
  <2> DEFINE v1 == Cat(<<q>>, v)  v2 == Cat(<<k>>, v1)  v3 == Cat(<<o>>, v2)
             v4 == Cat(<<n>>, v3)
             r1 == Cat(b, r)  r2 == Cat(s, r1)  r3 == Cat(c, r2)  r4 == Cat(z, r3)
  <2>5. HasText(v1, r1) /\ v1 \in Seq(S)
    BY <1>1, <1>7, <2>3
  <2>6. HasText(v2, r2) /\ v2 \in Seq(S)
    <3> HIDE DEF v1, r1
    <3> QED
      BY <1>7, <2>3, <2>5
  <2>7. HasText(v3, r3) /\ v3 \in Seq(S)
    <3> HIDE DEF v2, r2
    <3> QED
      BY <1>7, <2>2, <2>6
  <2>8. HasText(v4, r4) /\ v4 \in Seq(S)
    <3> HIDE DEF v3, r3
    <3> QED
      BY <1>7, <2>3, <2>7
  <2>9. HasText(Cat(<<p>>, v4), Cat(a, r4))
    <3> HIDE DEF v4, r4
    <3> QED
      BY <1>7, <2>3, <2>8
  <2>10. Cat(<<p, n, o, k, q>>, v) = Cat(<<p>>, v4)
    BY <1>1, <2>2, <2>3, LongTuplesInFront
  <2>11. Cat(Cat(a, Cat(z, Cat(c, Cat(s, b)))), r) = Cat(a, r4)
    BY <1>1, <2>2, <2>3, CatNested DEF A
  <2> QED
    BY <2>1, <2>4, <2>9, <2>10, <2>11
<1>12. ASSUME NEW k, NEW o, NEW l, BinaryNode(h, k, o, l)
       PROVE  HasText(Cat(Visits(h), v), Cat(Spelling[h], r))
  <2> DEFINE c == <<o.tok>> s == Spelling[k] t == Spelling[l]
  <2>1. /\ IsBelow(h, k) /\ IsBelow(h, l) /\ Visits(h) = <<k, o, l>>
        /\ o.tid \in LeafClasses /\ o.tok \in Tokens
    BY <1>2, <1>12 DEF BinaryNode
  <2>2. o \in S /\ c \in A /\ Text(Spelling, o) = c
    <3>1. o = Visits(h)[2]
      BY <2>1
    <3>2. o \in S
      BY <1>6, <2>1, <3>1
    <3> QED
      BY <2>1, <3>2 DEF A, Text
  <2>3. /\ k \in S /\ l \in S /\ s \in A /\ t \in A
        /\ Text(Spelling, k) = s /\ Text(Spelling, l) = t
    BY <1>4, <2>1
  <2>4. Spelling[h] = Cat(s, Cat(c, t))
    BY <1>12, BinarySpelling
  <2> HIDE DEF c, s, t
  <2>5. HasText(Cat(<<l>>, v), Cat(t, r)) /\ Cat(<<l>>, v) \in Seq(S)
    BY <1>1, <1>7, <2>3
  <2>6. /\ HasText(Cat(<<o>>, Cat(<<l>>, v)), Cat(c, Cat(t, r)))
        /\ Cat(<<o>>, Cat(<<l>>, v)) \in Seq(S)
    BY <1>7, <2>2, <2>5
  <2>7. HasText(Cat(<<k>>, Cat(<<o>>, Cat(<<l>>, v))), Cat(s, Cat(c, Cat(t, r))))
    BY <1>7, <2>3, <2>6
  <2>8. Cat(<<k, o, l>>, v) = Cat(<<k>>, Cat(<<o>>, Cat(<<l>>, v)))
    BY <1>1, <2>2, <2>3, TuplesInFront
  <2>9. Cat(Cat(s, Cat(c, t)), r) = Cat(s, Cat(c, Cat(t, r)))
    BY <1>1, <2>2, <2>3, CatNested DEF A
  <2> QED
    BY <2>1, <2>4, <2>7, <2>8, <2>9
<1>13. ~LiteralNode(h)
  BY DEF LiteralNode, LeafClasses
<1> QED
  BY <1>8, <1>9, <1>10, <1>11, <1>12, <1>13, NodeShapes

-----------------------------------------------------------------------------
(* The constructor                                                         *)

\* The return instruction, and a division without a result, are what the tree means.
EndsAsMeant(expr) ==
    ~NamesVariable(expr) =>
        /\ pc = "done" => <<"val", instructions[1][2]>> \in MeaningOf(expr)
        /\ pc \in {"abort", "trap"} => <<pc, 0>> \in MeaningOf(expr)

\* What has been pushed and what is still to push spell the tree, and the folder
\* works on the tree's spelling.
MeaningInv ==
    HasStatement =>
        /\ pc = "traverse" =>
              \E s : HasText(to_visit, s) /\ Cat(mid_op_stk, s) = Spelling[block.stmt.expr]
        /\ pc \notin {"block", "traverse"} => mid_op_stk = Spelling[block.stmt.expr]
        /\ pc \in {"scan", "eval", "val"} => FoldInv
        /\ EndsAsMeant(block.stmt.expr)

\* The folder begins with its invariant, in the next state too.
LEMMA FoldBegins == EvalBegins => FoldInv
BY FoldInvInit

\* The outcome of the folder is one of the tree's.
LEMMA OutcomeIsMeant ==
    ASSUME BlockInv, HasStatement, pc \notin {"block", "traverse"},
           mid_op_stk = Spelling[block.stmt.expr], FoldInv, Over
    PROVE  ~NamesVariable(block.stmt.expr) => outcome \in MeaningOf(block.stmt.expr)
<1> SUFFICES ASSUME ~NamesVariable(block.stmt.expr)
             PROVE  outcome \in MeaningOf(block.stmt.expr)
  OBVIOUS
<1>1. block.stmt.expr \in Nodes
  BY NodesAssumption DEF BlockInv, AreNodesOf, HasStatement
<1>2. WellFormed(mid_op_stk)
  BY DEF BlockInv, QueueInv, Matches
<1>3. outcome \in Table!Outcomes(mid_op_stk)
  BY <1>2 DEF FoldInv
<1> QED
  BY <1>1, <1>2, <1>3, SpellingMeans

\* Every step of the constructor keeps MeaningInv.
LEMMA MeaningStep ==
    ASSUME BlockInv, BlockInv', MeaningInv, Next
    PROVE  MeaningInv'
<1>0. block' = block
  BY QueueStep DEF BlockInv, BlockTypeInv
<1> SUFFICES ASSUME HasStatement PROVE MeaningInv'
  BY <1>0 DEF MeaningInv, HasStatement
<1> DEFINE e == block.stmt.expr
<1>1. e \in Nodes
  BY NodesAssumption DEF BlockInv, AreNodesOf, HasStatement
<1>2. Spelling[e] \in Seq(Tokens)
  BY <1>1, SpellingExists
<1> HIDE DEF e
<1>3. CASE TakeStatement
  <2>1. /\ pc' = "traverse" /\ to_visit' = <<e>> /\ mid_op_stk' = <<>>
    BY <1>3 DEF TakeStatement, HasStatement, BlockInv, QueueInv, e
  <2>2. HasText(<<e>> \o <<>>, Text(Spelling, e) \o <<>>)
    <3>1. HasText(<<>>, <<>>) /\ <<>> \in Seq(Nodes) /\ Text(Spelling, e) \in Seq(Tokens)
      BY <1>1, <1>2, TextOfNothing, TextBelow
    <3> QED
      BY <1>1, <3>1, TextPrepend
  <2>3. <<e>> \o <<>> = <<e>> /\ Text(Spelling, e) \o <<>> = Spelling[e]
    <3>1. <<e>> \in Seq(Nodes) /\ Text(Spelling, e) = Spelling[e]
      BY <1>1, SpellingExists
    <3> QED
      BY <1>2, <3>1, ConcatEmptySeq
  <2>4. Cat(<<>>, Spelling[e]) = Spelling[e]
    BY <1>2, ConcatEmptySeq DEF Cat
  <2> QED
    BY <1>0, <2>1, <2>2, <2>3, <2>4 DEF MeaningInv, EndsAsMeant, e
<1>4. CASE PushToken
  <2> DEFINE x == Head(to_visit)
  <2>1. /\ pc = "traverse" /\ pc' = "traverse" /\ to_visit # <<>> /\ x.tid \in LeafClasses
        /\ mid_op_stk' = Append(mid_op_stk, x.tok) /\ to_visit' = Tail(to_visit)
    BY <1>4 DEF PushToken
  <2>2. mid_op_stk \in Seq(Tokens) /\ to_visit \in Seq(Visitable) /\ mid_op_stk' \in Seq(Tokens)
    BY <2>1 DEF BlockInv, QueueInv
  <2>3. PICK s : HasText(to_visit, s) /\ Cat(mid_op_stk, s) = Spelling[e]
    BY <2>1 DEF MeaningInv, e
  <2>4. PICK r : s = Text(Spelling, x) \o r /\ HasText(to_visit', r)
    BY <2>1, <2>2, <2>3, TextBehead
  <2> DEFINE t == <<x.tok>>
  <2>5. s = Cat(t, r)
    BY <2>1, <2>4 DEF Text, Cat
  <2>6. x.tok \in Tokens /\ t \in Seq(Tokens)
    <3>1. x \in Visitable
      BY <2>1, <2>2, HeadTailProperties
    <3>2. x.tok \in Tokens
      BY <2>1, <3>1, NodeFacts DEF Visitable, Leaves, Tokens
    <3> QED
      BY <3>2
  <2>7. mid_op_stk' = Cat(mid_op_stk, t)
    BY <2>1, <2>2, <2>6, AppendIsConcat DEF Cat
  <2>8. r \in Seq(Tokens)
    <3>1. to_visit' \in Seq(Visitable)
      BY <2>1, <2>2, HeadTailProperties
    <3> QED
      BY <2>4, <3>1, TextIsTokens
  <2> HIDE DEF t, x
  <2>9. Cat(mid_op_stk', r) = Spelling[e]
    BY <2>2, <2>3, <2>5, <2>6, <2>7, <2>8, CatAssociative
  <2> QED
    BY <1>0, <2>1, <2>4, <2>9 DEF MeaningInv, EndsAsMeant, e
<1>5. CASE VisitNode
  <2> DEFINE x == Head(to_visit)
  <2>1. /\ pc = "traverse" /\ pc' = "traverse" /\ to_visit # <<>> /\ x.tid \notin LeafClasses
        /\ mid_op_stk' = mid_op_stk /\ to_visit' = Visits(x) \o Tail(to_visit)
    BY <1>5 DEF VisitNode, convertVars
  <2>2. to_visit \in Seq(Visitable)
    BY <2>1 DEF BlockInv, QueueInv
  <2>3. PICK s : HasText(to_visit, s) /\ Cat(mid_op_stk, s) = Spelling[e]
    BY <2>1 DEF MeaningInv, e
  <2>4. PICK r : s = Text(Spelling, x) \o r /\ HasText(Tail(to_visit), r)
    BY <2>1, <2>2, <2>3, TextBehead
  <2>5. x \in Nodes /\ Tail(to_visit) \in Seq(Visitable)
    <3>1. x \in Visitable /\ Tail(to_visit) \in Seq(Visitable)
      BY <2>1, <2>2, HeadTailProperties
    <3> QED
      BY <2>1, <3>1 DEF Visitable, Leaves
  <2>6. s = Spelling[x] \o r
    BY <2>1, <2>4 DEF Text
  <2> HIDE DEF x
  <2>7. HasText(to_visit', s)
    BY <2>1, <2>4, <2>5, <2>6, TextVisit
  <2> QED
    BY <1>0, <2>1, <2>3, <2>7 DEF MeaningInv, EndsAsMeant, e
<1>6. CASE StartFolding
  <2>1. /\ pc = "traverse" /\ pc' = "scan" /\ to_visit = <<>>
        /\ mid_op_stk' = mid_op_stk /\ tmp_opt_stk' = <<"#">>
        /\ token' = 1 /\ rpn' = 1 /\ rpn_op_stk' = <<>> /\ opof' = <<>> /\ const_expr' = <<>>
    BY <1>6 DEF StartFolding, evalVars, BlockInv, BlockTypeInv, QueueInv, BlockTypeOK
  <2>2. mid_op_stk \in Seq(Tokens)
    BY <2>1 DEF BlockInv, QueueInv
  <2>3. mid_op_stk = Spelling[e]
    <3>1. PICK s : HasText(to_visit, s) /\ Cat(mid_op_stk, s) = Spelling[e]
      BY <2>1 DEF MeaningInv, e
    <3>2. s = <<>>
      BY <2>1, <3>1, TextOfNothing
    <3>3. Cat(mid_op_stk, <<>>) = mid_op_stk
      BY <2>2, ConcatEmptySeq DEF Cat
    <3> QED
      BY <3>1, <3>2, <3>3
  <2>4. mid_op_stk \in Seq(Token)
    BY <2>2, TokenAssumption DEF Tokens
  <2>5. EvalBegins'
    BY <2>1, <2>4 DEF EvalBegins, ConvertBegins
  <2>6. FoldInv'
    BY <2>5, FoldBegins, PTL
  <2> QED
    BY <1>0, <2>1, <2>3, <2>6 DEF MeaningInv, EndsAsMeant, e
<1>7. CASE FoldStep
  <2>1. EvalNext /\ mid_op_stk' = mid_op_stk /\ pc \in {"scan", "eval"}
    BY <1>7, FoldKeepsQueue DEF FoldStep
  <2>2. EvalTypeOK /\ EvalInv /\ BalancedInv /\ FoldInv /\ mid_op_stk = Spelling[e]
    BY <2>1 DEF BlockInv, QueueInv, MeaningInv, e
  <2>3. EvalTypeOK' /\ EvalInv'
    BY <2>1, <2>2, EvalTypeStep, EvalInvStep
  <2>4. FoldInv'
    BY <2>1, <2>2, <2>3, FoldInvStep
  <2>5. pc' \in {"scan", "eval", "val", "abort", "trap", "undefined"}
    BY <2>3 DEF EvalTypeOK
  <2>6. pc' \in {"abort", "trap"} /\ ~NamesVariable(e) => <<pc', 0>> \in MeaningOf(e)
    <3> SUFFICES ASSUME pc' \in {"abort", "trap"}, ~NamesVariable(e)
                 PROVE  <<pc', 0>> \in MeaningOf(e)
      OBVIOUS
    <3>1. WellFormed(mid_op_stk)
      BY <2>1 DEF BlockInv, QueueInv, Matches, e
    <3>2. outcome' = <<pc', 0>> /\ Over'
      BY DEF outcome, Over
    <3>3. <<pc', 0>> \in Table!Outcomes(mid_op_stk)
      BY <2>1, <2>4, <3>1, <3>2 DEF FoldInv
    <3> QED
      BY <1>1, <2>2, <3>1, <3>3, SpellingMeans
  <2> QED
    BY <1>0, <2>1, <2>2, <2>4, <2>5, <2>6 DEF MeaningInv, EndsAsMeant, e
<1>8. CASE PushVal
  <2>1. /\ pc = "val" /\ mid_op_stk' = mid_op_stk
        /\ \/ /\ instructions' = Append(instructions, <<"ret", const_expr[1]>>)
              /\ pc' = "done"
           \/ pc' = "undefined"
    BY <1>8 DEF PushVal
  <2>2. FoldInv /\ mid_op_stk = Spelling[e] /\ instructions = <<>>
    BY <2>1 DEF BlockInv, BlockTypeInv, BlockTypeOK, MeaningInv, e
  <2>3. ~NamesVariable(e) => <<"val", const_expr[1]>> \in MeaningOf(e)
    <3>1. ~NamesVariable(e) => outcome \in MeaningOf(e)
      BY <2>1, <2>2, OutcomeIsMeant DEF Over, e
    <3>2. outcome = <<"val", const_expr[1]>>
      BY <2>1 DEF outcome, Over
    <3> QED
      BY <3>1, <3>2
  <2>4. pc' = "done" => instructions'[1][2] = const_expr[1]
    <3>1. Append(<<>>, <<"ret", const_expr[1]>>)[1] = <<"ret", const_expr[1]>>
      OBVIOUS
    <3> QED
      BY <2>1, <2>2, <3>1
  <2> QED
    BY <1>0, <2>1, <2>2, <2>3, <2>4 DEF MeaningInv, EndsAsMeant, e
<1> QED
  BY <1>3, <1>4, <1>5, <1>6, <1>7, <1>8 DEF Next

\* The value is the one the tree means, whoever takes the constructor's steps.
LEMMA BlockSafetyMeaning == BlockSafety => []FoldMeansExpression
<1>1. Init => MeaningInv
  BY DEF Init, MeaningInv, EndsAsMeant
<1>2. BlockInv /\ BlockInv' /\ MeaningInv /\ [Next \/ Constructed]_vars => MeaningInv'
  <2> SUFFICES ASSUME BlockInv, BlockInv', MeaningInv, [Next \/ Constructed]_vars
               PROVE  MeaningInv'
    OBVIOUS
  <2>1. CASE Next
    BY <2>1, MeaningStep
  <2>2. CASE UNCHANGED vars
    <3>1. UNCHANGED <<mid_op_stk, token, tmp_opt_stk, rpn_op_stk, pc, opof, rpn, const_expr,
                      block, to_visit, instructions>>
      BY <2>2 DEF vars, folderVars, convertVars, evalVars, blockVars
    <3>2. FoldInv => FoldInv'
      BY <3>1 DEF FoldInv, ScanGroups, StackMatches, outcome, Over
    <3> QED
      BY <3>1, <3>2 DEF MeaningInv, EndsAsMeant, HasStatement
  <2> QED
    BY <2>1, <2>2 DEF Constructed
<1>3. BlockInv /\ MeaningInv => FoldMeansExpression
  <2> SUFFICES ASSUME BlockInv, MeaningInv, HasStatement PROVE FoldMeansExpression
    BY DEF FoldMeansExpression
  <2>1. pc = "done" => ~NamesVariable(block.stmt.expr)
    BY DEF BlockInv, QueueInv, ReturnsConstantsOnly
  <2> QED
    BY <2>1 DEF MeaningInv, EndsAsMeant, FoldMeansExpression
<1> QED
  BY <1>1, <1>2, <1>3, BlockSafetyInvariant, PTL DEF BlockSafety

\* The constant of the return instruction, and a division without a result, are
\* what the tree of the expression means, for every tree.
THEOREM BlockFoldMeansExpression == Spec => []FoldMeansExpression
BY BlockSafetyMeaning, PTL DEF Spec

-----------------------------------------------------------------------------
(***************************************************************************)
(* Proofs about Compiler, for every program and any number of calls: what  *)
(* a client that keeps to main's order can meet, what it is that makes a   *)
(* pass read an object that was moved away, and that what the passes print *)
(* is the value of the expression, in any order of the calls.              *)
(***************************************************************************)
\* The calls a client has.
ClientCalls == {"log AST", "build IR", "log IR", "build asm", "log asm"}

\* The client has made the call c, and has made it twice.
Made(c) == \E i \in DOMAIN called : called[i] = c
MadeTwice(c) == \E i, j \in DOMAIN called : i < j /\ called[i] = c /\ called[j] = c

\* The inductive invariant: whatever is missing in an object was taken by a call
\* that the client has made, and what stops a run was missing.
CompilerInv ==
    /\ called \in Seq(ClientCalls)
    /\ func_def = Null => Made("build IR")
    /\ fn # <<>> => fn[1].ir # Null \/ Made("build asm")
    /\ gen # <<>> => gen[1].ir # Null \/ MadeTwice("build asm")
    /\ status = "abort" => pc = "abort" \/ MadeTwice("build IR")
    /\ status = "null read" => ~InOrder

-----------------------------------------------------------------------------
\* A call comes after all calls before it: those stay made, what is made again
\* is made twice, and an order that was not kept stays so.
LEMMA CallFacts ==
    ASSUME CompilerInv, NEW c \in ClientCalls, Call(c)
    PROVE  /\ called' \in Seq(ClientCalls)
           /\ Made(c)'
           /\ \A d : /\ Made(d) => Made(d)'
                     /\ MadeTwice(d) => MadeTwice(d)'
           /\ Made(c) => MadeTwice(c)'
           /\ ~InOrder => ~InOrder'
           /\ Made("build IR") /\ c = "log AST" => ~InOrder'
           /\ Made("build asm") /\ c = "log IR" => ~InOrder'
<1> DEFINE n == Len(called)
<1>1. /\ called \in Seq(ClientCalls)
      /\ called' = Append(called, c)
  BY DEF CompilerInv, Call
<1>2. /\ called' \in Seq(ClientCalls) /\ n \in Nat
      /\ DOMAIN called = 1..n /\ DOMAIN called' = 1..n+1
      /\ called'[n+1] = c /\ \A i \in 1..n : called'[i] = called[i]
  BY <1>1
<1> HIDE DEF n
<1>3. Made(c)'
  <2>1. n + 1 \in DOMAIN called'
    BY <1>2
  <2> QED
    BY <1>2, <2>1 DEF Made
<1>4. ASSUME NEW d, Made(d) PROVE Made(d)'
  <2>1. PICK i \in 1..n : called[i] = d
    BY <1>2, <1>4 DEF Made
  <2>2. i \in DOMAIN called' /\ called'[i] = d
    BY <1>2, <2>1
  <2> QED
    BY <2>2 DEF Made
<1>5. ASSUME NEW d, MadeTwice(d) PROVE MadeTwice(d)'
  <2>1. PICK i \in 1..n, j \in 1..n : i < j /\ called[i] = d /\ called[j] = d
    BY <1>2, <1>5 DEF MadeTwice
  <2>2. {i, j} \subseteq DOMAIN called' /\ called'[i] = d /\ called'[j] = d
    BY <1>2, <2>1
  <2> QED
    BY <2>1, <2>2 DEF MadeTwice
<1>6. ASSUME NEW d, Made(d) PROVE \E i \in DOMAIN called' : called'[i] = d /\ i < n + 1
  <2>1. PICK i \in 1..n : called[i] = d
    BY <1>2, <1>6 DEF Made
  <2>2. i \in DOMAIN called' /\ called'[i] = d /\ i < n + 1
    BY <1>2, <2>1
  <2> QED
    BY <2>2
<1>7. n + 1 \in DOMAIN called' /\ called'[n+1] = c
  BY <1>2
<1>8. Made(c) => MadeTwice(c)'
  BY <1>6, <1>7 DEF MadeTwice
<1>9. InOrder' => InOrder
  <2>1. ASSUME NEW i \in DOMAIN called PROVE i \in DOMAIN called' /\ called'[i] = called[i]
    BY <1>2
  <2> QED
    BY <2>1 DEF InOrder
<1>10. Made("build IR") /\ c = "log AST" => ~InOrder'
  BY <1>6, <1>7 DEF InOrder
<1>11. Made("build asm") /\ c = "log IR" => ~InOrder'
  BY <1>6, <1>7 DEF InOrder
<1> QED
  BY <1>2, <1>3, <1>4, <1>5, <1>8, <1>9, <1>10, <1>11

\* Building twice is not in main's order.
LEMMA TwiceIsOutOfOrder ==
    MadeTwice("build IR") \/ MadeTwice("build asm") => ~InOrder
BY DEF MadeTwice, InOrder

\* Every step keeps the invariant.
LEMMA CompilerStep ==
    ASSUME CompilerInv, [CompilerNext \/ Stopped]_<<vars, compilerVars>>
    PROVE  CompilerInv'
<1>1. CASE LogAST
  <2>1. Call("log AST") /\ pc' = pc /\ UNCHANGED <<func_def, fn, gen>>
    BY <1>1 DEF LogAST, vars, folderVars, convertVars
  <2>2. CASE func_def # Null
    <3>1. status' = status /\ status = "ready"
      BY <1>1, <2>2 DEF LogAST, Prints, Call
    <3> QED
      BY <2>1, <2>2, <3>1, CallFacts DEF CompilerInv, ClientCalls
  <2>3. CASE func_def = Null
    <3>1. status' = "null read" /\ Made("build IR")
      BY <1>1, <2>3 DEF LogAST, Fails, CompilerInv
    <3> QED
      BY <2>1, <2>3, <3>1, CallFacts DEF CompilerInv, ClientCalls
  <2> QED
    BY <2>2, <2>3
<1>2. CASE BuildIR
  <2>1. /\ Call("build IR") /\ pc' = pc /\ UNCHANGED <<fn, gen>> /\ func_def' = Null
        /\ status' = IF func_def # Null THEN "building" ELSE "abort"
    BY <1>2 DEF BuildIR, vars, folderVars, convertVars
  <2>2. func_def = Null => MadeTwice("build IR")'
    BY <2>1, CallFacts DEF CompilerInv, ClientCalls
  <2> QED
    BY <2>1, <2>2, CallFacts DEF CompilerInv, ClientCalls
<1>3. CASE BlockStep
  <2>1. /\ UNCHANGED <<called, status, func_def, fn, gen>> /\ status = "building"
        /\ InOrder' = InOrder
        /\ \A d : Made(d)' = Made(d) /\ MadeTwice(d)' = MadeTwice(d)
    BY <1>3 DEF BlockStep, compilerVars, InOrder, Made, MadeTwice
  <2> QED
    BY <2>1 DEF CompilerInv
<1>4. CASE FuncBuilt
  <2>1. /\ UNCHANGED <<called, func_def, gen>> /\ pc' = pc /\ InOrder' = InOrder
        /\ \A d : Made(d)' = Made(d) /\ MadeTwice(d)' = MadeTwice(d)
    BY <1>4 DEF FuncBuilt, vars, folderVars, convertVars, InOrder, Made, MadeTwice
  <2>2. CASE pc = "done"
    <3>1. status' = "ready" /\ fn'[1].ir # Null
      BY <1>4, <2>2 DEF FuncBuilt, Null
    <3> QED
      BY <2>1, <3>1 DEF CompilerInv
  <2>3. CASE pc # "done"
    <3>1. status' = pc /\ fn' = fn /\ pc # "null read"
      BY <1>4, <2>3 DEF FuncBuilt
    <3> QED
      BY <2>1, <3>1 DEF CompilerInv
  <2> QED
    BY <2>2, <2>3
<1>5. CASE LogIR
  <2>1. Call("log IR") /\ pc' = pc /\ UNCHANGED <<func_def, fn, gen>> /\ fn # <<>>
    BY <1>5 DEF LogIR, vars, folderVars, convertVars
  <2>2. CASE fn[1].ir # Null
    <3>1. status' = status /\ status = "ready"
      BY <1>5, <2>2 DEF LogIR, Prints, Call
    <3> QED
      BY <2>1, <2>2, <3>1, CallFacts DEF CompilerInv, ClientCalls
  <2>3. CASE fn[1].ir = Null
    <3>1. status' = "null read" /\ Made("build asm")
      BY <1>5, <2>1, <2>3 DEF LogIR, Fails, CompilerInv
    <3> QED
      BY <2>1, <2>3, <3>1, CallFacts DEF CompilerInv, ClientCalls
  <2> QED
    BY <2>2, <2>3
<1>6. CASE BuildAsm
  <2>1. /\ Call("build asm") /\ pc' = pc /\ UNCHANGED <<func_def, status>> /\ fn # <<>>
        /\ gen' = <<[name |-> fn[1].name, ir |-> fn[1].ir]>> /\ status = "ready"
    BY <1>6 DEF BuildAsm, Call, vars, folderVars, convertVars
  <2>2. gen'[1].ir = fn[1].ir
    BY <2>1
  <2>3. fn[1].ir # Null \/ MadeTwice("build asm")'
    BY <2>1, CallFacts DEF CompilerInv, ClientCalls
  <2> QED
    BY <2>1, <2>2, <2>3, CallFacts DEF CompilerInv, ClientCalls
<1>7. CASE LogAsm
  <2>1. Call("log asm") /\ pc' = pc /\ UNCHANGED <<func_def, fn, gen>> /\ gen # <<>>
    BY <1>7 DEF LogAsm, vars, folderVars, convertVars
  <2>2. CASE gen[1].ir # Null
    <3>1. status' = status /\ status = "ready"
      BY <1>7, <2>2 DEF LogAsm, Prints, Call
    <3> QED
      BY <2>1, <2>2, <3>1, CallFacts DEF CompilerInv, ClientCalls
  <2>3. CASE gen[1].ir = Null
    <3>1. status' = "null read" /\ ~InOrder
      BY <1>7, <2>1, <2>3, TwiceIsOutOfOrder DEF LogAsm, Fails, CompilerInv
    <3> QED
      BY <2>1, <2>3, <3>1, CallFacts DEF CompilerInv, ClientCalls
  <2> QED
    BY <2>2, <2>3
<1>8. CASE UNCHANGED <<vars, compilerVars>>
  <2>1. /\ UNCHANGED <<called, status, func_def, fn, gen>> /\ pc' = pc /\ InOrder' = InOrder
        /\ \A d : Made(d)' = Made(d) /\ MadeTwice(d)' = MadeTwice(d)
    BY <1>8 DEF compilerVars, vars, folderVars, convertVars, InOrder, Made, MadeTwice
  <2> QED
    BY <2>1 DEF CompilerInv
<1> QED
  BY <1>1, <1>2, <1>3, <1>4, <1>5, <1>6, <1>7, <1>8 DEF CompilerNext, Stopped

\* The inductive invariant holds in every reachable state.
THEOREM CompilerInvariant == CompilerSpec => []CompilerInv
<1>1. CompilerInit => CompilerInv
  BY DEF CompilerInit, CompilerInv, Null
<1> QED
  BY <1>1, CompilerStep, PTL DEF CompilerSpec

\* A client that logs each object before it builds the next from it, and builds
\* each once, reads no object that was moved away, for any number of calls.
THEOREM CompilerInOrderIsSafe == CompilerSpec => []InOrderIsSafe
<1>1. CompilerInv => InOrderIsSafe
  BY TwiceIsOutOfOrder DEF CompilerInv, InOrderIsSafe
<1> QED
  BY <1>1, CompilerInvariant, PTL

-----------------------------------------------------------------------------
(* The outputs                                                             *)

\* The text of the instruction: the number is what is behind the keyword.
LEMMA TextOfInstruction ==
    ASSUME NEW v \in Int
    PROVE  LET t == ValueIR(v).val
           IN  /\ SubSeq(t, 4, Len(t)) = Int2Str(v)
               /\ GetIns(ValueIR(v)) = Int2Str(v)
<1> DEFINE n == Int2Str(v)
           a == <<"\t", "ret", " ">>
           t == a \o n
           C == DecimalChars \cup {"-"}
           B == DecimalChars \cup {"-", "\t", "ret", " "}
<1>1. ConvKeyword("return") = "ret"
  <2>1. <<"return", "ret">> \in Keywords /\ \A k \in Keywords : k[1] = "return" => k = <<"return", "ret">>
    BY DEF Keywords
  <2> QED
    BY <2>1 DEF ConvKeyword
<1>2. ValueIR(v).val = t
  BY <1>1 DEF ValueIR
<1>3. n \in Seq(C) /\ Len(n) >= 1 /\ n[1] \in C
  BY Int2StrFacts
<1> HIDE DEF n
<1>4. a \in Seq(B) /\ n \in Seq(B) /\ Len(a) = 3
  <2>1. C \subseteq B
    OBVIOUS
  <2>2. n \in Seq(B)
    <3> HIDE DEF B, C
    <3> QED
      BY <1>3, <2>1
  <2>3. "\t" \in B /\ "ret" \in B /\ " " \in B
    OBVIOUS
  <2>4. ASSUME NEW S, NEW x \in S, NEW y \in S, NEW z \in S
        PROVE  <<x, y, z>> \in Seq(S) /\ Len(<<x, y, z>>) = 3
    OBVIOUS
  <2>5. a \in Seq(B) /\ Len(a) = 3
    <3> HIDE DEF B
    <3> QED
      BY <2>3, <2>4
  <2> QED
    BY <2>2, <2>5
<1>5. /\ a[1] \notin C /\ a[2] \notin C /\ a[3] \notin C
  BY DEF DecimalChars
<1> HIDE DEF B, C, a
<1>c. /\ t \in Seq(B) /\ Len(t) = Len(a) + Len(n)
      /\ \A i \in 1..Len(a) + Len(n) : t[i] = IF i <= Len(a) THEN a[i] ELSE n[i - Len(a)]
  BY <1>4, ConcatProperties
<1>6. Len(n) \in Nat /\ Len(t) = 3 + Len(n) /\ \A j \in 1..3 : t[j] = a[j]
  <2>1. Len(n) \in Nat
    BY <1>4
  <2> HIDE DEF t
  <2> QED
    BY <1>4, <1>c, <2>1
<1>7. t[4] = n[1]
  <2>1. 4 \in 1..Len(a) + Len(n) /\ 4 - Len(a) = 1 /\ ~(4 <= Len(a))
    BY <1>3, <1>4, <1>6
  <2> HIDE DEF t
  <2> QED
    BY <1>c, <2>1
<1>8. SubSeq(t, 4, Len(t)) = n
  <2>1. SubSeq(t, 4, Len(t)) = SubSeq(n, 4 - Len(a), Len(t) - Len(a))
    BY <1>3, <1>4, <1>6, SubSeqOfConcat2
  <2>2. 4 - Len(a) = 1 /\ Len(t) - Len(a) = Len(n)
    BY <1>4, <1>6
  <2>3. SubSeq(n, 1, Len(n)) = n
    BY <1>4, SubSeqFull
  <2> QED
    BY <2>1, <2>2, <2>3
<1> DEFINE begins == {k \in DOMAIN t : t[k] \in Below(10) \cup {"-"}}
<1> HIDE DEF t
<1>9. DOMAIN t = 1..3 + Len(n)
  BY <1>c, <1>6
<1>10. Min(begins) = 4
  <2>1. begins = {k \in 1..3 + Len(n) : t[k] \in C}
    BY <1>9, DecimalDigitFacts DEF C
  <2>2. 4 \in begins
    BY <1>3, <1>6, <1>7, <2>1
  <2>3. \A k \in begins : k \in Int /\ k >= 4
    <3> SUFFICES ASSUME NEW k \in 1..3 + Len(n), t[k] \in C, k < 4 PROVE FALSE
      BY <1>6, <2>1
    <3>1. k = 1 \/ k = 2 \/ k = 3
      BY <1>6
    <3> QED
      BY <1>5, <1>6, <3>1
  <2> HIDE DEF begins
  <2> DEFINE IsMin(x) == \A y \in begins : x <= y
  <2>4. 4 \in begins /\ IsMin(4) /\ \A x \in begins : IsMin(x) => x = 4
    BY <2>2, <2>3
  <2>5. Min(begins) = CHOOSE x \in begins : IsMin(x)
    BY DEF Min
  <2> HIDE DEF IsMin
  <2> QED
    BY <2>4, <2>5
<1>11. GetIns(ValueIR(v)) = SubSeq(t, Min(begins), Len(t))
  BY <1>2 DEF GetIns
<1> QED
  BY <1>2, <1>8, <1>10, <1>11 DEF n

\* The value that the constructor has put into the return instruction.
Returned == instructions[1][2]

\* What the function is, as the client gets it and after its parts were moved,
\* and what the generator has taken from it.
FnOf(v) == [name |-> Ident, type |-> "i32", ir |-> <<ValueIR(v)>>]
FnMoved == [name |-> Moved, type |-> "i32", ir |-> Null]
GenOf(v) == [name |-> Ident, ir |-> <<ValueIR(v)>>]
GenMoved == [name |-> Moved, ir |-> Null]

\* What each pass prints.
AstOutput == <<"AST", [type |-> "int", ident |-> Ident]>>
IROutput(v) == <<"IR", [name |-> Ident, type |-> "i32", text |-> ValueIR(v).val]>>
AsmOutput(v) == <<"asm", [name |-> Ident, text |-> GetIns(ValueIR(v))]>>

\* Every object is whole or was moved from as a whole, and until the block is
\* built there is none; so what was printed is about the one value returned.
OutputsInv ==
    /\ func_def \in {Null, <<[type |-> "int", ident |-> Ident]>>}
    /\ status = "building" \/ func_def # Null =>
          fn = <<>> /\ gen = <<>> /\ printed \subseteq {AstOutput}
    /\ status = "building" => func_def = Null
    /\ fn \in {<<>>, <<FnOf(Returned)>>, <<FnMoved>>}
    /\ gen \in {<<>>, <<GenOf(Returned)>>, <<GenMoved>>}
    /\ gen # <<>> => fn # <<>>
    /\ printed \subseteq {AstOutput, IROutput(Returned), AsmOutput(Returned)}
    /\ fn # <<>> \/ ~(printed \subseteq {AstOutput}) => pc = "done"

\* What is left of a function whose parts were moved.
LEMMA MovedFrom ==
    ASSUME NEW n, NEW i, NEW r, r = [name |-> n, type |-> "i32", ir |-> i]
    PROVE  [r EXCEPT !.name = Moved, !.ir = Null] = FnMoved
<1> DEFINE e == [r EXCEPT !.name = Moved, !.ir = Null]
<1>1. r \in [name : {n}, type : {"i32"}, ir : {i}]
  OBVIOUS
<1>2. e \in [name : {Moved}, type : {"i32"}, ir : {Null}]
  BY <1>1
<1> HIDE DEF e
<1>3. e = [name |-> Moved, type |-> "i32", ir |-> Null]
  BY <1>2
<1> QED
  BY <1>3 DEF e, FnMoved

\* Every step keeps the invariant.
LEMMA OutputsStep ==
    ASSUME OutputsInv, [CompilerNext \/ Stopped]_<<vars, compilerVars>>
    PROVE  OutputsInv'
<1> USE DEF Null
<1>1. CASE LogAST
  <2>1. UNCHANGED <<func_def, fn, gen, pc, instructions>>
    BY <1>1 DEF LogAST, vars, folderVars, convertVars, blockVars
  <2>2. Returned' = Returned
    BY <2>1 DEF Returned
  <2>3. /\ status' # "building"
        /\ printed' \subseteq printed \cup {AstOutput}
    <3>1. CASE func_def # Null
      <4>1. func_def[1] = [type |-> "int", ident |-> Ident]
        BY <3>1 DEF OutputsInv
      <4>2. status' = status /\ status = "ready" /\ printed' = printed \cup {<<"AST", func_def[1]>>}
        BY <1>1, <3>1 DEF LogAST, Call, Prints
      <4> QED
        BY <4>1, <4>2 DEF AstOutput
    <3>2. CASE func_def = Null
      BY <1>1, <3>2 DEF LogAST, Fails
    <3> QED
      BY <3>1, <3>2
  <2> QED
    BY <2>1, <2>2, <2>3 DEF OutputsInv
<1>2. CASE BuildIR
  <2>1. UNCHANGED <<fn, gen, printed, pc, instructions>> /\ func_def' = Null
    BY <1>2 DEF BuildIR, vars, folderVars, convertVars, blockVars
  <2>2. Returned' = Returned
    BY <2>1 DEF Returned
  <2>3. status' = "building" => func_def # Null
    BY <1>2 DEF BuildIR
  <2> QED
    BY <2>1, <2>2, <2>3 DEF OutputsInv
<1>3. CASE BlockStep
  <2>1. UNCHANGED <<func_def, fn, gen, printed, status>> /\ status = "building"
    BY <1>3 DEF BlockStep, compilerVars
  <2> QED
    BY <2>1 DEF OutputsInv
<1>4. CASE FuncBuilt
  <2>1. /\ UNCHANGED <<func_def, gen, printed, pc, instructions>> /\ status = "building"
        /\ status' # "building"
        /\ \/ pc = "done" /\ fn' = <<FnOf(Returned)>>
           \/ fn' = fn
    BY <1>4 DEF FuncBuilt, vars, folderVars, convertVars, blockVars, FnOf, Returned, TypeConv
  <2>2. Returned' = Returned
    BY <2>1 DEF Returned
  <2> QED
    BY <2>1, <2>2 DEF OutputsInv
<1>5. CASE LogIR
  <2>1. UNCHANGED <<func_def, fn, gen, pc, instructions>> /\ fn # <<>>
    BY <1>5 DEF LogIR, vars, folderVars, convertVars, blockVars
  <2>2. Returned' = Returned
    BY <2>1 DEF Returned
  <2>3. status' # "building" /\ printed' \subseteq printed \cup {IROutput(Returned)}
    <3>1. CASE fn[1].ir # Null
      <4>1. fn = <<FnOf(Returned)>>
        BY <2>1, <3>1 DEF OutputsInv, FnMoved
      <4>2. fn[1].name = Ident /\ fn[1].type = "i32" /\ fn[1].ir[1] = ValueIR(Returned)
        BY <4>1 DEF FnOf
      <4> QED
        BY <1>5, <3>1, <4>2 DEF LogIR, Call, Prints, IROutput
    <3>2. CASE fn[1].ir = Null
      BY <1>5, <3>2 DEF LogIR, Fails
    <3> QED
      BY <3>1, <3>2
  <2> QED
    BY <2>1, <2>2, <2>3 DEF OutputsInv
<1>6. CASE BuildAsm
  <2>1. UNCHANGED <<func_def, printed, status, pc, instructions>> /\ fn # <<>> /\ status = "ready"
    BY <1>6 DEF BuildAsm, Call, vars, folderVars, convertVars, blockVars
  <2>2. Returned' = Returned
    BY <2>1 DEF Returned
  <2>3. fn' = <<FnMoved>> /\ gen' \in {<<GenOf(Returned)>>, <<GenMoved>>}
    <3>1. CASE fn = <<FnOf(Returned)>>
      <4>1. fn[1].name = Ident /\ fn[1].ir = <<ValueIR(Returned)>>
        BY <3>1 DEF FnOf
      <4>2. [fn[1] EXCEPT !.name = Moved, !.ir = Null] = FnMoved
        BY <3>1, MovedFrom DEF FnOf
      <4>3. /\ gen' = <<[name |-> fn[1].name, ir |-> fn[1].ir]>>
            /\ fn' = <<[fn[1] EXCEPT !.name = Moved, !.ir = Null]>>
        BY <1>6 DEF BuildAsm
      <4> QED
        BY <4>1, <4>2, <4>3 DEF GenOf
    <3>2. CASE fn = <<FnMoved>>
      <4>1. fn[1].name = Moved /\ fn[1].ir = Null
        BY <3>2 DEF FnMoved
      <4>2. [fn[1] EXCEPT !.name = Moved, !.ir = Null] = FnMoved
        BY <3>2, MovedFrom DEF FnMoved
      <4>3. /\ gen' = <<[name |-> fn[1].name, ir |-> fn[1].ir]>>
            /\ fn' = <<[fn[1] EXCEPT !.name = Moved, !.ir = Null]>>
        BY <1>6 DEF BuildAsm
      <4> QED
        BY <4>1, <4>2, <4>3 DEF GenMoved
    <3> QED
      BY <2>1, <3>1, <3>2 DEF OutputsInv
  <2> QED
    BY <2>1, <2>2, <2>3 DEF OutputsInv
<1>7. CASE LogAsm
  <2>1. UNCHANGED <<func_def, fn, gen, pc, instructions>> /\ gen # <<>>
    BY <1>7 DEF LogAsm, vars, folderVars, convertVars, blockVars
  <2>2. Returned' = Returned
    BY <2>1 DEF Returned
  <2>3. status' # "building" /\ printed' \subseteq printed \cup {AsmOutput(Returned)}
    <3>1. CASE gen[1].ir # Null
      <4>1. gen = <<GenOf(Returned)>>
        BY <2>1, <3>1 DEF OutputsInv, GenMoved
      <4>2. gen[1].name = Ident /\ gen[1].ir[1] = ValueIR(Returned)
        BY <4>1 DEF GenOf
      <4> QED
        BY <1>7, <3>1, <4>2 DEF LogAsm, Call, Prints, AsmOutput
    <3>2. CASE gen[1].ir = Null
      BY <1>7, <3>2 DEF LogAsm, Fails
    <3> QED
      BY <3>1, <3>2
  <2> QED
    BY <2>1, <2>2, <2>3 DEF OutputsInv
<1>8. CASE UNCHANGED <<vars, compilerVars>>
  <2>1. UNCHANGED <<func_def, fn, gen, printed, status, pc, instructions>>
    BY <1>8 DEF vars, folderVars, convertVars, blockVars, compilerVars
  <2>2. Returned' = Returned
    BY <2>1 DEF Returned
  <2> QED
    BY <2>1, <2>2 DEF OutputsInv
<1> QED
  BY <1>1, <1>2, <1>3, <1>4, <1>5, <1>6, <1>7, <1>8 DEF CompilerNext, Stopped

\* The passes run the constructor of the block as it is specified: whatever the
\* client does, its other calls leave that constructor alone.
THEOREM CompilerImplementsBlock == CompilerSpec => BlockSafety
<1>1. CompilerInit => Init
  BY DEF CompilerInit
<1>2. [CompilerNext \/ Stopped]_<<vars, compilerVars>> => [Next \/ Constructed]_vars
  BY DEF CompilerNext, Stopped, LogAST, BuildIR, BlockStep, FuncBuilt, LogIR, BuildAsm, LogAsm
<1> QED
  BY <1>1, <1>2, PTL DEF CompilerSpec, BlockSafety

\* The inductive invariant of the outputs.
THEOREM OutputsInvariant == CompilerSpec => []OutputsInv
<1>1. CompilerInit => OutputsInv
  BY DEF CompilerInit, OutputsInv, Null
<1> QED
  BY <1>1, OutputsStep, PTL DEF CompilerSpec

\* Whatever has been printed is about one program, and is the value of its
\* expression.
THEOREM CompilerOutputsAgree == CompilerSpec => []OutputsAgree
<1>1. OutputsInv /\ BlockInv /\ FoldMeansExpression => OutputsAgree
  <2> SUFFICES ASSUME OutputsInv, BlockInv, FoldMeansExpression PROVE OutputsAgree
    OBVIOUS
  <2> DEFINE v == Returned
             t == ValueIR(v).val
  <2>1. printed \subseteq {AstOutput, IROutput(v), AsmOutput(v)}
    BY DEF OutputsInv
  <2>2. ASSUME NEW p \in printed, p # AstOutput
        PROVE  /\ v \in Int /\ Str2Int(Int2Str(v)) = v
               /\ <<"val", v>> \in MeaningOf(block.stmt.expr)
    <3>1. pc = "done"
      BY <2>2 DEF OutputsInv
    <3>2. v \in I32 /\ HasStatement
      BY <3>1 DEF BlockInv, BlockTypeInv, BlockTypeOK, QueueInv, Returned
    <3>3. v \in Word /\ v \in Int
      BY <3>2, IntsAssumption, WordFacts
    <3> QED
      BY <3>1, <3>2, <3>3, Int2Str2Int DEF FoldMeansExpression, Returned
  <2>3. ASSUME NEW p \in printed, p # AstOutput
        PROVE  SubSeq(t, 4, Len(t)) = Int2Str(v) /\ GetIns(ValueIR(v)) = Int2Str(v)
    BY <2>2, <2>3, TextOfInstruction
  <2> HIDE DEF v, t
  <2>4. /\ AstOutput[1] = "AST"
        /\ IROutput(v)[1] = "IR" /\ IROutput(v)[2].text = t /\ IROutput(v)[2].name = Ident
        /\ AsmOutput(v)[1] = "asm" /\ AsmOutput(v)[2].text = GetIns(ValueIR(v))
        /\ AsmOutput(v)[2].name = Ident
    BY DEF AstOutput, IROutput, AsmOutput, t
  <2>5. OutputsMatch
    BY <2>1, <2>3, <2>4 DEF OutputsMatch
  <2>6. ASSUME NEW p \in printed
        PROVE  /\ p[1] = "IR" => Str2Int(SubSeq(p[2].text, 4, Len(p[2].text))) = v
               /\ p[1] = "asm" => <<"val", Str2Int(p[2].text)>> \in MeaningOf(block.stmt.expr)
    BY <2>1, <2>2, <2>3, <2>4
  <2> QED
    BY <2>5, <2>6 DEF OutputsAgree, v, Returned
<1> QED
  BY <1>1, OutputsInvariant, CompilerImplementsBlock, BlockSafetyInvariant, BlockSafetyMeaning,
     PTL
=============================================================================
