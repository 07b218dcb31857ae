------------------------------ MODULE Induction ------------------------------
(***************************************************************************)
(* Induction over the natural numbers for sets of them, and the functions  *)
(* that it defines.  A property is put as the set of the numbers that have *)
(* it, so that these facts can be cited by first-order provers.            *)
(***************************************************************************)
EXTENDS Integers, WellFoundedInduction, TLAPS

\* A set of numbers has a least element.
LEMMA LeastElement ==
    ASSUME NEW T, T \subseteq Nat, T # {}
    PROVE  \E n \in T : \A m \in T : n <= m
<1>1. IsWellFoundedOn(OpToRel(<, Nat), Nat)
  BY NatLessThanWellFounded
<1> DEFINE R == OpToRel(<, Nat)
<1>2. \A a, b \in Nat : a < b => <<a, b>> \in R
  BY DEF OpToRel
<1> HIDE DEF R
<1>3. PICK n \in T : \A m \in T : ~(<<m, n>> \in R)
  BY <1>1, WFMin DEF R
<1>4. SUFFICES ASSUME NEW m \in T PROVE n <= m
  BY <1>3
<1>5. n \in Nat /\ m \in Nat /\ ~(m < n)
  BY <1>2, <1>3
<1> QED
  BY <1>5

\* What holds of 0 and passes from each number to the next holds of all.
LEMMA SetInduction ==
    ASSUME NEW S, 0 \in S, \A n \in Nat : n \in S => n + 1 \in S
    PROVE  Nat \subseteq S
<1> SUFFICES ASSUME Nat \ S # {} PROVE FALSE
  OBVIOUS
<1>1. PICK n \in Nat \ S : \A m \in Nat \ S : n <= m
  BY LeastElement
<1>2. n # 0 /\ n - 1 \in Nat /\ n - 1 \in S
  BY <1>1
<1> QED
  BY <1>1, <1>2

\* The same where the numbers below may all be used.
LEMMA StrongInduction ==
    ASSUME NEW S, \A n \in Nat : (\A m \in 0..n-1 : m \in S) => n \in S
    PROVE  Nat \subseteq S
<1> SUFFICES ASSUME Nat \ S # {} PROVE FALSE
  OBVIOUS
<1>1. PICK n \in Nat \ S : \A m \in Nat \ S : n <= m
  BY LeastElement
<1>2. \A m \in 0..n-1 : m \in S
  BY <1>1
<1> QED
  BY <1>1, <1>2

\* Of the numbers in U, k has the greatest weight, and is the last that has.
LastBest(U, w, k) ==
    /\ k \in U
    /\ \A l \in U : w[l] <= w[k] /\ (w[l] = w[k] => l <= k)

\* Among finitely many numbers there is one; by induction on their number.
LEMMA LastBestExists ==
    ASSUME NEW i \in Int, NEW j \in Int, NEW T, T # {}, NEW w,
           \A a \in T : a \in i..j /\ w[a] \in Int
    PROVE  \E k : LastBest(T, w, k)
<1> DEFINE Best(U, k) == LastBest(U, w, k)
           Upto(n) == {a \in T : a <= i + n}
           Has(n) == Upto(n) = {} \/ \E k : Best(Upto(n), k)
           S == {n \in Nat : Has(n)}
<1>1. \A a \in T : a \in i..j /\ a \in Int /\ w[a] \in Int
  OBVIOUS
<1>2. Has(0)
  <2>1. Upto(0) \subseteq {i}
    BY <1>1
  <2>2. CASE Upto(0) = {i}
    BY <1>1, <2>2 DEF LastBest
  <2> QED
    BY <2>1, <2>2
<1>3. ASSUME NEW n \in Nat, Has(n) PROVE Has(n + 1)
  <2> DEFINE a == i + (n + 1)
  <2>1. Upto(n + 1) \subseteq Upto(n) \cup {a} /\ Upto(n) \subseteq Upto(n + 1)
    BY <1>1
  <2>2. CASE a \notin T
    <3>1. Upto(n + 1) = Upto(n)
      BY <2>1, <2>2
    <3> QED
      BY <1>3, <3>1
  <2>3. CASE a \in T
    <3>1. Upto(n + 1) = Upto(n) \cup {a} /\ \A l \in Upto(n) : l < a
      BY <1>1, <2>1, <2>3
    <3>2. CASE Upto(n) = {}
      <4>1. Best(Upto(n + 1), a)
        BY <1>1, <3>1, <3>2 DEF LastBest
      <4> QED
        BY <4>1
    <3>3. CASE Upto(n) # {}
      <4>1. PICK k : Best(Upto(n), k)
        BY <1>3, <3>3
      <4>2. CASE w[a] >= w[k]
        <5>1. \A l \in Upto(n) : w[l] <= w[a]
          BY <1>1, <2>3, <4>1, <4>2 DEF LastBest
        <5>2. Best(Upto(n + 1), a)
          BY <1>1, <2>3, <3>1, <5>1 DEF LastBest
        <5> QED
          BY <5>2
      <4>3. CASE ~(w[a] >= w[k])
        <5>1. Best(Upto(n + 1), k)
          BY <1>1, <2>3, <3>1, <4>1, <4>3 DEF LastBest
        <5>2. \E b : Best(Upto(n + 1), b)
          BY <5>1
        <5> QED
          BY <5>2
      <4> QED
        BY <4>2, <4>3
    <3> QED
      BY <3>2, <3>3
  <2> QED
    BY <2>2, <2>3
<1> HIDE DEF Has
<1>4. \A n \in Nat : Has(n)
  <2>1. 0 \in S /\ \A n \in Nat : n \in S => n + 1 \in S
    BY <1>2, <1>3
  <2> HIDE DEF S
  <2>2. Nat \subseteq S
    BY <2>1, SetInduction
  <2> QED
    BY <2>2 DEF S
<1>5. PICK b \in T : TRUE
  OBVIOUS
<1>6. j - i \in Nat /\ Upto(j - i) = T
  BY <1>1, <1>5
<1>7. PICK k : Best(T, k)
  BY <1>4, <1>5, <1>6 DEF Has
<1> QED
  BY <1>7

\* A beginning and a step define a function on 0..n.
IsIteration(f, D, base, step, n) ==
    /\ f \in [0..n -> D]
    /\ f[0] = base
    /\ \A k \in 1..n : f[k] = step[f[k-1]]

\* A step can be iterated any number of times.
LEMMA IterationExists ==
    ASSUME NEW D, NEW base \in D, NEW step \in [D -> D], NEW n \in Nat
    PROVE  \E f : IsIteration(f, D, base, step, n)
<1> DEFINE Iterates(m) == {f \in [0..m -> D] :
                              f[0] = base /\ \A k \in 1..m : f[k] = step[f[k-1]]}
           S == {m \in Nat : Iterates(m) # {}}
<1>1. 0 \in S
  <2>1. [k \in 0..0 |-> base] \in Iterates(0)
    OBVIOUS
  <2> QED
    BY <2>1
<1>2. ASSUME NEW m \in Nat, m \in S PROVE m + 1 \in S
  <2>1. PICK f \in [0..m -> D] : f[0] = base /\ \A k \in 1..m : f[k] = step[f[k-1]]
    BY <1>2
  <2> DEFINE g == [k \in 0..m+1 |-> IF k = m + 1 THEN step[f[m]] ELSE f[k]]
  <2>2. f[m] \in D /\ step[f[m]] \in D
    BY <2>1
  <2>3. g \in [0..m+1 -> D] /\ g[0] = base /\ g[m+1] = step[g[m]]
    BY <2>1, <2>2
  <2>4. ASSUME NEW k \in 1..m PROVE g[k] = step[g[k-1]]
    BY <2>1
  <2>5. \A k \in 1..m+1 : g[k] = step[g[k-1]]
    BY <2>3, <2>4
  <2> HIDE DEF g
  <2>6. g \in Iterates(m + 1)
    BY <2>3, <2>5
  <2> QED
    BY <2>6
<1> HIDE DEF S
<1>3. n \in S
  BY <1>1, <1>2, SetInduction
<1> QED
  BY <1>3 DEF S, IsIteration

\* A beginning and a step that knows the number it makes define a function on 0..n.
IsScan(f, D, base, step, n) ==
    /\ f \in [0..n -> D]
    /\ f[0] = base
    /\ \A k \in 1..n : f[k] = step[<<f[k-1], k>>]

\* There is such a function.
LEMMA ScanExists ==
    ASSUME NEW D, NEW base \in D, NEW n \in Nat, NEW step \in [D \X (1..n) -> D]
    PROVE  \E f : IsScan(f, D, base, step, n)
<1> DEFINE Scans(m) == {f \in [0..m -> D] :
                           f[0] = base /\ \A k \in 1..m : f[k] = step[<<f[k-1], k>>]}
           S == {m \in Nat : m <= n => Scans(m) # {}}
<1>1. 0 \in S
  <2>1. [k \in 0..0 |-> base] \in Scans(0)
    OBVIOUS
  <2> QED
    BY <2>1
<1>2. ASSUME NEW m \in Nat, m \in S PROVE m + 1 \in S
  <2> SUFFICES ASSUME m + 1 <= n PROVE Scans(m + 1) # {}
    OBVIOUS
  <2>1. PICK f \in [0..m -> D] : f[0] = base /\ \A k \in 1..m : f[k] = step[<<f[k-1], k>>]
    BY <1>2
  <2> DEFINE new == step[<<f[m], m + 1>>]
             g == [k \in 0..m+1 |-> IF k = m + 1 THEN new ELSE f[k]]
  <2>2. new \in D
    BY <2>1
  <2> HIDE DEF new
  <2>3. g \in [0..m+1 -> D] /\ g[0] = base /\ g[m+1] = new /\ \A k \in 0..m : g[k] = f[k]
    BY <2>1, <2>2
  <2> HIDE DEF g
  <2>4. \A k \in 1..m+1 : g[k] = step[<<g[k-1], k>>]
    <3> SUFFICES ASSUME NEW k \in 1..m+1 PROVE g[k] = step[<<g[k-1], k>>]
      OBVIOUS
    <3>1. CASE k = m + 1
      <4>1. g[k] = new /\ k - 1 = m /\ m \in 0..m
        BY <2>3, <3>1
      <4>2. g[k-1] = f[m]
        BY <2>3, <4>1
      <4> QED
        BY <3>1, <4>1, <4>2 DEF new
    <3>2. CASE k \in 1..m
      <4>1. g[k] = f[k] /\ g[k-1] = f[k-1]
        BY <2>3, <3>2
      <4> QED
        BY <2>1, <3>2, <4>1
    <3> QED
      BY <3>1, <3>2
  <2>5. g \in Scans(m + 1)
    BY <2>3, <2>4
  <2> QED
    BY <2>5
<1> HIDE DEF S
<1>3. n \in S
  BY <1>1, <1>2, SetInduction
<1> QED
  BY <1>3 DEF S, IsScan

\* Two functions whose values follow from the values before do not part.
LEMMA ScansAgree ==
    ASSUME NEW n \in Nat, NEW f, NEW g, f[0] = g[0],
           \A k \in 1..n : f[k-1] = g[k-1] => f[k] = g[k]
    PROVE  \A k \in 0..n : f[k] = g[k]
<1> DEFINE S == {k \in Nat : k <= n => f[k] = g[k]}
<1>1. 0 \in S
  OBVIOUS
<1>2. ASSUME NEW k \in Nat, k \in S PROVE k + 1 \in S
  <2> SUFFICES ASSUME k + 1 <= n PROVE f[k+1] = g[k+1]
    OBVIOUS
  <2>1. k + 1 \in 1..n /\ (k + 1) - 1 = k /\ f[k] = g[k]
    BY <1>2
  <2> QED
    BY <2>1
<1> HIDE DEF S
<1>3. Nat \subseteq S
  BY <1>1, <1>2, SetInduction
<1> QED
  BY <1>3 DEF S

\* What passes to each element from those of lower levels holds of all.
LEMMA LevelInduction ==
    ASSUME NEW N, NEW lev, \A n \in N : lev[n] \in Nat, NEW P,
           \A n \in N : (\A k \in N : lev[k] < lev[n] => k \in P) => n \in P
    PROVE  N \subseteq P
<1> DEFINE S == {j \in Nat : \A n \in N : lev[n] < j => n \in P}
<1>1. 0 \in S
  OBVIOUS
<1>2. ASSUME NEW j \in Nat, j \in S PROVE j + 1 \in S
  <2> SUFFICES ASSUME NEW n \in N, lev[n] < j + 1 PROVE n \in P
    OBVIOUS
  <2>1. \A k \in N : lev[k] < lev[n] => lev[k] < j
    OBVIOUS
  <2>2. \A k \in N : lev[k] < lev[n] => k \in P
    BY <1>2, <2>1
  <2> QED
    BY <2>2
<1> HIDE DEF S
<1>3. Nat \subseteq S
  BY <1>1, <1>2, SetInduction
<1> SUFFICES ASSUME NEW n \in N PROVE n \in P
  OBVIOUS
<1>4. lev[n] + 1 \in S /\ lev[n] < lev[n] + 1
  BY <1>3
<1> QED
  BY <1>4 DEF S

\* A function on a set of elements that have levels, where each value is made of
\* those of lower levels, exists.  step gives the value at an element, for a
\* function that is right at the lower levels.
Solves(f, N, lev, step, j) == \A n \in N : lev[n] < j => f[n] = step[<<f, n>>]

IsRecursion(N, lev, D, step) ==
    /\ lev \in [N -> Nat]
    /\ D # {}
    /\ step \in [[N -> D] \X N -> D]
    /\ \A f, g \in [N -> D], n \in N :
          (\A k \in N : lev[k] < lev[n] => f[k] = g[k]) => step[<<f, n>>] = step[<<g, n>>]

IsSolution(f, N, D, step) == f \in [N -> D] /\ \A n \in N : f[n] = step[<<f, n>>]

\* Recursion down the levels of a set has a solution.
LEMMA RecursionExists ==
    ASSUME NEW N, NEW lev, NEW D, NEW step, IsRecursion(N, lev, D, step)
    PROVE  \E f : IsSolution(f, N, D, step)
<1> USE DEF IsSolution
<1> SUFFICES ASSUME lev \in [N -> Nat], D # {}, step \in [[N -> D] \X N -> D]
             PROVE  \E f : IsSolution(f, N, D, step)
  BY DEF IsRecursion
<1>0. \A f, g \in [N -> D], n \in N :
         (\A k \in N : lev[k] < lev[n] => f[k] = g[k]) => step[<<f, n>>] = step[<<g, n>>]
  BY DEF IsRecursion
<1>d. PICK d \in D : TRUE
  OBVIOUS
<1> DEFINE F == [N -> D]
           Right(f, j) == f \in F /\ Solves(f, N, lev, step, j)
           E == {j \in Nat : \E f : Right(f, j)}
           U == {j \in Nat : \A f, g : Right(f, j) /\ Right(g, j) =>
                                 \A n \in N : lev[n] < j => f[n] = g[n]}
<1>1. 0 \in E
  <2>1. [n \in N |-> d] \in F /\ \A n \in N : ~(lev[n] < 0)
    OBVIOUS
  <2> QED
    BY <2>1 DEF Solves
<1>2. ASSUME NEW j \in Nat, j \in E PROVE j + 1 \in E
  <2>1. PICK f : Right(f, j)
    BY <1>2
  <2> DEFINE h == [n \in N |-> IF lev[n] < j THEN f[n] ELSE step[<<f, n>>]]
  <2>2. h \in F
    BY <2>1
  <2>3. \A n \in N : lev[n] < j => h[n] = f[n] /\ f[n] = step[<<f, n>>]
    BY <2>1 DEF Solves
  <2>4. \A n \in N : ~(lev[n] < j) => h[n] = step[<<f, n>>]
    OBVIOUS
  <2> HIDE DEF h
  <2>5. ASSUME NEW n \in N, lev[n] < j + 1 PROVE h[n] = step[<<h, n>>]
    <3>0. \A k \in N : lev[k] < lev[n] => lev[k] < j
      <4>1. lev[n] \in Nat /\ \A k \in N : lev[k] \in Nat
        OBVIOUS
      <4> QED
        BY <2>5, <4>1
    <3>1. \A k \in N : lev[k] < lev[n] => h[k] = f[k]
      BY <2>3, <3>0
    <3>2. step[<<h, n>>] = step[<<f, n>>]
      BY <1>0, <2>1, <2>2, <3>1
    <3> QED
      BY <2>3, <2>4, <3>2
  <2> QED
    BY <2>2, <2>5 DEF Solves
<1>3. 0 \in U
  OBVIOUS
<1>4. ASSUME NEW j \in Nat, j \in U PROVE j + 1 \in U
  <2> SUFFICES ASSUME NEW f, NEW g, Right(f, j + 1), Right(g, j + 1), NEW n \in N, lev[n] < j + 1
               PROVE  f[n] = g[n]
    OBVIOUS
  <2>1. Right(f, j) /\ Right(g, j)
    BY DEF Solves
  <2>2. \A k \in N : lev[k] < j => f[k] = g[k]
    BY <1>4, <2>1
  <2>3. \A k \in N : lev[k] < lev[n] => f[k] = g[k]
    BY <2>2
  <2>4. step[<<f, n>>] = step[<<g, n>>]
    BY <1>0, <2>1, <2>3
  <2> QED
    BY <2>4 DEF Solves
<1> HIDE DEF E, U
<1>5. Nat \subseteq E
  BY <1>1, <1>2, SetInduction
<1>6. Nat \subseteq U
  BY <1>3, <1>4, SetInduction
<1> DEFINE part == [n \in N |-> CHOOSE f : Right(f, lev[n] + 1)]
           h == [n \in N |-> part[n][n]]
<1>7. ASSUME NEW n \in N PROVE Right(part[n], lev[n] + 1)
  <2>1. lev[n] + 1 \in E
    BY <1>5
  <2> QED
    BY <2>1 DEF E
<1> HIDE DEF part
<1>8. h \in F /\ \A n \in N : h[n] = part[n][n]
  BY <1>7
<1> HIDE DEF h
<1>9. ASSUME NEW n \in N PROVE h[n] = step[<<h, n>>]
  <2>1. ASSUME NEW k \in N, lev[k] < lev[n] PROVE h[k] = part[n][k]
    <3>1. Right(part[k], lev[k] + 1) /\ Right(part[n], lev[n] + 1)
      BY <1>7
    <3>0. lev[k] \in Nat /\ lev[n] \in Nat /\ \A q \in N : lev[q] \in Nat
      OBVIOUS
    <3>5. \A q \in N : lev[q] < lev[k] + 1 => lev[q] < lev[n] + 1
      BY <2>1, <3>0
    <3>2. Right(part[n], lev[k] + 1)
      BY <3>1, <3>5 DEF Solves
    <3>3. lev[k] + 1 \in U /\ lev[k] < lev[k] + 1
      BY <1>6
    <3>4. part[k][k] = part[n][k]
      BY <3>1, <3>2, <3>3 DEF U
    <3> QED
      BY <1>8, <3>4
  <2>2. part[n] \in F /\ part[n][n] = step[<<part[n], n>>]
    <3>1. lev[n] \in Nat
      OBVIOUS
    <3>2. lev[n] < lev[n] + 1
      BY <3>1
    <3> QED
      BY <1>7, <3>2 DEF Solves
  <2>3. step[<<h, n>>] = step[<<part[n], n>>]
    BY <1>0, <1>8, <2>1, <2>2
  <2> QED
    BY <1>8, <2>2, <2>3
<1> QED
  BY <1>8, <1>9
==============================================================================
