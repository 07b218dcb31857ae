----------------------------- MODULE Lexer_proofs -----------------------------
(***************************************************************************)
(* Proofs about the scanner, for any files over any characters and every   *)
(* width of an int and of a long.  The patterns are characterised by the   *)
(* stretches of the file they take; from that follows what the longest     *)
(* match can be, and that no match cuts a comment in two.                  *)
(***************************************************************************)
EXTENDS Lexer, NumberText_proofs, FiniteSetTheorems

\* The file is one.
IsFile == input \in Seq(Chars)

\* A pattern that looks at the file, from where it begins.
Moves(p) == p \in [Places -> SUBSET Places] /\ \A k \in Places : \A e \in p[k] : k <= e

\* Places are numbers.
LEMMA PlacesFacts ==
    ASSUME IsFile
    PROVE  /\ Len(input) \in Nat
           /\ Places = 1..Len(input)+1
           /\ \A k \in Places : k \in Int /\ 1 <= k /\ k <= Len(input) + 1
           /\ \A k \in 1..Len(input) : input[k] \in Chars
<1>1. Len(input) \in Nat /\ \A k \in 1..Len(input) : input[k] \in Chars
  BY DEF IsFile
<1> QED
  BY <1>1 DEF Places

\* The recursion of Star has a solution.
LEMMA StarSolves ==
    ASSUME IsFile, NEW p, Moves(p)
    PROVE  /\ Moves(Star(p))
           /\ \A k \in Places : Star(p)[k] = StarEnds(Star(p), p, k)
<1> DEFINE N == Places
           D == SUBSET Places
           lev == [k \in N |-> Len(input) + 1 - k]
           step == [q \in [N -> D] \X N |-> StarEnds(q[1], p, q[2])]
<1>1. \A k \in N : k \in Int /\ lev[k] \in Nat
  BY PlacesFacts
<1>2. \A k \in N : \A j \in p[k] \ {k} : j \in N /\ k < j /\ lev[j] < lev[k]
  <2> SUFFICES ASSUME NEW k \in N, NEW j \in p[k], j # k
               PROVE  j \in N /\ k < j /\ lev[j] < lev[k]
    OBVIOUS
  <2>1. j \in N /\ k <= j
    BY DEF Moves
  <2>2. k < j /\ lev[j] = Len(input) + 1 - j /\ lev[k] = Len(input) + 1 - k /\ Len(input) \in Nat
    BY <1>1, <2>1, PlacesFacts
  <2> QED
    BY <1>1, <2>1, <2>2
<1>3. \A f \in [N -> D], k \in N : StarEnds(f, p, k) \in D
  <2> SUFFICES ASSUME NEW f \in [N -> D], NEW k \in N PROVE StarEnds(f, p, k) \in D
    OBVIOUS
  <2> HIDE DEF N, D, lev
  <2>1. \A j \in p[k] \ {k} : f[j] \in D
    BY <1>2
  <2> QED
    BY <2>1 DEF StarEnds, D, N
<1>4. step \in [[N -> D] \X N -> D] /\ \A f \in [N -> D], k \in N : step[<<f, k>>] = StarEnds(f, p, k)
  <2> HIDE DEF N, D
  <2> QED
    BY <1>3
<1> HIDE DEF step
<1>5. ASSUME NEW f \in [N -> D], NEW g \in [N -> D], NEW k \in N,
             \A j \in N : lev[j] < lev[k] => f[j] = g[j]
      PROVE  step[<<f, k>>] = step[<<g, k>>]
  <2>1. \A j \in p[k] \ {k} : f[j] = g[j]
    BY <1>2, <1>5
  <2>2. StarEnds(f, p, k) = StarEnds(g, p, k)
    BY <2>1 DEF StarEnds
  <2> QED
    BY <1>4, <2>2
<1>6. lev \in [N -> Nat] /\ D # {}
  BY <1>1
<1> HIDE DEF N, D, lev
<1>7. IsRecursion(N, lev, D, step)
  BY <1>4, <1>5, <1>6 DEF IsRecursion
<1>8. PICK f : IsSolution(f, N, D, step)
  BY <1>7, RecursionExists
<1>9. f = [k \in N |-> StarEnds(f, p, k)]
  <2>1. f \in [N -> D] /\ \A k \in N : f[k] = step[<<f, k>>]
    BY <1>8 DEF IsSolution
  <2> QED
    BY <1>4, <2>1
<1> DEFINE s == Star(p)
<1>10. s = [k \in N |-> StarEnds(s, p, k)]
  BY <1>9 DEF Star, N
<1> HIDE DEF s
<1> DEFINE P == {k \in N : s[k] \in D /\ \A e \in s[k] : k <= e}
<1>11. \A k \in N : (\A j \in N : lev[j] < lev[k] => j \in P) => k \in P
  <2> SUFFICES ASSUME NEW k \in N, \A j \in N : lev[j] < lev[k] => j \in P PROVE k \in P
    OBVIOUS
  <2>1. \A j \in p[k] \ {k} : j \in N /\ k < j /\ s[j] \in D /\ (\A e \in s[j] : j <= e)
    BY <1>2
  <2>2. s[k] = {k} \cup UNION {s[j] : j \in p[k] \ {k}}
    BY <1>10 DEF StarEnds
  <2>3. s[k] \in D
    BY <2>1, <2>2 DEF D, N
  <2>4. ASSUME NEW e \in s[k] PROVE k <= e
    <3>1. CASE e = k
      BY <1>1, <3>1
    <3>2. CASE e # k
      <4>1. PICK j \in p[k] \ {k} : e \in s[j]
        BY <2>2, <3>2
      <4>2. j <= e /\ k < j /\ e \in N /\ j \in N
        BY <2>1, <4>1 DEF D, N
      <4>3. e \in Int /\ j \in Int /\ k \in Int
        BY <1>1, <4>2
      <4> QED
        BY <4>2, <4>3
    <3> QED
      BY <3>1, <3>2
  <2> QED
    BY <2>3, <2>4
<1>12. \A k \in N : lev[k] \in Nat
  BY <1>1
<1> HIDE DEF P
<1>13. N \subseteq P
  BY <1>11, <1>12, LevelInduction
<1>14. s \in [N -> D]
  BY <1>10, <1>13 DEF P
<1> QED
  BY <1>10, <1>13, <1>14 DEF P, Moves, s, N, D

\* The patterns of one character and of a text.
LEMMA OneFacts ==
    ASSUME IsFile, NEW C
    PROVE  /\ Moves(One(C))
           /\ \A k \in Places : \A e : e \in One(C)[k] <=> e = k + 1 /\ k <= Len(input) /\ input[k] \in C
<1>1. \A k \in Places : One(C)[k] = IF k <= Len(input) /\ input[k] \in C THEN {k + 1} ELSE {}
  BY DEF One
<1>2. \A k \in Places : k <= Len(input) => k + 1 \in Places /\ k <= k + 1
  BY PlacesFacts
<1>3. One(C) = [k \in Places |-> One(C)[k]]
  BY DEF One
<1>4. \A k \in Places : One(C)[k] \in SUBSET Places
  BY <1>1, <1>2
<1>5. One(C) \in [Places -> SUBSET Places]
  BY <1>3, <1>4
<1> QED
  BY <1>1, <1>2, <1>5 DEF Moves

\* A text matches where it stands.
LEMMA TextFacts ==
    ASSUME IsFile, NEW t, NEW n \in Nat, Len(t) = n
    PROVE  /\ Moves(Text(t))
           /\ \A k \in Places : \A e :
                 e \in Text(t)[k] <=> /\ e = k + n /\ e \in Places
                                      /\ \A j \in 1..n : input[k+j-1] = t[j]
<1>1. \A k \in Places : Text(t)[k] =
         IF k + n \in Places /\ \A j \in 1..n : input[k+j-1] = t[j]
         THEN {k + n} ELSE {}
  BY DEF Text
<1>2. \A k \in Places : k <= k + n
  BY PlacesFacts
<1>3. Text(t) = [k \in Places |-> Text(t)[k]]
  BY DEF Text
<1>4. \A k \in Places : \A e : e \in Text(t)[k] <=>
         e = k + n /\ e \in Places /\ \A j \in 1..n : input[k+j-1] = t[j]
  <2> SUFFICES ASSUME NEW k \in Places, NEW e
               PROVE  e \in Text(t)[k] <=>
                         e = k + n /\ e \in Places /\ \A j \in 1..n : input[k+j-1] = t[j]
    OBVIOUS
  <2> DEFINE Here == \A j \in 1..n : input[k+j-1] = t[j]
             x == k + n
  <2>1. Text(t)[k] = IF x \in Places /\ Here THEN {x} ELSE {}
    BY <1>1
  <2> HIDE DEF Here, x
  <2>2. e \in Text(t)[k] <=> e = x /\ x \in Places /\ Here
    BY <2>1
  <2> QED
    BY <2>2 DEF Here, x
<1>5. Text(t) \in [Places -> SUBSET Places]
  <2>1. \A k \in Places : Text(t)[k] \in SUBSET Places
    BY <1>4
  <2> QED
    BY <1>3, <2>1
<1> QED
  BY <1>2, <1>4, <1>5 DEF Moves

\* One pattern behind another, and one or another.
LEMMA ThenFacts ==
    ASSUME IsFile, NEW p, NEW q, Moves(p), Moves(q)
    PROVE  /\ Moves(Then(p, q))
           /\ \A k \in Places : \A e : e \in Then(p, q)[k] <=> \E j \in p[k] : e \in q[j]
<1> DEFINE r == Then(p, q)
<1>1. \A k \in Places : r[k] = UNION {q[j] : j \in p[k]}
  BY DEF Then
<1>2. r = [k \in Places |-> r[k]]
  BY DEF Then
<1> HIDE DEF r
<1>3. \A k \in Places : \A e : e \in r[k] <=> \E j \in p[k] : e \in q[j]
  BY <1>1
<1>4. ASSUME NEW k \in Places, NEW e \in r[k] PROVE e \in Places /\ k <= e
  <2>1. PICK j \in p[k] : e \in q[j]
    BY <1>3
  <2>2. j \in Places /\ k <= j
    BY DEF Moves
  <2>3. e \in Places /\ j <= e
    BY <2>1, <2>2 DEF Moves
  <2> QED
    BY <2>2, <2>3, PlacesFacts
<1>5. \A k \in Places : r[k] \in SUBSET Places
  BY <1>4
<1>6. r \in [Places -> SUBSET Places]
  BY <1>2, <1>5
<1>7. Moves(r)
  BY <1>4, <1>6 DEF Moves
<1> QED
  BY <1>3, <1>7 DEF r

\* One of two patterns.
LEMMA OrFacts ==
    ASSUME IsFile, NEW p, NEW q, Moves(p), Moves(q)
    PROVE  /\ Moves(Or(p, q))
           /\ \A k \in Places : \A e : e \in Or(p, q)[k] <=> e \in p[k] \/ e \in q[k]
<1> DEFINE r == Or(p, q)
<1>1. \A k \in Places : r[k] = p[k] \cup q[k]
  BY DEF Or
<1>2. r = [k \in Places |-> r[k]]
  BY DEF Or
<1> HIDE DEF r
<1>3. \A k \in Places : r[k] \in SUBSET Places /\ \A e \in r[k] : k <= e
  BY <1>1 DEF Moves
<1>4. r \in [Places -> SUBSET Places]
  BY <1>2, <1>3
<1>5. Moves(r)
  BY <1>3, <1>4 DEF Moves
<1> QED
  BY <1>1, <1>5 DEF r

\* What the characters of C match from k on, again and again.
Run(C, k) == {e \in Places : k <= e /\ \A j \in k..e-1 : input[j] \in C}

\* Any number of characters of a set: every run of them.
LEMMA StarOne ==
    ASSUME IsFile, NEW C
    PROVE  /\ Moves(Star(One(C)))
           /\ \A k \in Places : Star(One(C))[k] = Run(C, k)
<1> DEFINE s == Star(One(C))
           lev == [k \in Places |-> Len(input) + 1 - k]
           P == {k \in Places : s[k] = Run(C, k)}
<1>1. Moves(s) /\ \A k \in Places : s[k] = StarEnds(s, One(C), k)
  BY OneFacts, StarSolves
<1> HIDE DEF s
<1>2. \A k \in Places : lev[k] \in Nat
  BY PlacesFacts
<1>3. ASSUME NEW k \in Places, \A j \in Places : lev[j] < lev[k] => j \in P
      PROVE  k \in P
  <2>0. k \in Int /\ 1 <= k /\ k <= Len(input) + 1 /\ Len(input) \in Nat
    BY PlacesFacts
  <2>1. CASE k <= Len(input) /\ input[k] \in C
    <3>1. k + 1 \in Places /\ lev[k+1] < lev[k]
      BY <2>0, <2>1, PlacesFacts
    <3>2. s[k+1] = Run(C, k + 1)
      BY <1>3, <3>1
    <3>3. One(C)[k] = {k + 1}
      BY <2>1 DEF One
    <3>4. s[k] = {k} \cup Run(C, k + 1)
      BY <1>1, <2>0, <3>2, <3>3 DEF StarEnds
    <3>5. ASSUME NEW e \in Places PROVE e \in Run(C, k) <=> e = k \/ e \in Run(C, k + 1)
      <4>1. e \in Int
        BY PlacesFacts
      <4>2. e = k => e \in Run(C, k)
        BY <2>0 DEF Run
      <4>3. ASSUME e \in Run(C, k), e # k PROVE e \in Run(C, k + 1)
        BY <2>0, <4>1, <4>3 DEF Run
      <4>4. ASSUME e \in Run(C, k + 1) PROVE e \in Run(C, k)
        <5>1. \A j \in k..e-1 : j = k \/ j \in k+1..e-1
          BY <2>0, <4>1
        <5> QED
          BY <2>0, <2>1, <4>1, <4>4, <5>1 DEF Run
      <4> QED
        BY <4>2, <4>3, <4>4
    <3>6. \A e : e \in Run(C, k) \/ e \in Run(C, k + 1) => e \in Places
      BY DEF Run
    <3> QED
      BY <3>4, <3>5, <3>6
  <2>2. CASE ~(k <= Len(input) /\ input[k] \in C)
    <3>1. One(C)[k] = {}
      BY <2>2 DEF One
    <3>2. s[k] = {k}
      BY <1>1, <3>1 DEF StarEnds
    <3>3. k \in Run(C, k)
      BY <2>0 DEF Run
    <3>4. ASSUME NEW e \in Run(C, k), e # k PROVE FALSE
      <4>1. e \in Int /\ k <= e /\ e <= Len(input) + 1 /\ \A j \in k..e-1 : input[j] \in C
        BY PlacesFacts DEF Run
      <4>2. k \in k..e-1
        BY <2>0, <3>4, <4>1
      <4> QED
        BY <2>0, <2>2, <3>4, <4>1, <4>2
    <3> QED
      BY <3>2, <3>3, <3>4
  <2> QED
    BY <2>1, <2>2
<1> HIDE DEF lev, P
<1>4. Places \subseteq P
  BY <1>2, <1>3, LevelInduction
<1> QED
  BY <1>1, <1>4 DEF P, s

\* The keywords and the names.
LEMMA PlusFacts ==
    ASSUME IsFile, NEW C
    PROVE  /\ Moves(Plus(One(C)))
           /\ \A k \in Places : \A e : e \in Plus(One(C))[k] <=> e \in Run(C, k) /\ k < e
<1>1. Moves(One(C)) /\ Moves(Star(One(C)))
  BY OneFacts, StarOne
<1>2. Moves(Plus(One(C))) /\
      \A k \in Places : \A e : e \in Plus(One(C))[k] <=> \E j \in One(C)[k] : e \in Star(One(C))[j]
  BY <1>1, ThenFacts DEF Plus
<1>3. ASSUME NEW k \in Places, NEW e
      PROVE  e \in Plus(One(C))[k] <=> e \in Run(C, k) /\ k < e
  <2>0. k \in Int /\ 1 <= k /\ k <= Len(input) + 1 /\ Len(input) \in Nat
    BY PlacesFacts
  <2>1. ASSUME e \in Plus(One(C))[k] PROVE e \in Run(C, k) /\ k < e
    <3>1. k <= Len(input) /\ input[k] \in C /\ e \in Star(One(C))[k+1]
      BY <1>2, <2>1, OneFacts
    <3>2. k + 1 \in Places
      BY <2>0, <3>1, PlacesFacts
    <3>3. e \in Places /\ k + 1 <= e /\ \A j \in k+1..e-1 : input[j] \in C
      BY <3>1, <3>2, StarOne DEF Run
    <3>4. e \in Int
      BY <3>3, PlacesFacts
    <3>5. \A j \in k..e-1 : j = k \/ j \in k+1..e-1
      BY <2>0, <3>4
    <3> QED
      BY <2>0, <3>1, <3>3, <3>4, <3>5 DEF Run
  <2>2. ASSUME e \in Run(C, k), k < e PROVE e \in Plus(One(C))[k]
    <3>1. e \in Places /\ \A j \in k..e-1 : input[j] \in C
      BY <2>2 DEF Run
    <3>2. e \in Int /\ e <= Len(input) + 1
      BY <3>1, PlacesFacts
    <3>3. k <= Len(input) /\ input[k] \in C /\ k + 1 <= e
      BY <2>0, <2>2, <3>1, <3>2
    <3>4. k + 1 \in Places /\ k + 1 \in One(C)[k]
      BY <2>0, <3>3, OneFacts, PlacesFacts
    <3>5. e \in Run(C, k + 1)
      BY <2>0, <3>1, <3>2, <3>3 DEF Run
    <3> QED
      BY <1>2, <3>4, <3>5, StarOne
  <2> QED
    BY <2>1, <2>2
<1> QED
  BY <1>2, <1>3

\* One character, then any number of others.
LEMMA OneStarFacts ==
    ASSUME IsFile, NEW C, NEW D
    PROVE  /\ Moves(Then(One(C), Star(One(D))))
           /\ \A k \in Places : \A e : e \in Then(One(C), Star(One(D)))[k] <=>
                 k <= Len(input) /\ input[k] \in C /\ e \in Run(D, k + 1)
<1> DEFINE r == Then(One(C), Star(One(D)))
<1>1. Moves(One(C)) /\ Moves(Star(One(D)))
  BY OneFacts, StarOne
<1>2. Moves(r) /\ \A k \in Places : \A e : e \in r[k] <=> \E j \in One(C)[k] : e \in Star(One(D))[j]
  BY <1>1, ThenFacts
<1> HIDE DEF r
<1>3. ASSUME NEW k \in Places, NEW e
      PROVE  e \in r[k] <=> k <= Len(input) /\ input[k] \in C /\ e \in Run(D, k + 1)
  <2>1. \A j : j \in One(C)[k] <=> j = k + 1 /\ k <= Len(input) /\ input[k] \in C
    BY OneFacts
  <2>2. k <= Len(input) => k + 1 \in Places
    BY PlacesFacts
  <2>3. k <= Len(input) => Star(One(D))[k+1] = Run(D, k + 1)
    BY <2>2, StarOne
  <2> QED
    BY <1>2, <2>1, <2>3
<1> QED
  BY <1>2, <1>3 DEF r

\* What the rules of one character after another match.
LEMMA SimpleRules ==
    ASSUME IsFile
    PROVE  /\ Moves(WhiteSpace) /\ Moves(LineComment) /\ Moves(Identifier)
           /\ Moves(Decimal) /\ Moves(Octal) /\ Moves(Hexadecimal) /\ Moves(Except("\n"))
           /\ \A k \in Places : \A e : e \in WhiteSpace[k] <=> e \in Run(Blank, k)
           /\ \A k \in Places : \A e : e \in LineComment[k] <=>
                 Pair(k, "/", "/") /\ e \in Run(Chars \ {"\n"}, k + 2)
           /\ \A k \in Places : \A e : e \in Identifier[k] <=>
                 k <= Len(input) /\ input[k] \in Letter /\ e \in Run(WordChars, k + 1)
           /\ \A k \in Places : \A e : e \in Decimal[k] <=>
                 k <= Len(input) /\ input[k] \in Below(10) \ {"0"} /\ e \in Run(Below(10), k + 1)
           /\ \A k \in Places : \A e : e \in Octal[k] <=>
                 k <= Len(input) /\ input[k] = "0" /\ e \in Run(Below(8), k + 1)
           /\ \A k \in Places : \A e : e \in Hexadecimal[k] <=>
                 /\ k < Len(input) /\ input[k] = "0" /\ input[k+1] \in {"x", "X"}
                 /\ e \in Run(Below(16), k + 2) /\ k + 2 < e
           /\ \A k \in Places : \A e : e \in Except("\n")[k] <=>
                 e = k + 1 /\ k <= Len(input) /\ input[k] \in Chars \ {"\n"}
<1>1. Moves(WhiteSpace) /\ \A k \in Places : \A e : e \in WhiteSpace[k] <=> e \in Run(Blank, k)
  BY StarOne DEF WhiteSpace
<1>2. Moves(Identifier) /\ \A k \in Places : \A e : e \in Identifier[k] <=>
                 k <= Len(input) /\ input[k] \in Letter /\ e \in Run(WordChars, k + 1)
  BY OneStarFacts DEF Identifier, WordChars
<1>3. Moves(Decimal) /\ \A k \in Places : \A e : e \in Decimal[k] <=>
                 k <= Len(input) /\ input[k] \in Below(10) \ {"0"} /\ e \in Run(Below(10), k + 1)
  BY OneStarFacts DEF Decimal
<1>4. Moves(Octal) /\ \A k \in Places : \A e : e \in Octal[k] <=>
                 k <= Len(input) /\ input[k] = "0" /\ e \in Run(Below(8), k + 1)
  BY OneStarFacts DEF Octal, Char
<1>5. Moves(Except("\n")) /\ \A k \in Places : \A e : e \in Except("\n")[k] <=>
                 e = k + 1 /\ k <= Len(input) /\ input[k] \in Chars \ {"\n"}
  BY OneFacts DEF Except
<1>6. Moves(LineComment) /\ \A k \in Places : \A e : e \in LineComment[k] <=>
                 Pair(k, "/", "/") /\ e \in Run(Chars \ {"\n"}, k + 2)
  <2> DEFINE t == <<"/", "/">>
             q == Star(One(Chars \ {"\n"}))
  <2>1. Len(t) = 2 /\ t[1] = "/" /\ t[2] = "/"
    OBVIOUS
  <2> HIDE DEF t
  <2>2. PICK n \in Nat : n = 2 /\ Len(t) = n
    BY <2>1
  <2>2a. Moves(Text(t)) /\ \A k \in Places : \A e :
           e \in Text(t)[k] <=> e = k + n /\ e \in Places /\ \A j \in 1..n : input[k+j-1] = t[j]
    BY <2>1, <2>2, TextFacts
  <2>3. \A k \in Places : \A e : e \in Text(t)[k] <=> e = k + 2 /\ Pair(k, "/", "/")
    <3> SUFFICES ASSUME NEW k \in Places, NEW e PROVE e \in Text(t)[k] <=> e = k + 2 /\ Pair(k, "/", "/")
      OBVIOUS
    <3>1. k + 1 - 1 = k /\ k + 2 - 1 = k + 1 /\ (k + 2 \in Places <=> k < Len(input))
      BY PlacesFacts
    <3> QED
      BY <2>1, <2>2, <2>2a, <3>1 DEF Pair
  <2>4. Moves(q) /\ \A k \in Places : q[k] = Run(Chars \ {"\n"}, k)
    BY StarOne
  <2>5. LineComment = Then(Text(t), q)
    BY DEF LineComment, Except, t
  <2> HIDE DEF q
  <2>6. Moves(LineComment) /\ \A k \in Places : \A e :
           e \in LineComment[k] <=> \E j \in Text(t)[k] : e \in q[j]
    BY <2>2a, <2>4, <2>5, ThenFacts
  <2>7. \A k \in Places : Pair(k, "/", "/") => k + 2 \in Places
    BY PlacesFacts DEF Pair
  <2> QED
    BY <2>3, <2>4, <2>6, <2>7
<1>7. Moves(Hexadecimal) /\ \A k \in Places : \A e : e \in Hexadecimal[k] <=>
                 /\ k < Len(input) /\ input[k] = "0" /\ input[k+1] \in {"x", "X"}
                 /\ e \in Run(Below(16), k + 2) /\ k + 2 < e
  <2> DEFINE q == Plus(One(Below(16)))
             r == Then(One({"x", "X"}), q)
  <2>1. Moves(q) /\ \A k \in Places : \A e : e \in q[k] <=> e \in Run(Below(16), k) /\ k < e
    BY PlusFacts
  <2>2. Moves(One({"x", "X"})) /\ Moves(One({"0"}))
    BY OneFacts
  <2> HIDE DEF q
  <2>3. Moves(r) /\ \A k \in Places : \A e : e \in r[k] <=> \E j \in One({"x", "X"})[k] : e \in q[j]
    BY <2>1, <2>2, ThenFacts
  <2>4. Hexadecimal = Then(One({"0"}), r)
    BY DEF Hexadecimal, Char, q
  <2> HIDE DEF r
  <2>5. Moves(Hexadecimal) /\ \A k \in Places : \A e :
           e \in Hexadecimal[k] <=> \E j \in One({"0"})[k] : e \in r[j]
    BY <2>2, <2>3, <2>4, ThenFacts
  <2>6. ASSUME NEW k \in Places, NEW e
        PROVE  e \in Hexadecimal[k] <=>
                 /\ k < Len(input) /\ input[k] = "0" /\ input[k+1] \in {"x", "X"}
                 /\ e \in Run(Below(16), k + 2) /\ k + 2 < e
    <3>0. k \in Int /\ Len(input) \in Nat /\ (k + 1) + 1 = k + 2
      BY PlacesFacts
    <3>1. \A j : j \in One({"0"})[k] <=> j = k + 1 /\ k <= Len(input) /\ input[k] = "0"
      BY OneFacts
    <3>2. k <= Len(input) => k + 1 \in Places
      BY PlacesFacts
    <3>3. k <= Len(input) => \A j : j \in One({"x", "X"})[k+1] <=>
             j = k + 2 /\ k + 1 <= Len(input) /\ input[k+1] \in {"x", "X"}
      BY <3>0, <3>2, OneFacts
    <3>4. k < Len(input) => k + 2 \in Places /\ k + 1 <= Len(input) /\ k <= Len(input)
      BY PlacesFacts
    <3>5. k + 1 <= Len(input) => k < Len(input)
      BY <3>0
    <3>6. e \in Hexadecimal[k] <=> k <= Len(input) /\ input[k] = "0" /\ e \in r[k+1]
      BY <2>5, <3>1
    <3>7. k <= Len(input) => (e \in r[k+1] <=>
             k + 1 <= Len(input) /\ input[k+1] \in {"x", "X"} /\ e \in q[k+2])
      BY <2>3, <3>2, <3>3
    <3>8. k < Len(input) => (e \in q[k+2] <=> e \in Run(Below(16), k + 2) /\ k + 2 < e)
      BY <2>1, <3>4
    <3> QED
      BY <3>4, <3>5, <3>6, <3>7, <3>8
  <2> QED
    BY <2>5, <2>6
<1> QED
  BY <1>1, <1>2, <1>3, <1>4, <1>5, <1>6, <1>7

\* Where the next */ is.
LEMMA MinFacts ==
    ASSUME NEW S, S \subseteq Nat, S # {}
    PROVE  Min(S) \in S /\ \A y \in S : Min(S) <= y
<1>1. PICK x \in S : \A y \in S : x <= y
  BY LeastElement
<1> QED
  BY <1>1 DEF Min

\* A least element is the minimum.
LEMMA MinIs ==
    ASSUME NEW S, S \subseteq Int, NEW x \in S, \A y \in S : x <= y
    PROVE  Min(S) = x
<1>1. \A y \in S : (\A z \in S : y <= z) => y = x
  OBVIOUS
<1> QED
  BY <1>1 DEF Min

\* A part of a comment, and the end of it.
Body == Or(Except("*"), Then(Plus(Char("*")), One(Chars \ {"*", "/"})))
CloseComment == Then(Plus(Char("*")), Char("/"))

\* What one part of a comment takes, and what its end.
LEMMA BodyFacts ==
    ASSUME IsFile
    PROVE  /\ Moves(Body) /\ Moves(CloseComment)
           /\ \A k \in Places : \A e : e \in Body[k] <=>
                 \/ e = k + 1 /\ k <= Len(input) /\ input[k] \in Chars \ {"*"}
                 \/ \E f \in Run({"*"}, k) : /\ k < f /\ f <= Len(input) /\ e = f + 1
                                             /\ input[f] \in Chars \ {"*", "/"}
           /\ \A k \in Places : \A e : e \in CloseComment[k] <=>
                 \E f \in Run({"*"}, k) : k < f /\ f <= Len(input) /\ input[f] = "/" /\ e = f + 1
<1> DEFINE p == Plus(One({"*"}))
           q == One(Chars \ {"*", "/"})
           r == Then(p, q)
           a == One(Chars \ {"*"})
           b == One({"/"})
<1>0. \A k : \A f \in Run({"*"}, k) : f \in Places
  BY DEF Run
<1>1. Moves(p) /\ \A k \in Places : \A f : f \in p[k] <=> f \in Run({"*"}, k) /\ k < f
  BY PlusFacts
<1>2. Moves(q) /\ \A f \in Places : \A e : e \in q[f] <=>
         e = f + 1 /\ f <= Len(input) /\ input[f] \in Chars \ {"*", "/"}
  BY OneFacts
<1>3. Moves(a) /\ \A k \in Places : \A e : e \in a[k] <=>
         e = k + 1 /\ k <= Len(input) /\ input[k] \in Chars \ {"*"}
  BY OneFacts
<1>4. Moves(b) /\ \A f \in Places : \A e : e \in b[f] <=>
         e = f + 1 /\ f <= Len(input) /\ input[f] = "/"
  BY OneFacts
<1>5. Body = Or(a, r) /\ CloseComment = Then(p, b)
  BY DEF Body, CloseComment, Except, Char
<1> HIDE DEF a, b, p, q
<1>6. Moves(r) /\ \A k \in Places : \A e : e \in r[k] <=> \E f \in p[k] : e \in q[f]
  BY <1>1, <1>2, ThenFacts
<1>7. Moves(CloseComment) /\ \A k \in Places : \A e : e \in CloseComment[k] <=> \E f \in p[k] : e \in b[f]
  BY <1>1, <1>4, <1>5, ThenFacts
<1> HIDE DEF r
<1>8. Moves(Body) /\ \A k \in Places : \A e : e \in Body[k] <=> e \in a[k] \/ e \in r[k]
  BY <1>3, <1>5, <1>6, OrFacts
<1>9. ASSUME NEW k \in Places, NEW e
      PROVE  e \in CloseComment[k] <=>
                \E f \in Run({"*"}, k) : k < f /\ f <= Len(input) /\ input[f] = "/" /\ e = f + 1
  <2>1. e \in CloseComment[k] <=> \E f \in p[k] : e \in b[f]
    BY <1>7
  <2>2. \A f : f \in p[k] <=> f \in Run({"*"}, k) /\ k < f
    BY <1>1
  <2> QED
    BY <1>0, <1>4, <2>1, <2>2
<1>10. ASSUME NEW k \in Places, NEW e
       PROVE  e \in r[k] <=> \E f \in Run({"*"}, k) : /\ k < f /\ f <= Len(input) /\ e = f + 1
                                                      /\ input[f] \in Chars \ {"*", "/"}
  <2>1. e \in r[k] <=> \E f \in p[k] : e \in q[f]
    BY <1>6
  <2>2. \A f : f \in p[k] <=> f \in Run({"*"}, k) /\ k < f
    BY <1>1
  <2> QED
    BY <1>0, <1>2, <2>1, <2>2
<1>11. ASSUME NEW k \in Places, NEW e
       PROVE  e \in Body[k] <=>
                 \/ e = k + 1 /\ k <= Len(input) /\ input[k] \in Chars \ {"*"}
                 \/ \E f \in Run({"*"}, k) : /\ k < f /\ f <= Len(input) /\ e = f + 1
                                             /\ input[f] \in Chars \ {"*", "/"}
  BY <1>3, <1>8, <1>10
<1> QED
  BY <1>7, <1>8, <1>9, <1>11

\* No */ lies in the places from k up to, but not including, e.
NoClose(k, e) == \A m \in k..e-1 : ~Pair(m, "*", "/")

\* The parts of a comment do not run over a */.
LEMMA BodyHasNoClose ==
    ASSUME IsFile, NEW k \in Places
    PROVE  \A e \in Star(Body)[k] : e \in Places /\ k <= e /\ NoClose(k, e)
<1> DEFINE s == Star(Body)
           lev == [j \in Places |-> Len(input) + 1 - j]
           P == {j \in Places : \A e \in s[j] : NoClose(j, e)}
<1>1. Moves(s) /\ \A j \in Places : s[j] = StarEnds(s, Body, j)
  BY BodyFacts, StarSolves
<1> HIDE DEF s
<1>2. \A j \in Places : lev[j] \in Nat
  BY PlacesFacts
<1>3. ASSUME NEW j \in Places, \A i \in Places : lev[i] < lev[j] => i \in P
      PROVE  j \in P
  <2> SUFFICES ASSUME NEW e \in s[j], NEW m \in j..e-1, Pair(m, "*", "/") PROVE FALSE
    BY DEF NoClose
  <2>0. j \in Int /\ 1 <= j /\ j <= Len(input) + 1 /\ Len(input) \in Nat
    BY PlacesFacts
  <2>1. e \in Places /\ e \in Int /\ j <= e /\ m \in Int /\ j <= m /\ m < e
    <3>1. e \in Places
      BY <1>1 DEF Moves
    <3>2. e \in Int
      BY <3>1, PlacesFacts
    <3> QED
      BY <1>1, <2>0, <3>1, <3>2
  <2>2. PICK i \in Body[j] \ {j} : e \in s[i]
    BY <1>1, <2>1 DEF StarEnds
  <2>3. i \in Places /\ i \in Int /\ j < i /\ lev[i] < lev[j]
    <3>1. i \in Places /\ j <= i
      BY BodyFacts DEF Moves
    <3>2. i \in Int /\ i <= Len(input) + 1
      BY <3>1, PlacesFacts
    <3> QED
      BY <2>0, <3>1, <3>2
  <2>4. ~(i <= m)
    <3>1. NoClose(i, e)
      BY <1>3, <2>2, <2>3
    <3> QED
      BY <2>1, <2>3, <3>1 DEF NoClose
  <2>5. m < Len(input) /\ input[m] = "*" /\ input[m+1] = "/"
    BY DEF Pair
  <2>6. ASSUME i = j + 1, input[j] \in Chars \ {"*"} PROVE FALSE
    BY <2>0, <2>1, <2>3, <2>4, <2>5, <2>6
  <2>7. ASSUME NEW f \in Run({"*"}, j), i = f + 1, input[f] \in Chars \ {"*", "/"} PROVE FALSE
    <3>1. f \in Int /\ \A x \in j..f-1 : input[x] = "*"
      BY PlacesFacts DEF Run
    <3>2. m + 1 \in j..f-1 \/ m + 1 = f \/ m = f
      BY <2>0, <2>1, <2>3, <2>4, <2>7, <3>1
    <3> QED
      BY <2>5, <2>7, <3>1, <3>2
  <2> QED
    BY <2>2, <2>6, <2>7, BodyFacts
<1> HIDE DEF lev, P
<1>4. Places \subseteq P
  BY <1>2, <1>3, LevelInduction
<1> QED
  BY <1>1, <1>4 DEF P, s, Moves

\* They reach the stars before the first */.
LEMMA BodyReachesClose ==
    ASSUME IsFile, NEW c \in Nat, Pair(c, "*", "/"), NEW k \in Places, k <= c, NoClose(k, c)
    PROVE  \E j \in Star(Body)[k] : j <= c /\ \A i \in j..c : input[i] = "*"
<1> DEFINE s == Star(Body)
           lev == [j \in Places |-> Len(input) + 1 - j]
           Good(b) == \E j \in s[b] : j <= c /\ \A i \in j..c : input[i] = "*"
           P == {b \in Places : b <= c /\ NoClose(b, c) => Good(b)}
<1>1. Moves(s) /\ \A j \in Places : s[j] = StarEnds(s, Body, j)
  BY BodyFacts, StarSolves
<1> HIDE DEF s
<1>2. \A j \in Places : lev[j] \in Nat
  BY PlacesFacts
<1>3. c < Len(input) /\ input[c] = "*" /\ input[c+1] = "/" /\ Len(input) \in Nat
  BY PlacesFacts DEF Pair
<1>4. ASSUME NEW b \in Places, \A i \in Places : lev[i] < lev[b] => i \in P
      PROVE  b \in P
  <2> SUFFICES ASSUME b <= c, NoClose(b, c) PROVE Good(b)
    OBVIOUS
  <2>0. b \in Int /\ 1 <= b /\ b <= Len(input) /\ input[b] \in Chars
    BY <1>3, PlacesFacts
  <2>1. ASSUME NEW j \in Body[b], b < j, j <= c PROVE Good(b)
    <3>1. j \in Places /\ j \in Int /\ lev[j] < lev[b]
      <4>1. j \in Places
        BY BodyFacts DEF Moves
      <4>2. j \in Int
        BY <4>1, PlacesFacts
      <4> QED
        BY <1>3, <2>0, <2>1, <4>1, <4>2
    <3>2. NoClose(j, c)
      <4>1. \A m \in j..c-1 : m \in b..c-1
        BY <2>0, <2>1, <3>1
      <4> QED
        BY <4>1 DEF NoClose
    <3>3. Good(j)
      BY <1>4, <2>1, <3>1, <3>2
    <3>4. s[j] \subseteq s[b]
      BY <1>1, <2>0, <2>1, <3>1 DEF StarEnds
    <3> QED
      BY <3>3, <3>4
  <2>2. CASE \A i \in b..c : input[i] = "*"
    <3>1. b \in s[b]
      BY <1>1 DEF StarEnds
    <3> QED
      BY <2>2, <3>1
  <2>3. CASE ~(\A i \in b..c : input[i] = "*")
    <3> DEFINE T == {i \in b..c : input[i] # "*"}
    <3>1. T \subseteq Nat /\ T # {}
      BY <2>0, <2>3
    <3>2. PICK f \in T : \A i \in T : f <= i
      BY <3>1, LeastElement
    <3>3. f \in b..c /\ f \in Int /\ input[f] # "*" /\ f # c /\ f < c /\ f <= Len(input)
      BY <1>3, <2>0, <3>2
    <3>4. \A i \in b..f-1 : input[i] = "*"
      BY <2>0, <3>2, <3>3
    <3>5. f \in Places /\ f + 1 <= c /\ b < f + 1 /\ input[f] \in Chars
      BY <1>3, <2>0, <3>3, PlacesFacts
    <3>6. CASE f = b
      <4>1. f + 1 \in Body[b]
        BY <2>0, <3>3, <3>5, <3>6, BodyFacts
      <4> QED
        BY <2>1, <3>5, <4>1
    <3>7. CASE b < f
      <4>1. f \in Run({"*"}, b)
        BY <2>0, <3>4, <3>5, <3>7 DEF Run
      <4>2. input[f] # "/"
        <5>1. f - 1 \in b..c-1 /\ f - 1 \in b..f-1 /\ (f - 1) + 1 = f /\ f - 1 < Len(input)
          BY <1>3, <2>0, <3>3, <3>7
        <5>2. input[f-1] = "*" /\ ~Pair(f - 1, "*", "/")
          BY <3>4, <5>1 DEF NoClose
        <5> QED
          BY <5>1, <5>2 DEF Pair
      <4>3. f + 1 \in Body[b]
        BY <3>3, <3>5, <3>7, <4>1, <4>2, BodyFacts
      <4> QED
        BY <2>1, <3>5, <4>3
    <3> QED
      BY <2>0, <3>3, <3>6, <3>7
  <2> QED
    BY <2>2, <2>3
<1> HIDE DEF lev, P
<1>5. Places \subseteq P
  BY <1>2, <1>4, LevelInduction
<1> QED
  BY <1>5 DEF P, s

\* The third rule matches exactly the comment up to the first */.
LEMMA LinesCommentFacts ==
    ASSUME IsFile
    PROVE  /\ Moves(LinesComment)
           /\ \A k \in Places : \A e : e \in LinesComment[k] <=>
                 Pair(k, "/", "*") /\ Closes(k + 2) # {} /\ e = Min(Closes(k + 2)) + 2
<1> DEFINE t == <<"/", "*">>
           q == Star(Body)
           r == Then(q, CloseComment)
<1>1. t[1] = "/" /\ t[2] = "*"
  OBVIOUS
<1>2. PICK n \in Nat : n = 2 /\ Len(t) = n
  OBVIOUS
<1> HIDE DEF t
<1>3. Moves(Text(t)) /\ \A k \in Places : \A e :
         e \in Text(t)[k] <=> e = k + n /\ e \in Places /\ \A j \in 1..n : input[k+j-1] = t[j]
  BY <1>2, TextFacts
<1>4. \A k \in Places : \A e : e \in Text(t)[k] <=> e = k + 2 /\ Pair(k, "/", "*")
  <2> SUFFICES ASSUME NEW k \in Places, NEW e PROVE e \in Text(t)[k] <=> e = k + 2 /\ Pair(k, "/", "*")
    OBVIOUS
  <2>1. k + 1 - 1 = k /\ k + 2 - 1 = k + 1 /\ (k + 2 \in Places <=> k < Len(input))
    BY PlacesFacts
  <2> QED
    BY <1>1, <1>2, <1>3, <2>1 DEF Pair
<1>5. Moves(q) /\ Moves(CloseComment)
  BY BodyFacts, StarSolves
<1>6. LinesComment = Then(Text(t), r)
  BY DEF LinesComment, Body, CloseComment, t
<1> HIDE DEF q
<1>7. Moves(r) /\ \A k \in Places : \A e : e \in r[k] <=> \E j \in q[k] : e \in CloseComment[j]
  BY <1>5, ThenFacts
<1> HIDE DEF r
<1>8. Moves(LinesComment) /\ \A k \in Places : \A e :
         e \in LinesComment[k] <=> \E j \in Text(t)[k] : e \in r[j]
  BY <1>3, <1>6, <1>7, ThenFacts
<1>9. ASSUME NEW k \in Places, NEW e
      PROVE  e \in r[k] <=> Closes(k) # {} /\ e = Min(Closes(k)) + 2
  <2>0. k \in Int /\ 1 <= k /\ k <= Len(input) + 1 /\ Len(input) \in Nat
    BY PlacesFacts
  <2>1. Closes(k) \subseteq Nat
    BY <2>0 DEF Closes
  <2>2. ASSUME e \in r[k] PROVE Closes(k) # {} /\ e = Min(Closes(k)) + 2
    <3>1. PICK j \in q[k] : e \in CloseComment[j]
      BY <1>7, <2>2
    <3>2. j \in Places /\ k <= j /\ NoClose(k, j)
      BY <3>1, BodyHasNoClose DEF q
    <3>3. PICK f \in Run({"*"}, j) : j < f /\ f <= Len(input) /\ input[f] = "/" /\ e = f + 1
      BY <3>1, <3>2, BodyFacts
    <3>4. j \in Int /\ f \in Int /\ \A i \in j..f-1 : input[i] = "*"
      BY <3>2, PlacesFacts DEF Run
    <3>5. f - 1 \in Closes(k)
      <4>1. f - 1 \in j..f-1 /\ f - 1 \in k..Len(input)-1 /\ (f - 1) + 1 = f /\ f - 1 < Len(input)
        BY <2>0, <3>2, <3>3, <3>4
      <4> QED
        BY <3>3, <3>4, <4>1 DEF Closes, Pair
    <3>6. ASSUME NEW m \in Closes(k), m < f - 1 PROVE FALSE
      <4>1. m \in k..Len(input)-1 /\ m \in Int /\ Pair(m, "*", "/")
        BY <2>0 DEF Closes
      <4>2. CASE m < j
        <5>1. m \in k..j-1
          BY <2>0, <3>4, <4>1, <4>2
        <5> QED
          BY <3>2, <4>1, <5>1 DEF NoClose
      <4>3. CASE j <= m
        <5>1. m + 1 \in j..f-1
          BY <3>4, <3>6, <4>1, <4>3
        <5>2. input[m+1] = "*"
          BY <3>4, <5>1
        <5> QED
          BY <4>1, <5>2 DEF Pair
      <4> QED
        BY <3>4, <4>1, <4>2, <4>3
    <3>7. \A m \in Closes(k) : f - 1 <= m
      BY <2>1, <3>4, <3>6
    <3>8. Closes(k) \subseteq Int
      BY <2>1
    <3>9. Min(Closes(k)) = f - 1
      BY <3>5, <3>7, <3>8, MinIs
    <3> QED
      BY <3>3, <3>4, <3>5, <3>9
  <2>3. ASSUME Closes(k) # {}, e = Min(Closes(k)) + 2 PROVE e \in r[k]
    <3> DEFINE c == Min(Closes(k))
    <3>1. c \in Closes(k) /\ \A m \in Closes(k) : c <= m
      BY <2>1, <2>3, MinFacts
    <3> HIDE DEF c
    <3>2. c \in Nat /\ k <= c /\ c < Len(input) /\ Pair(c, "*", "/")
      BY <2>0, <3>1 DEF Closes
    <3>3. NoClose(k, c)
      <4> SUFFICES ASSUME NEW m \in k..c-1, Pair(m, "*", "/") PROVE FALSE
        BY DEF NoClose
      <4>1. m \in k..Len(input)-1 /\ m \in Int /\ m < c
        BY <2>0, <3>2
      <4>2. m \in Closes(k)
        BY <4>1 DEF Closes
      <4> QED
        BY <3>1, <3>2, <4>1, <4>2
    <3>4. PICK j \in q[k] : j <= c /\ \A i \in j..c : input[i] = "*"
      BY <3>2, <3>3, BodyReachesClose DEF q
    <3>5. j \in Places /\ j \in Int
      <4>1. j \in Places
        BY <1>5 DEF Moves
      <4> QED
        BY <4>1, PlacesFacts
    <3>6. c + 1 \in Places /\ c + 1 <= Len(input) /\ input[c+1] = "/" /\ (c + 1) - 1 = c /\ j < c + 1
      BY <3>2, <3>4, <3>5, PlacesFacts DEF Pair
    <3>7. c + 1 \in Run({"*"}, j)
      <4>1. \A i \in j..c : input[i] \in {"*"}
        BY <3>4
      <4>2. j <= c + 1
        BY <3>2, <3>4, <3>5
      <4> QED
        BY <3>6, <4>1, <4>2 DEF Run
    <3>8. (c + 1) + 1 \in CloseComment[j]
      BY <3>5, <3>6, <3>7, BodyFacts
    <3>9. e = (c + 1) + 1
      BY <2>3, <3>2 DEF c
    <3> QED
      BY <1>7, <3>8, <3>9
  <2> QED
    BY <2>2, <2>3
<1>10. \A k \in Places : Pair(k, "/", "*") => k + 2 \in Places
  BY PlacesFacts DEF Pair
<1> QED
  BY <1>4, <1>8, <1>9, <1>10

\* Where a comment ends, by what it begins with.
LEMMA CommentFacts ==
    ASSUME IsFile, NEW k \in Places, k <= Len(input)
    PROVE  /\ CommentEnd(k) \in Places /\ k <= CommentEnd(k)
           /\ Pair(k, "/", "/") => /\ k + 2 <= CommentEnd(k)
                                   /\ \A j \in k..CommentEnd(k)-1 : input[j] # "\n"
                                   /\ CommentEnd(k) <= Len(input) => input[CommentEnd(k)] = "\n"
           /\ ~Pair(k, "/", "/") /\ Pair(k, "/", "*") /\ Closes(k + 2) # {} =>
                 k + 2 <= CommentEnd(k) /\ CommentEnd(k) = Min(Closes(k + 2)) + 2
           /\ CommentEnd(k) > k =>
                 Pair(k, "/", "/") \/ (Pair(k, "/", "*") /\ Closes(k + 2) # {})
<1>0. k \in Int /\ 1 <= k /\ Len(input) \in Nat
  BY PlacesFacts
<1>1. CASE Pair(k, "/", "/")
  <2> DEFINE T == {j \in k..Len(input) : input[j] = "\n"} \cup {Len(input) + 1}
             e == Min(T)
  <2>1. T \subseteq Nat /\ T # {}
    BY <1>0
  <2>2. e \in T /\ \A j \in T : e <= j
    BY <2>1, MinFacts
  <2>3. CommentEnd(k) = e
    <3>1. ~Pair(k, "/", "*")
      BY <1>1 DEF Pair
    <3> QED
      BY <1>1, <3>1 DEF CommentEnd
  <2> HIDE DEF e
  <2>4. e \in Nat /\ k <= e /\ e <= Len(input) + 1
    BY <1>0, <2>2
  <2>5. e <= Len(input) => input[e] = "\n"
    BY <2>2, <2>4
  <2>6. \A j \in k..e-1 : input[j] # "\n"
    <3> SUFFICES ASSUME NEW j \in k..e-1, input[j] = "\n" PROVE FALSE
      OBVIOUS
    <3>1. j \in k..Len(input) /\ j < e /\ j \in Int
      BY <1>0, <2>4
    <3>2. e <= j
      BY <2>2, <3>1
    <3> QED
      BY <2>4, <3>1, <3>2
  <2>7. e # k /\ e # k + 1
    <3>1. k < Len(input) /\ input[k] = "/" /\ input[k+1] = "/" /\ "/" # "\n"
      BY <1>1 DEF Pair
    <3>2. k + 1 <= Len(input)
      BY <1>0, <3>1
    <3> QED
      BY <2>5, <3>1, <3>2
  <2>8. e \in Places /\ k + 2 <= e
    BY <1>0, <2>4, <2>7, PlacesFacts
  <2>9. CommentEnd(k) \in Places /\ k <= CommentEnd(k) /\ k + 2 <= CommentEnd(k)
    BY <2>3, <2>4, <2>8
  <2>10. /\ \A j \in k..CommentEnd(k)-1 : input[j] # "\n"
         /\ CommentEnd(k) <= Len(input) => input[CommentEnd(k)] = "\n"
    BY <2>3, <2>5, <2>6
  <2> QED
    BY <1>1, <2>9, <2>10
<1>2. CASE ~Pair(k, "/", "/") /\ Pair(k, "/", "*") /\ Closes(k + 2) # {}
  <2> DEFINE c == Min(Closes(k + 2))
  <2>1. Closes(k + 2) \subseteq Nat
    BY <1>0 DEF Closes
  <2>2. c \in Closes(k + 2)
    BY <1>2, <2>1, MinFacts
  <2>3. CommentEnd(k) = c + 2
    BY <1>2 DEF CommentEnd
  <2> HIDE DEF c
  <2>4. c \in Nat /\ k + 2 <= c /\ c <= Len(input) - 1
    BY <1>0, <2>2 DEF Closes
  <2>5. c + 2 \in Places /\ k + 2 <= c + 2
    BY <1>0, <2>4, PlacesFacts
  <2>6. CommentEnd(k) \in Places /\ k <= CommentEnd(k) /\ k + 2 <= CommentEnd(k)
    BY <1>0, <2>3, <2>4, <2>5
  <2> QED
    BY <1>2, <2>3, <2>6 DEF c
<1>3. CASE ~Pair(k, "/", "/") /\ ~(Pair(k, "/", "*") /\ Closes(k + 2) # {})
  <2>1. CommentEnd(k) = k
    BY <1>3 DEF CommentEnd
  <2> QED
    BY <1>0, <1>3, <2>1
<1> QED
  BY <1>1, <1>2, <1>3

\* The recursion of CodeFrom has a solution: places from k on.
LEMMA CodeSolves ==
    ASSUME IsFile
    PROVE  \A k \in Places : /\ CodeFrom[k] = CodeOf(CodeFrom, k)
                             /\ CodeFrom[k] \subseteq k..Len(input)
<1> DEFINE N == Places
           D == SUBSET Places
           lev == [k \in N |-> Len(input) + 1 - k]
           step == [q \in [N -> D] \X N |-> CodeOf(q[1], q[2])]
<1>1. \A k \in N : k \in Int /\ lev[k] \in Nat
  BY PlacesFacts
<1>2. \A k \in N : k <= Len(input) =>
         /\ k + 1 \in N /\ lev[k+1] < lev[k]
         /\ CommentEnd(k) > k => CommentEnd(k) \in N /\ lev[CommentEnd(k)] < lev[k]
  <2> SUFFICES ASSUME NEW k \in N, k <= Len(input)
               PROVE  /\ k + 1 \in N /\ lev[k+1] < lev[k]
                      /\ CommentEnd(k) > k => CommentEnd(k) \in N /\ lev[CommentEnd(k)] < lev[k]
    OBVIOUS
  <2>0. k \in Int /\ 1 <= k /\ Len(input) \in Nat
    BY PlacesFacts
  <2>1. k + 1 \in N /\ lev[k+1] < lev[k]
    BY <2>0, PlacesFacts
  <2>2. PICK e : e = CommentEnd(k)
    OBVIOUS
  <2>3. e \in N /\ e \in Int
    BY <2>2, CommentFacts, PlacesFacts
  <2>4. e > k => lev[e] < lev[k]
    BY <2>0, <2>3
  <2> QED
    BY <2>1, <2>2, <2>3, <2>4
<1>3. ASSUME NEW f, NEW k \in N, \A j \in N : lev[j] < lev[k] => f[j] \in D
      PROVE  CodeOf(f, k) \in D
  <2>1. CASE k > Len(input)
    <3>1. ~(k <= Len(input))
      BY <1>1, <2>1, PlacesFacts
    <3> QED
      BY <2>1, <3>1 DEF CodeOf
  <2>2. CASE k <= Len(input) /\ CommentEnd(k) > k
    <3>1. f[CommentEnd(k)] \in D
      BY <1>2, <1>3, <2>2
    <3>2. ~(k > Len(input))
      BY <2>2, PlacesFacts
    <3> QED
      BY <2>2, <3>1, <3>2 DEF CodeOf
  <2>3. CASE k <= Len(input) /\ ~(CommentEnd(k) > k)
    <3>1. f[k+1] \in D
      BY <1>2, <1>3, <2>3
    <3>2. ~(k > Len(input))
      BY <2>3, PlacesFacts
    <3> QED
      BY <2>3, <3>1, <3>2 DEF CodeOf
  <2> QED
    BY <1>1, <2>1, <2>2, <2>3, PlacesFacts
<1>4. step \in [[N -> D] \X N -> D] /\ \A f \in [N -> D], k \in N : step[<<f, k>>] = CodeOf(f, k)
  <2> HIDE DEF N, D
  <2>1. \A f \in [N -> D], k \in N : CodeOf(f, k) \in D
    BY <1>3
  <2> QED
    BY <2>1
<1> HIDE DEF step
<1>5. ASSUME NEW f \in [N -> D], NEW g \in [N -> D], NEW k \in N,
             \A j \in N : lev[j] < lev[k] => f[j] = g[j]
      PROVE  step[<<f, k>>] = step[<<g, k>>]
  <2>1. k <= Len(input) => f[k+1] = g[k+1] /\ (CommentEnd(k) > k => f[CommentEnd(k)] = g[CommentEnd(k)])
    BY <1>2, <1>5
  <2>2. k > Len(input) \/ k <= Len(input)
    BY PlacesFacts
  <2>3. CodeOf(f, k) = CodeOf(g, k)
    BY <2>1, <2>2 DEF CodeOf
  <2> QED
    BY <1>4, <2>3
<1>6. lev \in [N -> Nat] /\ D # {}
  BY <1>1
<1> HIDE DEF N, D, lev
<1>7. IsRecursion(N, lev, D, step)
  BY <1>4, <1>5, <1>6 DEF IsRecursion
<1>8. PICK f : IsSolution(f, N, D, step)
  BY <1>7, RecursionExists
<1>9. f = [k \in N |-> CodeOf(f, k)]
  <2>1. f \in [N -> D] /\ \A k \in N : f[k] = step[<<f, k>>]
    BY <1>8 DEF IsSolution
  <2> QED
    BY <1>4, <2>1
<1>10. CodeFrom = [k \in N |-> CodeOf(CodeFrom, k)]
  BY <1>9 DEF CodeFrom, N
<1> DEFINE P == {k \in N : CodeFrom[k] \subseteq k..Len(input)}
<1>11. ASSUME NEW k \in N, \A j \in N : lev[j] < lev[k] => j \in P
       PROVE  k \in P
  <2>0. k \in Int /\ 1 <= k /\ Len(input) \in Nat
    BY PlacesFacts DEF N
  <2>1. CASE k > Len(input)
    <3>1. CodeFrom[k] = {}
      BY <1>10, <2>1 DEF CodeOf
    <3> QED
      BY <3>1
  <2>2. CASE k <= Len(input) /\ CommentEnd(k) > k
    <3>1. CodeFrom[CommentEnd(k)] \subseteq CommentEnd(k)..Len(input) /\ CommentEnd(k) \in N
      BY <1>2, <1>11, <2>2
    <3>2. CommentEnd(k) \in Int
      BY <3>1, PlacesFacts DEF N
    <3>3. CodeFrom[k] = CodeFrom[CommentEnd(k)]
      <4>1. ~(k > Len(input))
        BY <2>0, <2>2
      <4> QED
        BY <1>10, <2>2, <4>1 DEF CodeOf
    <3> QED
      BY <2>0, <2>2, <3>1, <3>2, <3>3
  <2>3. CASE k <= Len(input) /\ ~(CommentEnd(k) > k)
    <3>1. CodeFrom[k+1] \subseteq k+1..Len(input)
      BY <1>2, <1>11, <2>3
    <3>2. CodeFrom[k] = {k} \cup CodeFrom[k+1]
      <4>1. ~(k > Len(input))
        BY <2>0, <2>3
      <4> QED
        BY <1>10, <2>3, <4>1 DEF CodeOf
    <3> QED
      BY <2>0, <2>3, <3>1, <3>2
  <2> QED
    BY <2>0, <2>1, <2>2, <2>3
<1>12. \A k \in N : lev[k] \in Nat
  BY <1>1
<1> HIDE DEF P
<1>13. N \subseteq P
  BY <1>11, <1>12, LevelInduction
<1> QED
  BY <1>10, <1>13 DEF P, N

\* The characters that a token may have behind its first.
HexChars == DecimalChars \cup {"a", "b", "c", "d", "e", "f", "A", "B", "C", "D", "E", "F"}
Plain == Letter \cup HexChars \cup {"=", "&", "|", "<", ">"}

\* Those that a token of the rules with patterns of their own begins with.
Beginnings == Letter \cup DecimalChars \cup {"!", ">", "<", "+", "-", "*", "/", "%", "^", "=", "&", "|"}

\* No character that goes on a token begins a comment or is white space.
LEMMA CharFacts ==
    /\ Below(10) = DecimalChars /\ Below(8) \subseteq DecimalChars /\ Below(16) \subseteq HexChars
    /\ WordChars \subseteq Plain
    /\ "/" \notin Plain /\ "*" \notin Plain /\ "foreign" \notin Plain /\ "NUL" \notin Plain
    /\ "/" \notin Blank /\ "\n" \in Blank
    /\ Plain \cap Blank = {}
    /\ Beginnings \cap Blank = {} /\ "foreign" \notin Beginnings /\ "NUL" \notin Beginnings
<1>1. Below(10) = DecimalChars
  BY DecimalDigitFacts
<1>2. Below(8) \subseteq DecimalChars /\ Below(16) \subseteq HexChars
  <2> DEFINE s == Digits \o HexLetters
  <2>1. /\ Len(s) = 16 /\ DOMAIN s = 1..16
        /\ \A n \in 1..16 : s[n] \in HexChars
        /\ \A n \in 1..8 : s[n] \in DecimalChars
    <3>1. Len(s) = 16 /\ DOMAIN s = 1..16
      BY DEF Digits, HexLetters
    <3>2. /\ \A n \in 1..10 : s[n] = Digits[n]
          /\ \A n \in 11..16 : s[n] = HexLetters[n - 10]
      BY DEF Digits, HexLetters
    <3>3. /\ \A n \in 1..10 : Digits[n] \in DecimalChars
          /\ \A n \in 1..6 : HexLetters[n] \in HexChars
      BY DEF Digits, HexLetters, DecimalChars, HexChars
    <3>4. \A n \in 11..16 : n - 10 \in 1..6
      OBVIOUS
    <3>5. \A n \in 1..16 : n \in 1..10 \/ n \in 11..16
      OBVIOUS
    <3> HIDE DEF s
    <3> QED
      BY <3>1, <3>2, <3>3, <3>4, <3>5 DEF HexChars
  <2>2. DOMAIN SubSeq(s, 1, 8) = 1..8 /\ \A n \in 1..8 : SubSeq(s, 1, 8)[n] = s[n]
    BY DEF Digits, HexLetters
  <2>3. DOMAIN SubSeq(s, 1, 16) = 1..16 /\ \A n \in 1..16 : SubSeq(s, 1, 16)[n] = s[n]
    BY DEF Digits, HexLetters
  <2>4. Range(HexCapitals) \subseteq HexChars
    BY DEF Range, HexCapitals, HexChars
  <2>5. Below(8) = Range(SubSeq(s, 1, 8)) /\ Below(16) = Range(SubSeq(s, 1, 16)) \cup Range(HexCapitals)
    BY DEF Below
  <2> HIDE DEF s
  <2> QED
    BY <2>1, <2>2, <2>3, <2>4, <2>5 DEF Range
<1>3. WordChars \subseteq Plain
  BY <1>1 DEF WordChars, Plain, HexChars
<1>4. "/" \notin Plain /\ "*" \notin Plain /\ "foreign" \notin Plain /\ "NUL" \notin Plain
  BY DEF Plain, Letter, HexChars, DecimalChars
<1>5. "/" \notin Blank /\ "\n" \in Blank
  BY DEF Blank
<1>6. Plain \cap Blank = {}
  BY DEF Plain, Letter, HexChars, DecimalChars, Blank
<1>7. Beginnings \cap Blank = {} /\ "foreign" \notin Beginnings /\ "NUL" \notin Beginnings
  BY DEF Beginnings, Letter, DecimalChars, Blank
<1> QED
  BY <1>1, <1>2, <1>3, <1>4, <1>5, <1>6, <1>7

\* A pattern whose matches begin with one of those and go on with plain characters.
IsTokenPattern(p) ==
    /\ Moves(p)
    /\ \A k \in Places : \A e \in p[k] :
          /\ k <= Len(input) /\ k < e /\ input[k] \in Beginnings
          /\ \A j \in k+1..e-1 : input[j] \in Plain

\* One character.
LEMMA OneToken ==
    ASSUME IsFile, NEW C, C \subseteq Beginnings
    PROVE  IsTokenPattern(One(C))
<1>1. Moves(One(C)) /\ \A k \in Places : \A e : e \in One(C)[k] <=>
         e = k + 1 /\ k <= Len(input) /\ input[k] \in C
  BY OneFacts
<1> QED
  BY <1>1, PlacesFacts DEF IsTokenPattern

\* A text, by its characters.
LEMMA TextToken ==
    ASSUME IsFile, NEW t, NEW n \in Nat, Len(t) = n, n >= 1, t[1] \in Beginnings,
           \A j \in 2..n : t[j] \in Plain
    PROVE  IsTokenPattern(Text(t))
<1>1. Moves(Text(t)) /\ \A k \in Places : \A e : e \in Text(t)[k] <=>
         e = k + n /\ e \in Places /\ \A j \in 1..n : input[k+j-1] = t[j]
  BY TextFacts
<1>2. ASSUME NEW k \in Places, NEW e \in Text(t)[k]
      PROVE  /\ k <= Len(input) /\ k < e /\ input[k] \in Beginnings
             /\ \A j \in k+1..e-1 : input[j] \in Plain
  <2>0. k \in Int /\ Len(input) \in Nat
    BY PlacesFacts
  <2>1. e = k + n /\ e \in Places /\ \A j \in 1..n : input[k+j-1] = t[j]
    BY <1>1
  <2>2. k <= Len(input) /\ k < e
    BY <2>0, <2>1, PlacesFacts
  <2>3. 1 \in 1..n /\ k + 1 - 1 = k
    BY <2>0
  <2>4. input[k] \in Beginnings
    BY <2>1, <2>3
  <2>5. ASSUME NEW j \in k+1..e-1 PROVE input[j] \in Plain
    <3>1. j - k + 1 \in 2..n /\ j - k + 1 \in 1..n /\ k + (j - k + 1) - 1 = j
      BY <2>0, <2>1
    <3> QED
      BY <2>1, <3>1
  <2> QED
    BY <2>2, <2>4, <2>5
<1> QED
  BY <1>1, <1>2 DEF IsTokenPattern

\* One of two patterns of tokens.
LEMMA OrToken ==
    ASSUME IsFile, NEW p, NEW q, IsTokenPattern(p), IsTokenPattern(q)
    PROVE  IsTokenPattern(Or(p, q))
BY OrFacts DEF IsTokenPattern

\* A character, then any number of others.
LEMMA OneStarToken ==
    ASSUME IsFile, NEW C, NEW D, C \subseteq Beginnings, D \subseteq Plain
    PROVE  IsTokenPattern(Then(One(C), Star(One(D))))
<1> DEFINE r == Then(One(C), Star(One(D)))
<1>1. Moves(r) /\ \A k \in Places : \A e : e \in r[k] <=>
         k <= Len(input) /\ input[k] \in C /\ e \in Run(D, k + 1)
  BY OneStarFacts
<1> HIDE DEF r
<1>2. ASSUME NEW k \in Places, NEW e \in r[k]
      PROVE  /\ k <= Len(input) /\ k < e /\ input[k] \in Beginnings
             /\ \A j \in k+1..e-1 : input[j] \in Plain
  <2>1. k <= Len(input) /\ input[k] \in C /\ e \in Run(D, k + 1) /\ k \in Int
    BY <1>1, PlacesFacts
  <2>2. e \in Int /\ k + 1 <= e /\ \A j \in k+1..e-1 : input[j] \in D
    BY <2>1, PlacesFacts DEF Run
  <2> QED
    BY <2>1, <2>2
<1> QED
  BY <1>1, <1>2 DEF IsTokenPattern, r

\* The rules between the comments and the last one have such patterns.
LEMMA TwoToken ==
    ASSUME IsFile, NEW c \in Beginnings, NEW d \in Plain
    PROVE  IsTokenPattern(Text(<<c, d>>))
<1> DEFINE t == <<c, d>>
<1>1. Len(t) = 2 /\ t[1] = c /\ t[2] = d
  OBVIOUS
<1> HIDE DEF t
<1>2. PICK n \in Nat : n = 2 /\ Len(t) = n
  BY <1>1
<1>3. n >= 1 /\ t[1] \in Beginnings /\ \A j \in 2..n : t[j] \in Plain
  BY <1>1, <1>2
<1>4. IsTokenPattern(Text(t))
  BY <1>2, <1>3, TextToken
<1> QED
  BY <1>4 DEF t

\* The operators.
LEMMA OperatorToken ==
    ASSUME IsFile
    PROVE  IsTokenPattern(Operator)
<1> DEFINE o == One({"!", ">", "<", "+", "-", "*", "/", "%", "^"})
<1>1. IsTokenPattern(o)
  <2>1. {"!", ">", "<", "+", "-", "*", "/", "%", "^"} \subseteq Beginnings
    BY DEF Beginnings
  <2> QED
    BY <2>1, OneToken
<1>2. /\ "!" \in Beginnings /\ "=" \in Beginnings /\ ">" \in Beginnings /\ "<" \in Beginnings
      /\ "&" \in Beginnings /\ "|" \in Beginnings
      /\ "=" \in Plain /\ "&" \in Plain /\ "|" \in Plain /\ "<" \in Plain /\ ">" \in Plain
  BY DEF Beginnings, Plain
<1>3. /\ IsTokenPattern(Equal("!")) /\ IsTokenPattern(Equal("=")) /\ IsTokenPattern(Equal(">"))
      /\ IsTokenPattern(Equal("<")) /\ IsTokenPattern(Twice("&")) /\ IsTokenPattern(Twice("|"))
      /\ IsTokenPattern(Twice("<")) /\ IsTokenPattern(Twice(">"))
  BY <1>2, TwoToken DEF Equal, Twice
<1> HIDE DEF o
<1> DEFINE a1 == Or(Twice("<"), Twice(">"))
           a2 == Or(Twice("|"), a1)
           a3 == Or(Twice("&"), a2)
           a4 == Or(Equal("<"), a3)
           a5 == Or(Equal(">"), a4)
           a6 == Or(Equal("="), a5)
           a7 == Or(Equal("!"), a6)
<1>4. Operator = Or(o, a7)
  BY DEF Operator, o
<1>5. IsTokenPattern(a1)
  BY <1>3, OrToken
<1> HIDE DEF a1
<1>6. IsTokenPattern(a2)
  BY <1>3, <1>5, OrToken
<1> HIDE DEF a2
<1>7. IsTokenPattern(a3)
  BY <1>3, <1>6, OrToken
<1> HIDE DEF a3
<1>8. IsTokenPattern(a4)
  BY <1>3, <1>7, OrToken
<1> HIDE DEF a4
<1>9. IsTokenPattern(a5)
  BY <1>3, <1>8, OrToken
<1> HIDE DEF a5
<1>10. IsTokenPattern(a6)
  BY <1>3, <1>9, OrToken
<1> HIDE DEF a6
<1>11. IsTokenPattern(a7)
  BY <1>3, <1>10, OrToken
<1> HIDE DEF a7
<1> QED
  BY <1>1, <1>4, <1>11, OrToken

\* The letters of the keywords.
LEMMA KeywordFacts ==
    /\ Len(INT) = 3 /\ Len(RETURN) = 6 /\ Len(CONST) = 5
    /\ \A j \in 1..3 : INT[j] \in Letter
    /\ \A j \in 1..6 : RETURN[j] \in Letter
    /\ \A j \in 1..5 : CONST[j] \in Letter
    /\ Letter \subseteq Beginnings /\ Letter \subseteq Plain
<1>1. Letter \subseteq Beginnings /\ Letter \subseteq Plain
  BY DEF Beginnings, Plain
<1>2. /\ "i" \in Letter /\ "n" \in Letter /\ "t" \in Letter /\ "r" \in Letter
      /\ "e" \in Letter /\ "u" \in Letter /\ "c" \in Letter /\ "o" \in Letter /\ "s" \in Letter
  BY DEF Letter
<1>3. Len(INT) = 3 /\ \A j \in 1..3 : INT[j] \in Letter
  BY <1>2 DEF INT
<1>4. Len(RETURN) = 6 /\ \A j \in 1..6 : RETURN[j] \in Letter
  BY <1>2 DEF RETURN
<1>5. Len(CONST) = 5 /\ \A j \in 1..5 : CONST[j] \in Letter
  BY <1>2 DEF CONST
<1> QED
  BY <1>1, <1>3, <1>4, <1>5

\* The keywords.
LEMMA KeywordToken ==
    ASSUME IsFile, NEW t \in {INT, RETURN, CONST}
    PROVE  IsTokenPattern(Text(t))
<1>1. \E n \in Nat : Len(t) = n /\ n >= 1 /\ \A j \in 1..n : t[j] \in Letter
  <2>1. CASE t = INT
    BY <2>1, 3 \in Nat, 3 >= 1, KeywordFacts
  <2>2. CASE t = RETURN
    BY <2>2, 6 \in Nat, 6 >= 1, KeywordFacts
  <2>3. CASE t = CONST
    BY <2>3, 5 \in Nat, 5 >= 1, KeywordFacts
  <2> QED
    BY <2>1, <2>2, <2>3
<1>1a. PICK n \in Nat : Len(t) = n /\ n >= 1 /\ \A j \in 1..n : t[j] \in Letter
  BY <1>1
<1>2. t[1] \in Beginnings /\ \A j \in 2..n : t[j] \in Plain
  <2>1. 1 \in 1..n /\ \A j \in 2..n : j \in 1..n
    BY <1>1a
  <2> QED
    BY <1>1a, <2>1, KeywordFacts
<1> QED
  BY <1>1a, <1>2, TextToken

\* The hexadecimal literals.
LEMMA HexToken ==
    ASSUME IsFile
    PROVE  IsTokenPattern(Hexadecimal)
<1>1. ASSUME NEW k \in Places, NEW e \in Hexadecimal[k]
      PROVE  /\ k <= Len(input) /\ k < e /\ input[k] \in Beginnings
             /\ \A j \in k+1..e-1 : input[j] \in Plain
  <2>1. /\ k < Len(input) /\ input[k] = "0" /\ input[k+1] \in {"x", "X"} /\ k \in Int /\ Len(input) \in Nat
        /\ e \in Run(Below(16), k + 2) /\ k + 2 < e
    BY <1>1, SimpleRules, PlacesFacts
  <2>2. e \in Int /\ \A j \in k+2..e-1 : input[j] \in Below(16)
    BY <2>1, PlacesFacts DEF Run
  <2>3. "0" \in Beginnings /\ "x" \in Plain /\ "X" \in Plain /\ Below(16) \subseteq Plain
    BY CharFacts DEF Beginnings, DecimalChars, Plain, Letter
  <2>4. ASSUME NEW j \in k+1..e-1 PROVE input[j] \in Plain
    <3>1. j = k + 1 \/ j \in k+2..e-1
      BY <2>1, <2>2
    <3> QED
      BY <2>1, <2>2, <2>3, <3>1
  <2> QED
    BY <2>1, <2>2, <2>3, <2>4
<1> QED
  BY <1>1, SimpleRules DEF IsTokenPattern

\* The rules by number: their classes and their patterns.
LEMMA PairParts ==
    ASSUME NEW x, NEW y, NEW r, r = <<x, y>>
    PROVE  r[1] = x /\ r[2] = y
OBVIOUS

\* The rules, one by one.
LEMMA RuleList ==
    /\ DOMAIN Patterns = 1..12
    /\ Patterns[1][1] = "" /\ Patterns[1][2] = WhiteSpace
    /\ Patterns[2][1] = "" /\ Patterns[2][2] = LineComment
    /\ Patterns[3][1] = "" /\ Patterns[3][2] = LinesComment
    /\ Patterns[4][1] = "INT" /\ Patterns[4][2] = Text(INT)
    /\ Patterns[5][1] = "RETURN" /\ Patterns[5][2] = Text(RETURN)
    /\ Patterns[6][1] = "CONST" /\ Patterns[6][2] = Text(CONST)
    /\ Patterns[7][1] = "IDENT" /\ Patterns[7][2] = Identifier
    /\ Patterns[8][1] = "INT_CONST" /\ Patterns[8][2] = Decimal
    /\ Patterns[9][1] = "INT_CONST" /\ Patterns[9][2] = Octal
    /\ Patterns[10][1] = "INT_CONST" /\ Patterns[10][2] = Hexadecimal
    /\ Patterns[11][1] = "OPT" /\ Patterns[11][2] = Operator
    /\ Patterns[12][1] = "CHAR" /\ Patterns[12][2] = Except("\n")
<1> DEFINE a == <<"", WhiteSpace>>
           b == <<"", LineComment>>
           c == <<"", LinesComment>>
           d == <<"INT", Text(INT)>>
           e == <<"RETURN", Text(RETURN)>>
           f == <<"CONST", Text(CONST)>>
           g == <<"IDENT", Identifier>>
           h == <<"INT_CONST", Decimal>>
           i == <<"INT_CONST", Octal>>
           j == <<"INT_CONST", Hexadecimal>>
           k == <<"OPT", Operator>>
           l == <<"CHAR", Except("\n")>>
<1>1. Patterns = <<a, b, c, d, e, f, g, h, i, j, k, l>>
  BY DEF Patterns
<1>2. /\ a[1] = "" /\ a[2] = WhiteSpace
      /\ b[1] = "" /\ b[2] = LineComment
      /\ c[1] = "" /\ c[2] = LinesComment
      /\ d[1] = "INT" /\ d[2] = Text(INT)
      /\ e[1] = "RETURN" /\ e[2] = Text(RETURN)
      /\ f[1] = "CONST" /\ f[2] = Text(CONST)
  BY PairParts
<1>3. /\ g[1] = "IDENT" /\ g[2] = Identifier
      /\ h[1] = "INT_CONST" /\ h[2] = Decimal
      /\ i[1] = "INT_CONST" /\ i[2] = Octal
      /\ j[1] = "INT_CONST" /\ j[2] = Hexadecimal
      /\ k[1] = "OPT" /\ k[2] = Operator
      /\ l[1] = "CHAR" /\ l[2] = Except("\n")
  BY PairParts
<1> HIDE DEF a, b, c, d, e, f, g, h, i, j, k, l
<1>4. /\ DOMAIN Patterns = 1..12
      /\ Patterns[1] = a /\ Patterns[2] = b /\ Patterns[3] = c /\ Patterns[4] = d
      /\ Patterns[5] = e /\ Patterns[6] = f /\ Patterns[7] = g /\ Patterns[8] = h
      /\ Patterns[9] = i /\ Patterns[10] = j /\ Patterns[11] = k /\ Patterns[12] = l
  BY <1>1
<1> QED
  BY <1>2, <1>3, <1>4

\* The rules of keywords, names, literals and operators.
LEMMA TokenRules ==
    ASSUME IsFile
    PROVE  \A i \in 4..11 : IsTokenPattern(Patterns[i][2])
<1>1. IsTokenPattern(Identifier) /\ IsTokenPattern(Decimal) /\ IsTokenPattern(Octal)
  <2>1. /\ Letter \subseteq Beginnings /\ Below(10) \ {"0"} \subseteq Beginnings /\ {"0"} \subseteq Beginnings
        /\ Letter \cup Below(10) \subseteq Plain /\ Below(10) \subseteq Plain /\ Below(8) \subseteq Plain
    BY CharFacts DEF Beginnings, Plain, HexChars, DecimalChars
  <2> QED
    BY <2>1, OneStarToken DEF Identifier, Decimal, Octal, Char
<1>2. \A i \in 4..11 : i = 4 \/ i = 5 \/ i = 6 \/ i = 7 \/ i = 8 \/ i = 9 \/ i = 10 \/ i = 11
  OBVIOUS
<1>3. IsTokenPattern(Text(INT)) /\ IsTokenPattern(Text(RETURN)) /\ IsTokenPattern(Text(CONST))
  BY KeywordToken
<1> SUFFICES ASSUME NEW i \in 4..11 PROVE IsTokenPattern(Patterns[i][2])
  OBVIOUS
<1>4. /\ Patterns[4][2] = Text(INT) /\ Patterns[5][2] = Text(RETURN)
      /\ Patterns[6][2] = Text(CONST) /\ Patterns[7][2] = Identifier
      /\ Patterns[8][2] = Decimal /\ Patterns[9][2] = Octal
      /\ Patterns[10][2] = Hexadecimal /\ Patterns[11][2] = Operator
  BY RuleList
<1> QED
  BY <1>1, <1>2, <1>3, <1>4, HexToken, OperatorToken

-----------------------------------------------------------------------------
(* One match                                                               *)

\* m is the longest of the matches, and the first of those.
IsLongest(m, matches) ==
    /\ m \in matches
    /\ \A n \in matches : n[1] < m[1] \/ (n[1] = m[1] /\ n[2] >= m[2])

\* There is exactly one.
LEMMA LongestExists ==
    ASSUME NEW matches, matches \subseteq Nat \X Nat, NEW b \in Nat,
           \A m \in matches : m[1] <= b, matches # {}
    PROVE  IsLongest(Longest(matches), matches)
<1> DEFINE T == {b - m[1] : m \in matches}
<1>1. \A m \in matches : m = <<m[1], m[2]>> /\ m[1] \in Nat /\ m[2] \in Nat
  OBVIOUS
<1>2. T \subseteq Nat /\ T # {}
  BY <1>1
<1>3. PICK d \in T : \A x \in T : d <= x
  BY <1>2, LeastElement
<1>4. PICK a \in matches : d = b - a[1]
  BY <1>3
<1>5. \A m \in matches : m[1] <= a[1]
  <2> SUFFICES ASSUME NEW m \in matches PROVE m[1] <= a[1]
    OBVIOUS
  <2>1. d <= b - m[1]
    BY <1>3
  <2> QED
    BY <1>1, <1>4, <2>1
<1> HIDE DEF T
<1> DEFINE U == {n \in Nat : <<a[1], n>> \in matches}
<1>6. a[2] \in U
  BY <1>1
<1>7. U \subseteq Nat /\ U # {}
  BY <1>6
<1>8. PICK r \in U : \A n \in U : r <= n
  BY <1>7, LeastElement
<1>9. PICK l : l = <<a[1], r>>
  OBVIOUS
<1>10. l \in matches /\ l[1] = a[1] /\ l[2] = r /\ r \in Nat /\ a[1] \in Nat
  BY <1>1, <1>8, <1>9
<1>11. \A n \in matches : n[1] < l[1] \/ (n[1] = l[1] /\ n[2] >= l[2])
  <2> SUFFICES ASSUME NEW n \in matches, ~(n[1] < l[1])
               PROVE  n[1] = l[1] /\ n[2] >= l[2]
    OBVIOUS
  <2>1. n[1] \in Nat /\ n[2] \in Nat /\ n = <<n[1], n[2]>>
    BY <1>1
  <2>2. n[1] = a[1]
    BY <1>5, <1>10, <2>1
  <2>3. n[2] \in U
    BY <2>1, <2>2
  <2>4. r <= n[2]
    BY <1>8, <2>3
  <2> QED
    BY <1>10, <2>1, <2>2, <2>4
<1>12. IsLongest(l, matches)
  BY <1>10, <1>11 DEF IsLongest
<1> QED
  BY <1>12 DEF IsLongest, Longest

\* The matches from pos on.
LEMMA MatchFacts ==
    ASSUME IsFile, pos \in Places
    PROVE  /\ \A i \in 1..12 : Moves(Patterns[i][2])
           /\ \A i \in 1..12 : \A e \in Patterns[i][2][pos] : <<e, i>> \in Matches
           /\ \A m \in Matches : /\ m = <<m[1], m[2]>> /\ m[2] \in 1..12
                                 /\ m[1] \in Patterns[m[2]][2][pos]
                                 /\ m[1] \in Places /\ pos <= m[1]
<1>1. ASSUME NEW i \in 1..12 PROVE Moves(Patterns[i][2])
  <2>1. CASE i \in 4..11
    BY <2>1, TokenRules DEF IsTokenPattern
  <2>2. CASE i \notin 4..11
    <3>1. i = 1 \/ i = 2 \/ i = 3 \/ i = 12
      BY <2>2
    <3>2. /\ Patterns[1][2] = WhiteSpace /\ Patterns[2][2] = LineComment
          /\ Patterns[3][2] = LinesComment /\ Patterns[12][2] = Except("\n")
      BY RuleList
    <3> QED
      BY <3>1, <3>2, SimpleRules, LinesCommentFacts
  <2> QED
    BY <2>1, <2>2
<1>2. Matches = UNION {{<<e, i>> : e \in Patterns[i][2][pos]} : i \in 1..12}
  BY RuleList DEF Matches
<1>3. ASSUME NEW i \in 1..12, NEW e \in Patterns[i][2][pos] PROVE <<e, i>> \in Matches
  BY <1>2
<1>4. ASSUME NEW m \in Matches
      PROVE  /\ m = <<m[1], m[2]>> /\ m[2] \in 1..12
             /\ m[1] \in Patterns[m[2]][2][pos]
             /\ m[1] \in Places /\ pos <= m[1]
  <2>1. PICK i \in 1..12 : m \in {<<e, i>> : e \in Patterns[i][2][pos]}
    BY <1>2
  <2>2. PICK e \in Patterns[i][2][pos] : m = <<e, i>>
    BY <2>1
  <2>3. e \in Places /\ pos <= e
    BY <1>1 DEF Moves
  <2> QED
    BY <2>2, <2>3
<1> QED
  BY <1>1, <1>3, <1>4

\* The match that is taken: blanks as far as they reach, a comment to its end, or
\* a token with plain characters behind its first.
LEMMA NextMatch ==
    ASSUME IsFile, pos \in Places, pos <= Len(input)
    PROVE  LET m == Longest(Matches)
           IN  /\ IsLongest(m, Matches)
               /\ m = <<m[1], m[2]>> /\ m[1] \in Places /\ pos < m[1] /\ m[2] \in 1..12
               /\ m[1] \in Patterns[m[2]][2][pos]
               /\ \/ m[2] = 1 /\ \A j \in pos..m[1]-1 : input[j] \in Blank
                  \/ m[2] \in {2, 3} /\ m[1] = CommentEnd(pos)
                  \/ /\ m[2] \in 4..12 /\ input[pos] \notin Blank /\ CommentEnd(pos) = pos
                     /\ \A j \in pos+1..m[1]-1 : input[j] \in Plain
                     /\ m[2] \in 4..11 => input[pos] \in Beginnings
                     /\ m[2] = 12 => m[1] = pos + 1
<1>0. pos \in Int /\ 1 <= pos /\ Len(input) \in Nat /\ input[pos] \in Chars
  BY PlacesFacts
<1>1. /\ \A i \in 1..12 : \A e \in Patterns[i][2][pos] : <<e, i>> \in Matches
      /\ \A n \in Matches : /\ n = <<n[1], n[2]>> /\ n[2] \in 1..12
                            /\ n[1] \in Patterns[n[2]][2][pos]
                            /\ n[1] \in Places /\ pos <= n[1]
  BY MatchFacts
<1>2. /\ Patterns[1][2] = WhiteSpace /\ Patterns[2][2] = LineComment
      /\ Patterns[3][2] = LinesComment /\ Patterns[12][2] = Except("\n")
  BY RuleList
<1>3. /\ pos + 1 \in Places
      /\ input[pos] \in Blank => pos + 1 \in WhiteSpace[pos]
      /\ input[pos] \notin Blank => pos + 1 \in Except("\n")[pos]
  <2>1. pos + 1 \in Places
    BY <1>0, PlacesFacts
  <2>2. input[pos] \in Blank => pos + 1 \in Run(Blank, pos)
    BY <1>0, <2>1 DEF Run
  <2>3. input[pos] \notin Blank => input[pos] \in Chars \ {"\n"}
    BY <1>0, CharFacts
  <2> QED
    BY <2>1, <2>2, <2>3, SimpleRules
<1>4. \E n \in Matches : n[1] = pos + 1 /\ (input[pos] \in Blank => n[2] = 1)
  <2>1. CASE input[pos] \in Blank
    <3>1. <<pos + 1, 1>> \in Matches
      BY <1>1, <1>2, <1>3, <2>1
    <3> QED
      BY <2>1, <3>1
  <2>2. CASE input[pos] \notin Blank
    <3>1. <<pos + 1, 12>> \in Matches
      BY <1>1, <1>2, <1>3, <2>2
    <3> QED
      BY <2>2, <3>1
  <2> QED
    BY <2>1, <2>2
<1>5. Matches \subseteq Nat \X Nat /\ \A n \in Matches : n[1] <= Len(input) + 1
  <2> SUFFICES ASSUME NEW n \in Matches PROVE n \in Nat \X Nat /\ n[1] <= Len(input) + 1
    OBVIOUS
  <2>1. n = <<n[1], n[2]>> /\ n[2] \in 1..12 /\ n[1] \in Places
    BY <1>1
  <2>2. n[1] \in Nat /\ n[1] <= Len(input) + 1 /\ n[2] \in Nat
    BY <2>1, PlacesFacts
  <2> QED
    BY <2>1, <2>2
<1> DEFINE m == Longest(Matches)
<1>6. IsLongest(m, Matches)
  <2>1. Matches # {} /\ Len(input) + 1 \in Nat
    BY <1>0, <1>4
  <2> QED
    BY <1>5, <2>1, LongestExists
<1> HIDE DEF m
<1>7. m \in Matches /\ \A n \in Matches : n[1] < m[1] \/ (n[1] = m[1] /\ n[2] >= m[2])
  BY <1>6 DEF IsLongest
<1>8. /\ m = <<m[1], m[2]>> /\ m[2] \in 1..12 /\ m[1] \in Patterns[m[2]][2][pos]
      /\ m[1] \in Places /\ m[1] \in Int
  BY <1>1, <1>7, PlacesFacts
<1>9. pos < m[1] /\ (input[pos] \in Blank => pos + 1 < m[1] \/ m[2] <= 1)
  <2>1. PICK n \in Matches : n[1] = pos + 1 /\ (input[pos] \in Blank => n[2] = 1)
    BY <1>4
  <2>2. n[1] < m[1] \/ (n[1] = m[1] /\ n[2] >= m[2])
    BY <1>7
  <2> QED
    BY <1>0, <1>8, <2>1, <2>2
<1>10. m[2] = 1 => \A j \in pos..m[1]-1 : input[j] \in Blank
  BY <1>2, <1>8, SimpleRules DEF Run
<1>11. m[2] = 2 => Pair(pos, "/", "/") /\ m[1] \in Run(Chars \ {"\n"}, pos + 2)
  BY <1>2, <1>8, SimpleRules
<1>12. m[2] = 3 => Pair(pos, "/", "*") /\ Closes(pos + 2) # {} /\ m[1] = Min(Closes(pos + 2)) + 2
  BY <1>2, <1>8, LinesCommentFacts
<1>13. m[2] \in 4..11 => /\ input[pos] \in Beginnings
                         /\ \A j \in pos+1..m[1]-1 : input[j] \in Plain
  BY <1>8, TokenRules DEF IsTokenPattern
<1>14. m[2] = 12 => m[1] = pos + 1
  BY <1>2, <1>8, SimpleRules
<1>15. m[2] \in 4..12 => \A j \in pos+1..m[1]-1 : input[j] \in Plain
  <2>1. CASE m[2] = 12
    BY <1>0, <1>14, <2>1
  <2>2. CASE m[2] # 12
    BY <1>8, <1>13, <2>2
  <2> QED
    BY <2>1, <2>2
<1>16. /\ CommentEnd(pos) \in Places /\ CommentEnd(pos) \in Int /\ pos <= CommentEnd(pos)
       /\ CommentEnd(pos) > pos => \/ Pair(pos, "/", "/")
                                   \/ Pair(pos, "/", "*") /\ Closes(pos + 2) # {}
  BY CommentFacts, PlacesFacts
<1>17. CASE CommentEnd(pos) > pos
  <2>1. pos + 2 <= CommentEnd(pos) /\ \E i \in {2, 3} : <<CommentEnd(pos), i>> \in Matches
    <3>1. CASE Pair(pos, "/", "/")
      <4>1. /\ pos + 2 <= CommentEnd(pos) /\ pos + 2 \in Int
            /\ \A j \in pos..CommentEnd(pos)-1 : input[j] # "\n"
        BY <1>0, <3>1, CommentFacts
      <4>2. \A j \in pos+2..CommentEnd(pos)-1 : input[j] \in Chars \ {"\n"}
        <5> SUFFICES ASSUME NEW j \in pos+2..CommentEnd(pos)-1 PROVE input[j] \in Chars \ {"\n"}
          OBVIOUS
        <5>1. j \in pos..CommentEnd(pos)-1 /\ j \in 1..Len(input)
          BY <1>0, <1>16, PlacesFacts
        <5> QED
          BY <4>1, <5>1, PlacesFacts
      <4>3. CommentEnd(pos) \in LineComment[pos]
        BY <1>16, <3>1, <4>1, <4>2, SimpleRules DEF Run
      <4> QED
        BY <1>1, <1>2, <4>1, <4>3
    <3>2. CASE ~Pair(pos, "/", "/")
      <4>1. /\ Pair(pos, "/", "*") /\ Closes(pos + 2) # {}
            /\ pos + 2 <= CommentEnd(pos) /\ CommentEnd(pos) = Min(Closes(pos + 2)) + 2
        BY <1>16, <1>17, <3>2, CommentFacts
      <4>2. CommentEnd(pos) \in LinesComment[pos]
        BY <4>1, LinesCommentFacts
      <4> QED
        BY <1>1, <1>2, <4>1, <4>2
    <3> QED
      BY <3>1, <3>2
  <2>2. CommentEnd(pos) <= m[1]
    <3>1. PICK i \in {2, 3} : <<CommentEnd(pos), i>> \in Matches
      BY <2>1
    <3> QED
      BY <1>7, <1>8, <1>16, <3>1
  <2>3. input[pos] = "/" /\ input[pos+1] \in {"/", "*"} /\ pos < Len(input)
    BY <1>16, <1>17 DEF Pair
  <2>4. m[2] # 1
    <3>1. pos \in pos..m[1]-1
      BY <1>0, <1>8, <1>9
    <3> QED
      BY <1>10, <2>3, <3>1, CharFacts
  <2>5. m[2] \notin 4..12
    <3>1. pos + 1 \in pos+1..m[1]-1
      BY <1>0, <1>8, <1>16, <2>1, <2>2
    <3> QED
      BY <1>15, <2>3, <3>1, CharFacts
  <2>6. m[2] \in {2, 3}
    BY <1>8, <2>4, <2>5
  <2>7. m[1] = CommentEnd(pos)
    <3>1. CASE m[2] = 2
      <4>1. Pair(pos, "/", "/") /\ \A j \in pos+2..m[1]-1 : input[j] # "\n"
        BY <1>11, <3>1 DEF Run
      <4>2. CommentEnd(pos) <= Len(input) => input[CommentEnd(pos)] = "\n"
        BY <4>1, CommentFacts
      <4>3. ~(CommentEnd(pos) < m[1])
        <5> SUFFICES ASSUME CommentEnd(pos) < m[1] PROVE FALSE
          OBVIOUS
        <5>1. CommentEnd(pos) \in pos+2..m[1]-1 /\ CommentEnd(pos) <= Len(input)
          BY <1>0, <1>8, <1>16, <2>1, PlacesFacts
        <5> QED
          BY <4>1, <4>2, <5>1
      <4> QED
        BY <1>8, <1>16, <2>2, <4>3
    <3>2. CASE m[2] = 3
      <4>1. Pair(pos, "/", "*") /\ Closes(pos + 2) # {} /\ m[1] = Min(Closes(pos + 2)) + 2
        BY <1>12, <3>2
      <4>2. ~Pair(pos, "/", "/")
        BY <4>1 DEF Pair
      <4> QED
        BY <4>1, <4>2, CommentFacts
    <3> QED
      BY <2>6, <3>1, <3>2
  <2> QED
    BY <1>6, <1>8, <1>9, <2>6, <2>7 DEF m
<1>18. CASE ~(CommentEnd(pos) > pos)
  <2>1. CommentEnd(pos) = pos
    BY <1>0, <1>16, <1>18
  <2>2. m[2] # 2
    <3>1. Pair(pos, "/", "/") => pos + 2 <= CommentEnd(pos)
      BY CommentFacts
    <3> QED
      BY <1>0, <1>11, <2>1, <3>1
  <2>3. m[2] # 3
    <3>1. Pair(pos, "/", "*") /\ Closes(pos + 2) # {} => pos + 2 <= CommentEnd(pos)
      <4>1. Pair(pos, "/", "*") => ~Pair(pos, "/", "/")
        BY DEF Pair
      <4> QED
        BY <4>1, CommentFacts
    <3> QED
      BY <1>0, <1>12, <2>1, <3>1
  <2>4. CASE m[2] = 1
    BY <1>6, <1>8, <1>9, <1>10, <2>4 DEF m
  <2>5. CASE m[2] # 1
    <3>1. m[2] \in 4..12
      BY <1>8, <2>2, <2>3, <2>5
    <3>2. input[pos] \notin Blank
      <4> SUFFICES ASSUME input[pos] \in Blank PROVE FALSE
        OBVIOUS
      <4>1. pos + 1 < m[1] \/ m[2] <= 1
        BY <1>9
      <4>2. m[2] # 12
        BY <1>0, <1>14, <4>1
      <4>3. m[2] \in 4..11
        BY <3>1, <4>2
      <4> QED
        BY <1>13, <4>3, CharFacts
    <3> QED
      BY <1>6, <1>8, <1>9, <1>13, <1>14, <1>15, <2>1, <3>1, <3>2 DEF m
  <2> QED
    BY <2>4, <2>5
<1> QED
  BY <1>17, <1>18

-----------------------------------------------------------------------------
(* The invariant                                                           *)

\* The match of rule i from k to e is the one that flex takes.
IsTaken(k, e, i) ==
    /\ k <= Len(input) /\ k < e /\ e \in Patterns[i][2][k]
    /\ \A j \in 1..12 : \A f \in Patterns[j][2][k] : f < e \/ (f = e /\ j >= i)

\* The token it makes.
TokenAt(k, e, i) ==
    LET text == SubSeq(input, k, e - 1)
        class == ClassOf(i, text)
    IN  [class |-> class, text |-> text, rule |-> i, from |-> k,
         int_val |-> Literal(class, text)]

\* Every place where a rule that returns a token is taken, with the end and the rule.
TakenFrom == {q \in Places \X Places \X (4..12) : IsTaken(q[1], q[2], q[3])}

\* The tokens of those.
ScannedTokens == {TokenAt(q[1], q[2], q[3]) : q \in TakenFrom}

\* The code of the file from pos on is that of a file that begins at pos: no
\* comment is cut in two.
CodeAhead == {k \in CodeFrom[1] : pos <= k} = CodeFrom[pos]

\* The invariant of the scanner.  What it has returned is tokens of the file, they
\* cover the code up to pos, and pos is not in the middle of a comment.
LexInv ==
    /\ input \in Inputs /\ pos \in Places /\ tokens \in Seq(ScannedTokens)
    /\ CodeAhead /\ TokensCoverCode /\ ForeignByteEnds

\* A stretch of the file where no comment begins is code.
LEMMA CodeStretch ==
    ASSUME IsFile, NEW k \in Places, NEW e \in Places, k <= e,
           \A j \in k..e-1 : CommentEnd(j) = j
    PROVE  CodeFrom[k] = (k..e-1) \cup CodeFrom[e]
<1> DEFINE S == {n \in Nat : \A i \in Places : k <= i /\ i + n = e => CodeFrom[i] = (i..e-1) \cup CodeFrom[e]}
<1>0. k \in Int /\ e \in Int /\ Len(input) \in Nat /\ 1 <= k /\ e <= Len(input) + 1
  BY PlacesFacts
<1>1. 0 \in S
  <2> SUFFICES ASSUME NEW i \in Places, i + 0 = e PROVE CodeFrom[i] = (i..e-1) \cup CodeFrom[e]
    OBVIOUS
  <2>1. i = e /\ e..e-1 = {}
    BY <1>0, PlacesFacts
  <2> QED
    BY <2>1
<1>2. ASSUME NEW n \in Nat, n \in S PROVE n + 1 \in S
  <2> SUFFICES ASSUME NEW i \in Places, k <= i, i + (n + 1) = e
               PROVE  CodeFrom[i] = (i..e-1) \cup CodeFrom[e]
    OBVIOUS
  <2>1. i \in Int /\ i + 1 \in Places /\ k <= i + 1 /\ (i + 1) + n = e /\ i \in k..e-1 /\ i <= Len(input)
    BY <1>0, PlacesFacts
  <2>2. CodeFrom[i+1] = (i+1..e-1) \cup CodeFrom[e]
    BY <1>2, <2>1
  <2>3. ~(i > Len(input)) /\ ~(CommentEnd(i) > i)
    BY <1>0, <2>1
  <2>4. CodeFrom[i] = {i} \cup CodeFrom[i+1]
    BY <2>1, <2>3, CodeSolves DEF CodeOf
  <2>5. i..e-1 = {i} \cup (i+1..e-1)
    BY <1>0, <2>1
  <2> QED
    BY <2>2, <2>4, <2>5
<1> HIDE DEF S
<1>3. e - k \in S /\ k + (e - k) = e
  <2>1. e - k \in Nat
    BY <1>0
  <2> QED
    BY <1>0, <1>1, <1>2, <2>1, SetInduction
<1> QED
  BY <1>0, <1>3 DEF S

\* A comment begins with a /.
LEMMA NoCommentHere ==
    ASSUME NEW j, input[j] # "/"
    PROVE  CommentEnd(j) = j
BY DEF CommentEnd, Pair

\* What a match does to the code ahead.
LEMMA CodeOfMatch ==
    ASSUME IsFile, pos \in Places, pos <= Len(input), NEW e \in Places, pos < e,
           \/ \A j \in pos..e-1 : input[j] \in Blank
           \/ e = CommentEnd(pos)
           \/ CommentEnd(pos) = pos /\ \A j \in pos+1..e-1 : input[j] \in Plain
    PROVE  /\ {k \in CodeFrom[pos] : e <= k} = CodeFrom[e]
           /\ {k \in CodeFrom[pos] : k < e} = IF e = CommentEnd(pos) THEN {} ELSE pos..e-1
<1>0. /\ pos \in Int /\ e \in Int /\ Len(input) \in Nat /\ 1 <= pos
      /\ CodeFrom[e] \subseteq e..Len(input)
  BY PlacesFacts, CodeSolves
<1>1. CASE e = CommentEnd(pos)
  <2>1. ~(pos > Len(input))
    BY <1>0
  <2>2. CodeFrom[pos] = CodeFrom[e]
    BY <1>1, <2>1, CodeSolves DEF CodeOf
  <2>3. \A k \in CodeFrom[e] : e <= k /\ ~(k < e)
    BY <1>0
  <2> QED
    BY <1>1, <2>2, <2>3
<1>2. CASE e # CommentEnd(pos)
  <2>1. \A j \in pos..e-1 : CommentEnd(j) = j
    <3>1. CASE \A j \in pos..e-1 : input[j] \in Blank
      BY <3>1, CharFacts, NoCommentHere
    <3>2. CASE CommentEnd(pos) = pos /\ \A j \in pos+1..e-1 : input[j] \in Plain
      <4>1. \A j \in pos..e-1 : j = pos \/ j \in pos+1..e-1
        BY <1>0
      <4> QED
        BY <3>2, <4>1, CharFacts, NoCommentHere
    <3> QED
      BY <1>2, <3>1, <3>2
  <2>2. CodeFrom[pos] = (pos..e-1) \cup CodeFrom[e]
    BY <1>0, <2>1, CodeStretch
  <2>3. \A k \in CodeFrom[e] : e <= k /\ ~(k < e)
    BY <1>0
  <2>4. \A k \in pos..e-1 : k < e /\ ~(e <= k)
    BY <1>0
  <2> QED
    BY <1>2, <2>2, <2>3, <2>4
<1> QED
  BY <1>1, <1>2

\* The invariant holds before the first character.
LEMMA LexInit == Init => LexInv
<1> SUFFICES ASSUME Init PROVE LexInv
  OBVIOUS
<1>1. input \in Inputs /\ pos = 1 /\ tokens = <<>>
  BY DEF Init
<1>2. IsFile
  BY <1>1, InputsAssumption DEF IsFile
<1>3. pos \in Places
  BY <1>1, <1>2, PlacesFacts
<1>4. tokens \in Seq(ScannedTokens)
  BY <1>1
<1>5. \A k \in CodeFrom[1] : 1 <= k /\ ~(k < 1)
  <2>1. 1 \in Places /\ Len(input) \in Nat
    BY <1>2, PlacesFacts
  <2>2. CodeFrom[1] \subseteq 1..Len(input)
    BY <1>2, <2>1, CodeSolves
  <2> QED
    BY <2>1, <2>2
<1>6. CodeAhead
  BY <1>1, <1>5 DEF CodeAhead
<1>7. TokensCoverCode
  <2>1. Range(tokens) = {}
    BY <1>1 DEF Range
  <2> QED
    BY <1>1, <1>5, <2>1 DEF TokensCoverCode, Covered
<1>8. ForeignByteEnds
  BY <1>1, <1>5 DEF Ending, Zero, ForeignByteEnds
<1> QED
  BY <1>1, <1>3, <1>4, <1>6, <1>7, <1>8 DEF LexInv

\* What depends on the file only does not change.
LEMMA SameFile ==
    ASSUME input' = input
    PROVE  Places' = Places /\ CodeFrom' = CodeFrom /\ ScannedTokens' = ScannedTokens
<1>1. Places' = Places
  BY DEF Places
<1>2. CodeFrom' = CodeFrom
  BY DEF CodeFrom, CodeOf, CommentEnd, Pair, Closes, Places
<1>3. Patterns' = Patterns
  BY DEF Patterns, WhiteSpace, LineComment, LinesComment, INT, RETURN, CONST, Identifier, Decimal, Octal,
         Hexadecimal, Operator, Except, Then, Star, StarEnds, One, Char, Text, Or, Plus, Equal, Twice, Places
<1>4. ScannedTokens' = ScannedTokens
  BY <1>1, <1>3 DEF ScannedTokens, TakenFrom, IsTaken, TokenAt, ClassOf
<1> QED
  BY <1>1, <1>2, <1>3, <1>4

\* The classes of the rules.
LEMMA ClassFacts ==
    /\ \A i \in 1..3 : Patterns[i][1] = ""
    /\ \A i \in 4..12 : Patterns[i][1] # "" /\ Patterns[i][1] # "$end"
    /\ \A i \in 4..11 : Patterns[i][1] # "CHAR"
    /\ Patterns[12][1] = "CHAR"
<1>1. \A i \in 1..3 : i = 1 \/ i = 2 \/ i = 3
  OBVIOUS
<1>2. \A i \in 4..12 : \/ i = 4 \/ i = 5 \/ i = 6 \/ i = 7 \/ i = 8 \/ i = 9 \/ i = 10
                       \/ i = 11 \/ i = 12
  OBVIOUS
<1>3. \A i \in 4..12 : Patterns[i][1] \in {"INT", "RETURN", "CONST", "IDENT", "INT_CONST", "OPT", "CHAR"}
  BY <1>2, RuleList
<1>4. \A i \in 4..11 : i = 4 \/ i = 5 \/ i = 6 \/ i = 7 \/ i = 8 \/ i = 9 \/ i = 10 \/ i = 11
  OBVIOUS
<1>5. \A i \in 4..11 : Patterns[i][1] \in {"INT", "RETURN", "CONST", "IDENT", "INT_CONST", "OPT"}
  BY <1>4, RuleList
<1> QED
  BY <1>1, <1>3, <1>5, RuleList

\* One more element of a sequence.
LEMMA RangeAppend ==
    ASSUME NEW S, NEW s \in Seq(S), NEW x \in S
    PROVE  /\ Append(s, x) \in Seq(S) /\ Append(s, x) # <<>>
           /\ Last(Append(s, x)) = x
           /\ Range(Append(s, x)) = Range(s) \cup {x}
<1> DEFINE a == Append(s, x)
<1>1. /\ a \in Seq(S) /\ Len(a) = Len(s) + 1 /\ Len(s) \in Nat /\ a[Len(s)+1] = x
      /\ \A j \in 1..Len(s) : a[j] = s[j]
  BY AppendProperties
<1>2. DOMAIN a = 1..Len(s)+1 /\ DOMAIN s = 1..Len(s)
  BY <1>1
<1> HIDE DEF a
<1>3. a # <<>>
  BY <1>1
<1>4. Last(a) = x
  BY <1>1 DEF Last
<1>5. Range(a) = Range(s) \cup {x}
  <2>1. \A j \in 1..Len(s)+1 : j \in 1..Len(s) \/ j = Len(s) + 1
    BY <1>1
  <2>2. \A j \in 1..Len(s) : j \in 1..Len(s)+1
    BY <1>1
  <2>3. Len(s) + 1 \in 1..Len(s)+1
    BY <1>1
  <2>4. ASSUME NEW y \in Range(a) PROVE y \in Range(s) \cup {x}
    <3>1. PICK j \in 1..Len(s)+1 : y = a[j]
      BY <1>2 DEF Range
    <3> QED
      BY <1>1, <1>2, <2>1, <3>1 DEF Range
  <2>5. ASSUME NEW y \in Range(s) PROVE y \in Range(a)
    <3>1. PICK j \in 1..Len(s) : y = s[j]
      BY <1>2 DEF Range
    <3> QED
      BY <1>1, <1>2, <2>2, <3>1 DEF Range
  <2>6. x \in Range(a)
    BY <1>1, <1>2, <2>3 DEF Range
  <2> QED
    BY <2>4, <2>5, <2>6
<1> QED
  BY <1>1, <1>3, <1>4, <1>5 DEF a

\* The text of a token.
LEMMA TextFrom ==
    ASSUME IsFile, NEW k \in Places, NEW e \in Places, k < e
    PROVE  LET text == SubSeq(input, k, e - 1)
           IN  /\ text \in Seq(Chars) /\ Len(text) = e - k /\ text # <<>>
               /\ \A j \in 1..e-k : text[j] = input[k+j-1]
<1>0. k \in Int /\ e \in Int /\ Len(input) \in Nat /\ 1 <= k /\ e <= Len(input) + 1 /\ k \in Nat
  BY PlacesFacts
<1> DEFINE n == e - 1
           text == SubSeq(input, k, n)
<1>1. n \in Nat /\ k <= n + 1 /\ n <= Len(input) /\ n - k + 1 = e - k /\ e - k >= 1
  BY <1>0
<1>2. input \in Seq(Chars)
  BY DEF IsFile
<1> HIDE DEF n
<1>3. /\ text \in Seq(Chars) /\ Len(text) = n - k + 1
      /\ \A j \in 1..n-k+1 : text[j] = input[k+j-1]
  <2>1. text = [j \in 1..n-k+1 |-> input[k+j-1]]
    BY <1>0, <1>1, <1>2
  <2>2. \A j \in 1..n-k+1 : input[k+j-1] \in Chars
    BY <1>0, <1>1, PlacesFacts
  <2>3. n - k + 1 \in Nat
    BY <1>0, <1>1
  <2> HIDE DEF text
  <2> QED
    BY <2>1, <2>2, <2>3
<1> HIDE DEF text
<1>4. text # <<>>
  BY <1>0, <1>1, <1>3
<1> QED
  BY <1>1, <1>3, <1>4 DEF text, n

\* White space and comments.
LEMMA SkipStep ==
    ASSUME LexInv, IsFile, ~Ended, pos <= Len(input), input' = input, tokens' = tokens, NEW e \in Places,
           pos' = e, pos < e,
           (\A j \in pos..e-1 : input[j] \in Blank) \/ e = CommentEnd(pos)
    PROVE  LexInv'
<1>0. pos \in Places /\ pos \in Int /\ e \in Int
  BY PlacesFacts DEF LexInv
<1>1. Places' = Places /\ CodeFrom' = CodeFrom /\ ScannedTokens' = ScannedTokens
  BY SameFile
<1>2. /\ {k \in CodeFrom[pos] : e <= k} = CodeFrom[e]
      /\ {k \in CodeFrom[pos] : k < e} = IF e = CommentEnd(pos) THEN {} ELSE pos..e-1
  BY <1>0, CodeOfMatch
<1>3. \A k \in CodeFrom[1] : k \in Int /\ (pos <= k <=> k \in CodeFrom[pos])
  <2>1. 1 \in Places /\ Len(input) \in Nat
    BY PlacesFacts
  <2>2. CodeFrom[1] \subseteq 1..Len(input)
    BY <2>1, CodeSolves
  <2>3. {k \in CodeFrom[1] : pos <= k} = CodeFrom[pos]
    BY DEF LexInv, CodeAhead
  <2> QED
    BY <2>1, <2>2, <2>3
<1>4. CodeFrom[pos] \subseteq CodeFrom[1]
  BY DEF LexInv, CodeAhead
<1>5. {k \in CodeFrom[1] : e <= k} = CodeFrom[e]
  <2>1. \A k \in CodeFrom[1] : e <= k => k \in CodeFrom[pos]
    BY <1>0, <1>3
  <2> QED
    BY <1>2, <1>4, <2>1
<1>6. \A k \in CodeFrom[1] : k < e => k < pos \/ input[k] \in Blank
  <2> SUFFICES ASSUME NEW k \in CodeFrom[1], k < e, ~(k < pos) PROVE input[k] \in Blank
    OBVIOUS
  <2>1. k \in CodeFrom[pos]
    BY <1>0, <1>3
  <2> QED
    BY <1>2, <2>1
<1>7. CodeAhead'
  BY <1>1, <1>5 DEF CodeAhead
<1>8. TokensCoverCode'
  <2>1. Covered' = Covered
    BY DEF Covered
  <2>2. Covered = {k \in CodeFrom[1] : k < pos /\ input[k] \notin Blank}
    BY DEF LexInv, TokensCoverCode
  <2>3. \A k \in CodeFrom[1] : k < pos => k < e
    BY <1>0, <1>3
  <2>4. Covered = {k \in CodeFrom[1] : k < e /\ input[k] \notin Blank}
    BY <1>6, <2>2, <2>3
  <2> QED
    BY <1>1, <2>1, <2>4 DEF TokensCoverCode
<1>9. ForeignByteEnds'
  <2>1. ~(tokens # <<>> /\ Last(tokens).class = "$end")
    BY DEF Ended
  <2>2. \A k \in CodeFrom[1] : ~(k < pos /\ input[k] \in Ending)
    BY DEF LexInv, ForeignByteEnds
  <2>3. \A c \in Ending : c \notin Blank
    BY DEF Ending, Zero, Foreign, Blank
  <2>4. \A k \in CodeFrom[1] : ~(k < e /\ input[k] \in Ending)
    BY <1>6, <2>2, <2>3
  <2> QED
    BY <1>1, <2>1, <2>4 DEF Ending, Zero, ForeignByteEnds
<1> QED
  BY <1>1, <1>7, <1>8, <1>9 DEF LexInv

\* A token.
LEMMA TokenStep ==
    ASSUME LexInv, IsFile, ~Ended, pos <= Len(input), input' = input, NEW e \in Places, NEW i \in 4..12,
           IsTaken(pos, e, i), tokens' = Append(tokens, TokenAt(pos, e, i)), pos' = e,
           input[pos] \notin Blank, CommentEnd(pos) = pos,
           \A j \in pos+1..e-1 : input[j] \in Plain,
           i \in 4..11 => input[pos] \in Beginnings,
           i = 12 => e = pos + 1
    PROVE  LexInv'
<1> DEFINE t == TokenAt(pos, e, i)
           text == SubSeq(input, pos, e - 1)
<1>0. pos \in Places /\ pos \in Int /\ e \in Int /\ pos < e
  BY PlacesFacts DEF LexInv, IsTaken
<1>1. Places' = Places /\ CodeFrom' = CodeFrom /\ ScannedTokens' = ScannedTokens
  BY SameFile
<1>2. /\ {k \in CodeFrom[pos] : e <= k} = CodeFrom[e]
      /\ {k \in CodeFrom[pos] : k < e} = pos..e-1
  BY <1>0, CodeOfMatch
<1>3. \A k \in CodeFrom[1] : k \in Int /\ (pos <= k <=> k \in CodeFrom[pos])
  <2>1. 1 \in Places /\ Len(input) \in Nat
    BY PlacesFacts
  <2>2. CodeFrom[1] \subseteq 1..Len(input)
    BY <2>1, CodeSolves
  <2>3. {k \in CodeFrom[1] : pos <= k} = CodeFrom[pos]
    BY DEF LexInv, CodeAhead
  <2> QED
    BY <2>1, <2>2, <2>3
<1>4. CodeFrom[pos] \subseteq CodeFrom[1]
  BY DEF LexInv, CodeAhead
<1>5. {k \in CodeFrom[1] : e <= k} = CodeFrom[e]
  <2>1. \A k \in CodeFrom[1] : e <= k => k \in CodeFrom[pos]
    BY <1>0, <1>3
  <2> QED
    BY <1>2, <1>4, <2>1
<1>6. /\ t.from = pos /\ t.text = text /\ t.class = ClassOf(i, text)
      /\ Len(text) = e - pos /\ text[1] = input[pos]
  <2>1. t.from = pos /\ t.text = text /\ t.class = ClassOf(i, text)
    BY DEF TokenAt
  <2>2. Len(text) = e - pos /\ \A j \in 1..e-pos : text[j] = input[pos+j-1]
    BY <1>0, TextFrom
  <2>3. 1 \in 1..e-pos /\ pos + 1 - 1 = pos
    BY <1>0
  <2> HIDE DEF t, text
  <2> QED
    BY <2>1, <2>2, <2>3
<1>7. t \in ScannedTokens
  <2>1. <<pos, e, i>> \in TakenFrom
    BY <1>0 DEF TakenFrom
  <2> QED
    BY <2>1 DEF ScannedTokens
<1> HIDE DEF t, text
<1>8. /\ tokens' \in Seq(ScannedTokens) /\ tokens' # <<>> /\ Last(tokens') = t
      /\ Range(tokens') = Range(tokens) \cup {t}
  BY <1>7, RangeAppend DEF LexInv, t
<1>9. CodeAhead'
  BY <1>1, <1>5 DEF CodeAhead
<1>10. TokensCoverCode'
  <2>1. Covered' = Covered \cup (pos..e-1)
    <3>1. t.from + Len(t.text) - 1 = e - 1
      BY <1>0, <1>6
    <3>2. Covered' = UNION {u.from..(u.from + Len(u.text) - 1) : u \in Range(tokens')}
      BY DEF Covered
    <3>3. Covered' = Covered \cup (t.from..(t.from + Len(t.text) - 1))
      BY <1>8, <3>2 DEF Covered
    <3> QED
      BY <1>6, <3>1, <3>3
  <2>2. Covered = {k \in CodeFrom[1] : k < pos /\ input[k] \notin Blank}
    BY DEF LexInv, TokensCoverCode
  <2>3. \A k \in pos..e-1 : input[k] \notin Blank /\ k \in CodeFrom[1] /\ k < e
    <3> SUFFICES ASSUME NEW k \in pos..e-1 PROVE input[k] \notin Blank /\ k \in CodeFrom[1] /\ k < e
      OBVIOUS
    <3>1. k = pos \/ k \in pos+1..e-1
      BY <1>0
    <3>2. input[k] \notin Blank
      BY <3>1, CharFacts
    <3> QED
      BY <1>2, <1>4, <3>2
  <2>4. \A k \in CodeFrom[1] : k < e => k < pos \/ k \in pos..e-1
    BY <1>0, <1>3
  <2>5. \A k \in CodeFrom[1] : k < pos => k < e
    BY <1>0, <1>3
  <2>6. Covered' = {k \in CodeFrom[1] : k < e /\ input[k] \notin Blank}
    BY <2>1, <2>2, <2>3, <2>4, <2>5
  <2> QED
    BY <1>1, <2>6 DEF TokensCoverCode
<1>11. ForeignByteEnds'
  <2>1. t.class = "$end" => i = 12
    <3> SUFFICES ASSUME i \in 4..11 PROVE t.class # "$end"
      OBVIOUS
    <3>1. Patterns[i][1] # "CHAR" /\ Patterns[i][1] # "$end"
      BY ClassFacts
    <3>2. t.class = Patterns[i][1]
      BY <1>6, <3>1 DEF ClassOf
    <3> QED
      BY <3>1, <3>2
  <2>2. pos \in CodeFrom[1]
    BY <1>0, <1>2, <1>4
  <2>3. Last(tokens').class = "$end" => Last(tokens').from \in CodeFrom[1] /\ e = Last(tokens').from + 1
    BY <1>6, <1>8, <2>1, <2>2
  <2>4. ASSUME NEW k \in CodeFrom[1], k < e, input[k] \in Ending
        PROVE  k = pos /\ e = k + 1 /\ t.class = "$end"
    <3>1. ~(k < pos)
      BY <2>4 DEF LexInv, ForeignByteEnds
    <3>2. k = pos
      <4>1. k = pos \/ k \in pos+1..e-1
        BY <1>0, <1>3, <2>4, <3>1
      <4>2. input[k] \notin Plain
        BY <2>4, CharFacts DEF Ending, Zero, Foreign
      <4> QED
        BY <4>1, <4>2
    <3>3. i = 12
      <4>1. input[pos] \notin Beginnings
        BY <2>4, <3>2, CharFacts DEF Ending, Zero, Foreign
      <4> QED
        BY <4>1
    <3>4. t.class = "$end"
      BY <1>6, <2>4, <3>2, <3>3, ClassFacts DEF ClassOf
    <3> QED
      BY <3>2, <3>3, <3>4
  <2>5. \A k \in CodeFrom[1] : k < e /\ input[k] \in Ending => Ended' /\ e = k + 1
    BY <1>8, <2>4 DEF Ended
  <2> QED
    BY <1>1, <2>3, <2>5 DEF Ending, Zero, ForeignByteEnds
<1> QED
  BY <1>1, <1>8, <1>9, <1>10, <1>11 DEF LexInv

\* Every match keeps the invariant.
LEMMA LexStep == LexInv /\ [Next \/ EndOfFile]_vars => LexInv'
<1> SUFFICES ASSUME LexInv, [Next \/ EndOfFile]_vars PROVE LexInv'
  OBVIOUS
<1>0. IsFile /\ pos \in Places
  BY InputsAssumption DEF LexInv, IsFile
<1>1. CASE Match
  <2> DEFINE m == Longest(Matches)
  <2>1. /\ ~Ended /\ pos' = m[1] /\ input' = input
        /\ tokens' = IF Patterns[m[2]][1] = "" THEN tokens ELSE Append(tokens, TokenOf(m))
    BY <1>1 DEF Match
  <2>2. pos <= Len(input)
    <3>1. ~(pos > Len(input))
      BY <2>1 DEF Ended
    <3> QED
      BY <1>0, <3>1, PlacesFacts
  <2>3. /\ IsLongest(m, Matches)
        /\ m = <<m[1], m[2]>> /\ m[1] \in Places /\ pos < m[1] /\ m[2] \in 1..12
        /\ m[1] \in Patterns[m[2]][2][pos]
        /\ \/ m[2] = 1 /\ \A j \in pos..m[1]-1 : input[j] \in Blank
           \/ m[2] \in {2, 3} /\ m[1] = CommentEnd(pos)
           \/ /\ m[2] \in 4..12 /\ input[pos] \notin Blank /\ CommentEnd(pos) = pos
              /\ \A j \in pos+1..m[1]-1 : input[j] \in Plain
              /\ m[2] \in 4..11 => input[pos] \in Beginnings
              /\ m[2] = 12 => m[1] = pos + 1
    BY <1>0, <2>2, NextMatch
  <2> HIDE DEF m
  <2>4. CASE m[2] = 1 /\ \A j \in pos..m[1]-1 : input[j] \in Blank
    <3>1. m[2] \in 1..3
      BY <2>4
    <3>2. Patterns[m[2]][1] = ""
      BY <3>1, ClassFacts
    <3>3. tokens' = tokens
      BY <2>1, <3>2
    <3> QED
      BY <1>0, <2>1, <2>2, <2>3, <2>4, <3>3, SkipStep
  <2>5. CASE m[2] \in {2, 3} /\ m[1] = CommentEnd(pos)
    <3>1. m[2] \in 1..3
      BY <2>5
    <3>2. Patterns[m[2]][1] = ""
      BY <3>1, ClassFacts
    <3>3. tokens' = tokens
      BY <2>1, <3>2
    <3> QED
      BY <1>0, <2>1, <2>2, <2>3, <2>5, <3>3, SkipStep
  <2>6. CASE /\ m[2] \in 4..12 /\ input[pos] \notin Blank /\ CommentEnd(pos) = pos
             /\ \A j \in pos+1..m[1]-1 : input[j] \in Plain
             /\ m[2] \in 4..11 => input[pos] \in Beginnings
             /\ m[2] = 12 => m[1] = pos + 1
    <3>1. tokens' = Append(tokens, TokenAt(pos, m[1], m[2]))
      BY <2>1, <2>6, ClassFacts DEF TokenOf, TokenAt
    <3>2. IsTaken(pos, m[1], m[2])
      <4>1. \A j \in 1..12 : \A f \in Patterns[j][2][pos] : f < m[1] \/ (f = m[1] /\ j >= m[2])
        <5> SUFFICES ASSUME NEW j \in 1..12, NEW f \in Patterns[j][2][pos]
                     PROVE  f < m[1] \/ (f = m[1] /\ j >= m[2])
          OBVIOUS
        <5>1. <<f, j>> \in Matches
          BY <1>0, MatchFacts
        <5>2. PICK n : n = <<f, j>>
          OBVIOUS
        <5>3. n[1] = f /\ n[2] = j
          BY <5>2
        <5> QED
          BY <2>3, <5>1, <5>2, <5>3 DEF IsLongest
      <4> QED
        BY <2>2, <2>3, <4>1 DEF IsTaken
    <3> QED
      BY <1>0, <2>1, <2>2, <2>3, <2>6, <3>1, <3>2, TokenStep
  <2> QED
    BY <2>3, <2>4, <2>5, <2>6
<1>2. CASE UNCHANGED vars
  <2>1. input' = input /\ pos' = pos /\ tokens' = tokens
    BY <1>2 DEF vars
  <2>2. Places' = Places /\ CodeFrom' = CodeFrom /\ ScannedTokens' = ScannedTokens
    BY <2>1, SameFile
  <2> QED
    BY <2>1, <2>2 DEF LexInv, CodeAhead, TokensCoverCode, Covered, ForeignByteEnds, Ended
<1> QED
  BY <1>1, <1>2 DEF Next, EndOfFile

\* Which rules return which class.
LEMMA ClassRules ==
    ASSUME NEW i \in 4..12, NEW text
    PROVE  /\ ClassOf(i, text) \in {"INT", "RETURN", "CONST"} => i \in 4..6
           /\ ClassOf(i, text) = "IDENT" => i = 7
           /\ ClassOf(i, text) = "INT_CONST" => i \in 8..10
<1> DEFINE c == Patterns[i][1]
<1>1. \/ (c = "INT" /\ i = 4) \/ (c = "RETURN" /\ i = 5) \/ (c = "CONST" /\ i = 6)
      \/ (c = "IDENT" /\ i = 7) \/ (c = "INT_CONST" /\ i \in 8..10)
      \/ (c = "OPT" /\ i = 11) \/ (c = "CHAR" /\ i = 12)
  <2>1. i = 4 \/ i = 5 \/ i = 6 \/ i = 7 \/ i = 8 \/ i = 9 \/ i = 10 \/ i = 11 \/ i = 12
    OBVIOUS
  <2>2. i = 4 => c = "INT"
    BY RuleList
  <2>3. i = 5 => c = "RETURN"
    BY RuleList
  <2>4. i = 6 => c = "CONST"
    BY RuleList
  <2>5. i = 7 => c = "IDENT"
    BY RuleList
  <2>6. i = 8 => c = "INT_CONST"
    BY RuleList
  <2>7. i = 9 => c = "INT_CONST"
    BY RuleList
  <2>8. i = 10 => c = "INT_CONST"
    BY RuleList
  <2>9. i = 11 => c = "OPT"
    BY RuleList
  <2>10. i = 12 => c = "CHAR"
    BY RuleList
  <2> HIDE DEF c
  <2> QED
    BY <2>1, <2>2, <2>3, <2>4, <2>5, <2>6, <2>7, <2>8, <2>9, <2>10
<1>2. ClassOf(i, text) = IF c = "CHAR" /\ text[1] \in Ending THEN "$end" ELSE c
  BY DEF ClassOf
<1> HIDE DEF c
<1> QED
  BY <1>1, <1>2

\* What is known of a token that was returned.
LEMMA TokenFacts ==
    ASSUME IsFile, NEW t \in ScannedTokens
    PROVE  \E k \in Places, e \in Places, i \in 4..12 :
              /\ IsTaken(k, e, i) /\ t.from = k /\ t.rule = i
              /\ t.text \in Seq(Chars) /\ t.text # <<>>
              /\ Len(t.text) = e - k /\ k + Len(t.text) = e
              /\ \A j \in 1..e-k : t.text[j] = input[k+j-1]
              /\ t.class = ClassOf(i, t.text) /\ t.int_val = Literal(t.class, t.text)
<1>1. PICK q \in TakenFrom : t = TokenAt(q[1], q[2], q[3])
  BY DEF ScannedTokens
<1>2. q[1] \in Places /\ q[2] \in Places /\ q[3] \in 4..12 /\ IsTaken(q[1], q[2], q[3])
  BY DEF TakenFrom
<1>3. PICK k \in Places, e \in Places, i \in 4..12 : IsTaken(k, e, i) /\ t = TokenAt(k, e, i)
  BY <1>1, <1>2
<1>4. k < e
  BY <1>3 DEF IsTaken
<1> DEFINE x == SubSeq(input, k, e - 1)
<1>5. /\ x \in Seq(Chars) /\ Len(x) = e - k /\ x # <<>>
      /\ \A j \in 1..e-k : x[j] = input[k+j-1]
  BY <1>4, TextFrom
<1>6. /\ t.from = k /\ t.rule = i /\ t.text = x /\ t.class = ClassOf(i, x)
      /\ t.int_val = Literal(ClassOf(i, x), x)
  BY <1>3 DEF TokenAt
<1> HIDE DEF x
<1>7. k + (e - k) = e
  BY PlacesFacts
<1> QED
  BY <1>3, <1>5, <1>6, <1>7

\* The recursion of Worth has a solution: the values of the first digits, up to
\* the value of all of them.
LEMMA WorthFacts ==
    ASSUME NEW s \in Seq(Below(16)), NEW base \in Nat
    PROVE  Worth(s, base) \in Nat /\ \E f : IsValuation(f, s, base, Worth(s, base))
<1> DEFINE l == Len(s)
           N == 0..l
           Of(f, n) == IF n = 0 THEN 0 ELSE f[n-1] * base + DigitValue[s[n]]
           lev == [n \in N |-> n]
           step == [q \in [N -> Nat] \X N |-> Of(q[1], q[2])]
           Satisfies(f) == f = [n \in N |-> Of(f, n)]
           w == CHOOSE f : Satisfies(f)
<1>0. l \in Nat /\ 0 \in N /\ l \in N /\ \A n \in 1..l : DigitValue[s[n]] \in Nat
  <2>1. \A n \in 1..l : s[n] \in Below(16)
    OBVIOUS
  <2>2. \A c \in Below(16) : DigitValue[c] \in Nat
    BY DigitRanges
  <2> QED
    BY <2>1, <2>2
<1> HIDE DEF l
<1>1. \A f \in [N -> Nat], n \in N : Of(f, n) \in Nat /\ step[<<f, n>>] = Of(f, n)
  <2>1. ASSUME NEW f \in [N -> Nat], NEW n \in N PROVE Of(f, n) \in Nat
    <3>1. CASE n # 0
      <4>1. n - 1 \in N /\ n \in 1..l
        BY <1>0, <3>1
      <4>2. f[n-1] \in Nat /\ DigitValue[s[n]] \in Nat
        BY <1>0, <4>1
      <4>3. \A a, b \in Nat : a * base + b \in Nat
        OBVIOUS
      <4>4. f[n-1] * base + DigitValue[s[n]] \in Nat
        BY <4>2, <4>3
      <4> QED
        BY <3>1, <4>4
    <3> QED
      BY <3>1
  <2> QED
    BY <2>1
<1>2. step \in [[N -> Nat] \X N -> Nat]
  BY <1>1
<1>3. ASSUME NEW f \in [N -> Nat], NEW g \in [N -> Nat], NEW n \in N,
             \A k \in N : lev[k] < lev[n] => f[k] = g[k]
      PROVE  step[<<f, n>>] = step[<<g, n>>]
  <2>1. n # 0 => f[n-1] = g[n-1]
    <3>1. n # 0 => n - 1 \in N /\ n - 1 < n
      BY <1>0
    <3> QED
      BY <1>3, <3>1
  <2> QED
    BY <1>1, <2>1
<1> HIDE DEF step
<1>4. lev \in [N -> Nat] /\ Nat # {}
  <2>1. \A n \in N : n \in Nat
    BY <1>0
  <2> HIDE DEF N
  <2>2. lev \in [N -> Nat]
    BY <2>1
  <2> QED
    BY <2>2
<1>5. IsRecursion(N, lev, Nat, step)
  BY <1>2, <1>3, <1>4 DEF IsRecursion
<1>6. PICK f : IsSolution(f, N, Nat, step)
  BY <1>5, RecursionExists
<1>7. Satisfies(f)
  BY <1>1, <1>6 DEF IsSolution
<1>8. Satisfies(w)
  <2> HIDE DEF Satisfies
  <2> QED
    BY <1>7
<1>9. Worth(s, base) = w[l]
  BY DEF Worth, l
<1> HIDE DEF w
<1>10. \A n \in N : w[n] = Of(w, n)
  BY <1>8
<1> DEFINE S == {n \in Nat : n <= l => w[n] \in Nat}
<1>11. 0 \in S
  BY <1>0, <1>10
<1>12. ASSUME NEW n \in Nat, n \in S PROVE n + 1 \in S
  <2> SUFFICES ASSUME n + 1 <= l PROVE w[n + 1] \in Nat
    OBVIOUS
  <2>1. n + 1 \in N /\ n + 1 # 0 /\ (n + 1) - 1 = n /\ n <= l /\ n + 1 \in 1..l
    BY <1>0
  <2>2. w[n + 1] = w[n] * base + DigitValue[s[n + 1]]
    BY <1>10, <2>1
  <2>3. w[n] \in Nat /\ DigitValue[s[n + 1]] \in Nat
    BY <1>0, <1>12, <2>1
  <2> QED
    BY <2>2, <2>3
<1>13. \A n \in N : w[n] \in Nat
  <2>1. Nat \subseteq S
    <3> HIDE DEF S
    <3> QED
      BY <1>11, <1>12, SetInduction
  <2> QED
    BY <1>0, <2>1
<1>14. w \in [0..Len(s) -> Nat]
  <2>1. w = [n \in N |-> Of(w, n)]
    BY <1>8
  <2>2. w = [n \in N |-> w[n]]
    BY <2>1
  <2> QED
    BY <1>13, <2>2 DEF l
<1>15. w[0] = 0 /\ w[l] \in Nat
  BY <1>0, <1>10, <1>13
<1>16. \A n \in 1..l : w[n] = w[n-1] * base + DigitValue[s[n]]
  <2>1. \A n \in 1..l : n \in N /\ n # 0
    BY <1>0
  <2> QED
    BY <1>10, <2>1
<1>17. IsValuation(w, s, base, w[l])
  BY <1>14, <1>15, <1>16 DEF IsValuation, l
<1> QED
  BY <1>9, <1>15, <1>17

\* strtol in base 0 takes the text of a literal in the base of its rule.
LEMMA LiteralValue ==
    ASSUME NEW text \in Seq(Chars), NEW base \in Nat, NEW k \in {1, 3}, k <= Len(text),
           NEW s \in Seq(Below(base)), Below(base) \subseteq Below(16), EndsIn(text, k, s),
           \/ base = 10 /\ k = 1 /\ text[1] \in Below(10) \ {"0"}
           \/ base = 8 /\ k = 1 /\ text[1] = "0"
           \/ base = 16 /\ k = 3 /\ text[1] = "0" /\ text[2] \in {"x", "X"}
    PROVE  /\ StrToL(text, 0) \in Int
           /\ Worth(s, base) \in Nat
           /\ Worth(s, base) < TwoTo[LongBits-1] => StrToL(text, 0) = Worth(s, base)
<1> DEFINE L == TwoTo[LongBits-1]
           v == Worth(s, base)
<1>1. L \in Nat
  BY WordFacts
<1>2. s \in Seq(Below(16))
  OBVIOUS
<1>3. v \in Nat /\ \E f : IsValuation(f, s, base, v)
  BY <1>2, WorthFacts
<1>4. ValueFrom(text, k, base) = v
  BY <1>3, ReadsDigits
<1>5. Len(text) \in Nat /\ text # <<>> /\ text[1] \in DecimalChars
  BY DecimalDigitFacts DEF DecimalChars
<1>6. text[1] \notin Signs
  BY <1>5 DEF DecimalChars, Signs
<1>7. \A j \in 1..Len(s) : text[k - 1 + j] = s[j] /\ s[j] \in Below(base)
  BY DEF EndsIn
<1>7a. Len(text) = k - 1 + Len(s) /\ Len(s) \in Nat
  BY DEF EndsIn
<1> HIDE DEF v
<1>8. StrToL(text, 0) = Min({v, L - 1})
  <2> DEFINE IsHex == 1 + 2 <= Len(text) /\ text[1] = "0" /\ text[1+1] \in {"x", "X"} /\ text[1+2] \in Below(16)
             IsOctal == 1 <= Len(text) /\ text[1] = "0"
             magnitude == CASE 0 = 0 /\ IsHex -> ValueFrom(text, 1+2, 16)
                            [] 0 = 0 /\ ~IsHex /\ IsOctal -> ValueFrom(text, 1, 8)
                            [] OTHER -> ValueFrom(text, 1, 10)
  <2>1. magnitude = v
    <3>1. CASE base = 10
      BY <1>4, <3>1
    <3>2. CASE base = 8
      <4>1. ASSUME IsHex PROVE FALSE
        <5>1. 2 \in 1..Len(s) /\ k - 1 + 2 = 2
          BY <1>5, <1>7a, <3>2, <4>1
        <5>2. text[2] \in Below(8)
          BY <1>7, <3>2, <5>1
        <5> QED
          BY <3>2, <4>1, <5>2, DigitRanges DEF DecimalChars
      <4> HIDE DEF IsHex
      <4>2. IsOctal
        BY <1>5, <3>2
      <4>3. magnitude = ValueFrom(text, 1, 8)
        BY <4>1, <4>2
      <4> QED
        BY <1>4, <3>2, <4>3
    <3>3. CASE base = 16
      <4>1. 1 \in 1..Len(s) /\ k - 1 + 1 = 3 /\ 3 <= Len(text)
        BY <1>5, <1>7a, <3>3
      <4>2. text[3] \in Below(16)
        BY <1>7, <3>3, <4>1
      <4>3. IsHex
        BY <3>3, <4>1, <4>2
      <4> HIDE DEF IsHex
      <4>4. magnitude = ValueFrom(text, 1 + 2, 16) /\ 1 + 2 = 3
        BY <4>3
      <4> QED
        BY <1>4, <3>3, <4>4
    <3> QED
      BY <3>1, <3>2, <3>3
  <2>2. StrToL(text, 0) = Min({magnitude, L - 1})
    BY <1>6 DEF StrToL
  <2> HIDE DEF magnitude
  <2> QED
    BY <2>1, <2>2
<1> HIDE DEF L
<1>9. ASSUME NEW a \in Nat, NEW b \in Int PROVE Min({a, b}) \in Int /\ (a <= b => Min({a, b}) = a)
  <2> DEFINE S == {a, b}
  <2>1. S \subseteq Int /\ a \in S /\ b \in S
    OBVIOUS
  <2>2. ASSUME a <= b PROVE Min({a, b}) = a
    <3>1. \A y \in S : a <= y
      BY <2>2
    <3> HIDE DEF S
    <3>2. Min(S) = a
      BY <2>1, <3>1, MinIs
    <3> QED
      BY <3>2 DEF S
  <2>3. ASSUME ~(a <= b) PROVE Min({a, b}) = b
    <3>1. \A y \in S : b <= y
      BY <2>3
    <3> HIDE DEF S
    <3>2. Min(S) = b
      BY <2>1, <3>1, MinIs
    <3> QED
      BY <3>2 DEF S
  <2> QED
    BY <2>2, <2>3
<1>10. L - 1 \in Int /\ (v < L => v <= L - 1)
  BY <1>1, <1>3
<1>11. Min({v, L - 1}) \in Int /\ (v < L => Min({v, L - 1}) = v)
  BY <1>3, <1>9, <1>10
<1> QED
  BY <1>3, <1>8, <1>11 DEF v, L

\* The text of a literal, by the rule that matched it.
LEMMA LiteralText ==
    ASSUME IsFile, NEW t \in ScannedTokens, t.class = "INT_CONST"
    PROVE  /\ t.rule \in 8..10 /\ t.text \in Seq(Chars) /\ Len(t.text) >= 1
           /\ t.rule = 8 => t.text[1] # "0" /\ \A j \in 1..Len(t.text) : t.text[j] \in Below(10)
           /\ t.rule = 9 => t.text[1] = "0" /\ \A j \in 1..Len(t.text) : t.text[j] \in Below(8)
           /\ t.rule = 10 => /\ 3 <= Len(t.text) /\ t.text[1] = "0" /\ t.text[2] \in {"x", "X"}
                             /\ \A j \in 3..Len(t.text) : t.text[j] \in Below(16)
<1>1. PICK k \in Places, e \in Places, i \in 4..12 :
            /\ IsTaken(k, e, i) /\ t.rule = i
            /\ t.text \in Seq(Chars) /\ Len(t.text) = e - k
            /\ \A j \in 1..e-k : t.text[j] = input[k+j-1]
            /\ t.class = ClassOf(i, t.text)
  BY TokenFacts
<1>2. i \in 8..10
  BY <1>1, ClassRules
<1>3. k <= Len(input) /\ k < e /\ e \in Patterns[i][2][k]
  BY <1>1 DEF IsTaken
<1>4. k \in Int /\ e \in Int /\ Len(input) \in Nat
  BY PlacesFacts
<1> DEFINE l == e - k
<1>5. l \in Nat /\ l >= 1 /\ Len(t.text) = l /\ k + l = e
  <2>1. l \in Nat /\ l >= 1 /\ k + l = e
    BY <1>3, <1>4
  <2>2. Len(t.text) = l
    BY <1>1
  <2> QED
    BY <2>1, <2>2
<1>6. /\ \A j \in 1..l : t.text[j] = input[k+j-1]
      /\ k + 1 - 1 = k /\ k + 2 - 1 = k + 1
  BY <1>1, <1>4
<1> HIDE DEF l
<1>7. t.text[1] = input[k]
  BY <1>5, <1>6
<1>8. ASSUME NEW C, NEW d \in {1, 2}, e \in Run(C, k + d), NEW j \in d+1..l
      PROVE  t.text[j] \in C
  <2>1. \A m \in k+d..e-1 : input[m] \in C
    BY <1>8 DEF Run
  <2>2. k + j - 1 \in k+d..e-1 /\ j \in 1..l
    BY <1>4, <1>5
  <2> QED
    BY <1>6, <2>1, <2>2
<1>9. ASSUME i = 8
      PROVE  t.text[1] # "0" /\ \A j \in 1..l : t.text[j] \in Below(10)
  <2>1. e \in Decimal[k]
    BY <1>3, <1>9, RuleList
  <2>2. input[k] \in Below(10) \ {"0"} /\ e \in Run(Below(10), k + 1)
    BY <2>1, SimpleRules
  <2>3. \A j \in 1+1..l : t.text[j] \in Below(10)
    BY <1>8, <2>2
  <2>4. \A j \in 1..l : j = 1 \/ j \in 1+1..l
    BY <1>5
  <2> QED
    BY <1>7, <2>2, <2>3, <2>4
<1>10. ASSUME i = 9
       PROVE  t.text[1] = "0" /\ \A j \in 1..l : t.text[j] \in Below(8)
  <2>1. e \in Octal[k]
    BY <1>3, <1>10, RuleList
  <2>2. input[k] = "0" /\ e \in Run(Below(8), k + 1)
    BY <2>1, SimpleRules
  <2>3. \A j \in 1+1..l : t.text[j] \in Below(8)
    BY <1>8, <2>2
  <2>4. \A j \in 1..l : j = 1 \/ j \in 1+1..l
    BY <1>5
  <2> QED
    BY <1>7, <2>2, <2>3, <2>4, DigitRanges
<1>11. ASSUME i = 10
       PROVE  /\ 3 <= l /\ t.text[1] = "0" /\ t.text[2] \in {"x", "X"}
              /\ \A j \in 3..l : t.text[j] \in Below(16)
  <2>1. e \in Hexadecimal[k]
    BY <1>3, <1>11, RuleList
  <2>2. input[k] = "0" /\ input[k+1] \in {"x", "X"} /\ e \in Run(Below(16), k + 2) /\ k + 2 < e
    BY <2>1, SimpleRules
  <2>3. \A j \in 2+1..l : t.text[j] \in Below(16)
    BY <1>8, <2>2
  <2>4. 3 <= l /\ 2 \in 1..l /\ 2 + 1 = 3
    BY <1>4, <1>5, <2>2
  <2>5. t.text[2] = input[k+1]
    BY <1>6, <2>4
  <2> QED
    BY <1>7, <2>2, <2>3, <2>4, <2>5
<1> QED
  BY <1>1, <1>2, <1>5, <1>9, <1>10, <1>11

\* What yylval is set to: the value of the digits of the literal, as an int.
LEMMA LiteralFacts ==
    ASSUME IsFile, NEW t \in ScannedTokens, t.class = "INT_CONST"
    PROVE  /\ Range(DigitsOf(t)) \subseteq Below(BaseOf(t))
           /\ StrToL(t.text, 0) \in Int /\ t.int_val = Wrap(StrToL(t.text, 0))
           /\ Worth(DigitsOf(t), BaseOf(t)) < TwoTo[LongBits-1] =>
                 StrToL(t.text, 0) = Worth(DigitsOf(t), BaseOf(t))
<1> DEFINE text == t.text
           s == DigitsOf(t)
           base == BaseOf(t)
<1>1. /\ t.rule \in 8..10 /\ text \in Seq(Chars) /\ Len(text) >= 1
      /\ t.rule = 8 => text[1] # "0" /\ \A j \in 1..Len(text) : text[j] \in Below(10)
      /\ t.rule = 9 => text[1] = "0" /\ \A j \in 1..Len(text) : text[j] \in Below(8)
      /\ t.rule = 10 => /\ 3 <= Len(text) /\ text[1] = "0" /\ text[2] \in {"x", "X"}
                        /\ \A j \in 3..Len(text) : text[j] \in Below(16)
  BY LiteralText
<1>2. t.int_val = Wrap(StrToL(text, 0))
  <2>1. t.int_val = Literal(t.class, text)
    BY TokenFacts
  <2> QED
    BY <2>1 DEF Literal
<1>3. /\ t.rule = 8 => base = 10
      /\ t.rule = 9 => base = 8
      /\ t.rule = 10 => base = 16
  BY DEF BaseOf
<1>4. s = IF base = 16 THEN SubSeq(text, 3, Len(text)) ELSE text
  BY DEF DigitsOf
<1> HIDE DEF text, s, base
<1>5. Below(8) \subseteq Below(16) /\ Below(10) \subseteq Below(16) /\ Below(8) \subseteq Below(10)
  BY DigitRanges, DecimalDigitFacts
<1>6. PICK l \in Nat : Len(text) = l
  BY <1>1
<1>7. \A c : Range(s) \subseteq c <=> \A j \in DOMAIN s : s[j] \in c
  BY DEF Range
<1>8. ASSUME t.rule \in {8, 9}
      PROVE  /\ s \in Seq(Below(base)) /\ EndsIn(text, 1, s) /\ 1 <= Len(text)
             /\ Range(s) \subseteq Below(base)
  <2>1. s = text /\ base \in {8, 10} /\ \A j \in 1..Len(text) : text[j] \in Below(base)
    BY <1>1, <1>3, <1>4, <1>8
  <2>2. s \in Seq(Below(base)) /\ DOMAIN s = 1..Len(s)
    BY <1>1, <1>6, <2>1
  <2>3. 1 - 1 = 0 /\ \A j \in 1..Len(s) : 0 + j = j
    OBVIOUS
  <2>4. 1 \in Nat \ {0} /\ 0 + Len(s) = Len(s)
    BY <1>6, <2>1
  <2>5. EndsIn(text, 1, s)
    BY <2>1, <2>3, <2>4 DEF EndsIn
  <2> QED
    BY <1>1, <1>7, <2>1, <2>2, <2>5
<1>9. ASSUME t.rule = 10
      PROVE  /\ s \in Seq(Below(base)) /\ EndsIn(text, 3, s) /\ 3 <= Len(text)
             /\ Range(s) \subseteq Below(base)
  <2>1. s = SubSeq(text, 3, l) /\ base = 16 /\ 3 <= l /\ \A j \in 3..l : text[j] \in Below(16)
    BY <1>1, <1>3, <1>4, <1>6, <1>9
  <2>2. Len(s) = l - 2 /\ DOMAIN s = 1..l-2 /\ s \in Seq(Chars) /\ \A j \in 1..l-2 : s[j] = text[j+2]
    BY <1>1, <1>6, <2>1
  <2>3. \A j \in 1..l-2 : j + 2 \in 3..l /\ 3 - 1 + j = j + 2
    BY <1>6
  <2>4. \A j \in 1..l-2 : s[j] \in Below(16)
    BY <2>1, <2>2, <2>3
  <2>5. s \in Seq(Below(base))
    BY <2>1, <2>2, <2>4
  <2>6. 3 \in Nat \ {0} /\ l = 3 - 1 + (l - 2)
    BY <1>6
  <2>7. EndsIn(text, 3, s)
    BY <1>6, <2>2, <2>3, <2>6 DEF EndsIn
  <2> QED
    BY <1>6, <1>7, <2>1, <2>2, <2>4, <2>5, <2>7
<1>10. base \in Nat /\ Below(base) \subseteq Below(16)
  BY <1>1, <1>3, <1>5
<1>11. /\ StrToL(text, 0) \in Int
       /\ Worth(s, base) < TwoTo[LongBits-1] => StrToL(text, 0) = Worth(s, base)
  <2>1. CASE t.rule = 8
    <3>1. base = 10 /\ 1 \in {1, 3} /\ text[1] \in Below(10) \ {"0"}
      BY <1>1, <1>3, <1>6, <2>1
    <3> QED
      BY <1>1, <1>8, <1>10, <2>1, <3>1, LiteralValue
  <2>2. CASE t.rule = 9
    <3>1. base = 8 /\ 1 \in {1, 3} /\ text[1] = "0"
      BY <1>1, <1>3, <2>2
    <3> QED
      BY <1>1, <1>8, <1>10, <2>2, <3>1, LiteralValue
  <2>3. CASE t.rule = 10
    <3>1. base = 16 /\ 3 \in {1, 3} /\ text[1] = "0" /\ text[2] \in {"x", "X"}
      BY <1>1, <1>3, <2>3
    <3> QED
      BY <1>1, <1>9, <1>10, <2>3, <3>1, LiteralValue
  <2> QED
    BY <1>1, <2>1, <2>2, <2>3
<1>12. Range(s) \subseteq Below(base)
  BY <1>1, <1>8, <1>9
<1> QED
  BY <1>2, <1>11, <1>12 DEF text, s, base

\* The patterns of the comment of __is_int_ and the function agree from every
\* place on.
LEMMA NumberPattern ==
    ASSUME IsFile, NEW k \in Places
    PROVE  Moves(Unsigned) /\ (Len(input) + 1 \in Unsigned[k] <=> IsNumber(input, k))
<1> DEFINE l == Len(input)
           Binary == Then(Char("0"), Then(One({"b", "B"}), Plus(One(Below(2)))))
<1>1. l \in Nat /\ k \in Int /\ 1 <= k /\ k <= l + 1 /\ Places = 1..l+1
  BY PlacesFacts
<1>2. /\ Moves(Decimal) /\ Moves(Octal) /\ Moves(Hexadecimal)
      /\ l + 1 \in Decimal[k] <=>
            k <= l /\ input[k] \in Below(10) \ {"0"} /\ l + 1 \in Run(Below(10), k + 1)
      /\ l + 1 \in Octal[k] <=>
            k <= l /\ input[k] = "0" /\ l + 1 \in Run(Below(8), k + 1)
      /\ l + 1 \in Hexadecimal[k] <=>
            /\ k < l /\ input[k] = "0" /\ input[k+1] \in {"x", "X"}
            /\ l + 1 \in Run(Below(16), k + 2) /\ k + 2 < l + 1
  BY SimpleRules
<1>3. /\ Moves(Binary)
      /\ l + 1 \in Binary[k] <=>
            /\ k < l /\ input[k] = "0" /\ input[k+1] \in {"b", "B"}
            /\ l + 1 \in Run(Below(2), k + 2) /\ k + 2 < l + 1
  <2> DEFINE P == Plus(One(Below(2)))
             Q == Then(One({"b", "B"}), P)
  <2>1. Moves(Char("0")) /\ \A j \in Places : \A e : e \in Char("0")[j] <=> e = j + 1 /\ j <= l /\ input[j] \in {"0"}
    BY OneFacts DEF Char
  <2>2. /\ Moves(One({"b", "B"}))
        /\ \A j \in Places : \A e : e \in One({"b", "B"})[j] <=> e = j + 1 /\ j <= l /\ input[j] \in {"b", "B"}
    BY OneFacts
  <2>3. Moves(P) /\ \A j \in Places : \A e : e \in P[j] <=> e \in Run(Below(2), j) /\ j < e
    BY PlusFacts
  <2> HIDE DEF P, l
  <2>4. Moves(Q) /\ \A j \in Places : \A e : e \in Q[j] <=> \E m \in One({"b", "B"})[j] : e \in P[m]
    BY <2>2, <2>3, ThenFacts
  <2> HIDE DEF Q
  <2>5. Moves(Binary) /\ \A j \in Places : \A e : e \in Binary[j] <=> \E m \in Char("0")[j] : e \in Q[m]
    <3>1. Binary = Then(Char("0"), Q)
      BY DEF Q, P
    <3> HIDE DEF Binary
    <3> QED
      BY <2>1, <2>4, <3>1, ThenFacts
  <2> HIDE DEF Binary
  <2>6. \A j \in Places : j <= l => j + 1 \in Places
    BY <1>1
  <2>7. l + 1 \in Binary[k] <=> k <= l /\ input[k] = "0" /\ l + 1 \in Q[k + 1]
    BY <2>1, <2>5
  <2>8. k <= l => (l + 1 \in Q[k + 1] <=> k + 1 <= l /\ input[k+1] \in {"b", "B"} /\ l + 1 \in P[k + 1 + 1])
    BY <2>2, <2>4, <2>6
  <2>9. k < l => k + 1 + 1 = k + 2 /\ k + 2 \in Places /\ k <= l /\ k + 1 <= l
    BY <1>1
  <2>10. k + 1 <= l <=> k < l
    BY <1>1
  <2>11. k < l => (l + 1 \in P[k + 1 + 1] <=> l + 1 \in Run(Below(2), k + 2) /\ k + 2 < l + 1)
    BY <2>3, <2>9
  <2> QED
    BY <2>5, <2>7, <2>8, <2>9, <2>10, <2>11
<1>4. Unsigned = Or(Or(Decimal, Octal), Or(Hexadecimal, Binary))
  BY DEF Unsigned
<1> HIDE DEF l, Binary
<1>5. /\ Moves(Unsigned)
      /\ l + 1 \in Unsigned[k] <=>
            \/ l + 1 \in Decimal[k] \/ l + 1 \in Octal[k]
            \/ l + 1 \in Hexadecimal[k] \/ l + 1 \in Binary[k]
  <2>1. Moves(Or(Decimal, Octal)) /\ Moves(Or(Hexadecimal, Binary))
    BY <1>2, <1>3, OrFacts
  <2>2. Moves(Unsigned)
    BY <1>4, <2>1, OrFacts
  <2>3. l + 1 \in Unsigned[k] <=> l + 1 \in Or(Decimal, Octal)[k] \/ l + 1 \in Or(Hexadecimal, Binary)[k]
    BY <1>4, <2>1, OrFacts
  <2>4. l + 1 \in Or(Decimal, Octal)[k] <=> l + 1 \in Decimal[k] \/ l + 1 \in Octal[k]
    BY <1>2, OrFacts
  <2>5. l + 1 \in Or(Hexadecimal, Binary)[k] <=> l + 1 \in Hexadecimal[k] \/ l + 1 \in Binary[k]
    BY <1>2, <1>3, OrFacts
  <2> QED
    BY <2>2, <2>3, <2>4, <2>5
<1>6. ASSUME NEW C, NEW j \in Int, j >= 1
      PROVE  l + 1 \in Run(C, j) <=> j <= l + 1 /\ \A m \in j..l : input[m] \in C
  <2>1. (l + 1) - 1 = l /\ l + 1 \in Places
    BY <1>1
  <2> QED
    BY <2>1 DEF Run
<1>7. ASSUME NEW C, NEW j \in Int, j >= 1
      PROVE  AllFrom(input, j, C) <=> j < l + 1 /\ l + 1 \in Run(C, j)
  <2>1. AllFrom(input, j, C) <=> j <= l /\ \A m \in j..l : input[m] \in C
    BY DEF AllFrom, l
  <2>2. j <= l <=> j < l + 1 /\ j <= l + 1
    BY <1>1
  <2> QED
    BY <1>6, <1>7, <2>1, <2>2
<1>8. IsNumber(input, k) <=>
         /\ k <= l
         /\ \/ input[k] # "0" /\ AllFrom(input, k, Below(10))
            \/ input[k] = "0" /\ k = l
            \/ /\ input[k] = "0" /\ k < l
               /\ \/ input[k+1] \in {"x", "X"} /\ AllFrom(input, k + 2, Below(16))
                  \/ input[k+1] \in {"b", "B"} /\ AllFrom(input, k + 2, Below(2))
                  \/ input[k+1] \in Below(8) /\ AllFrom(input, k + 1, Below(8))
  BY DEF IsNumber, l
<1>9. /\ AllFrom(input, k + 2, Below(16)) <=> k + 2 < l + 1 /\ l + 1 \in Run(Below(16), k + 2)
      /\ AllFrom(input, k + 2, Below(2)) <=> k + 2 < l + 1 /\ l + 1 \in Run(Below(2), k + 2)
  BY <1>1, <1>7
<1>10. k <= l => (input[k] # "0" /\ AllFrom(input, k, Below(10)) <=> l + 1 \in Decimal[k])
  <2> SUFFICES ASSUME k <= l PROVE input[k] # "0" /\ AllFrom(input, k, Below(10)) <=> l + 1 \in Decimal[k]
    OBVIOUS
  <2>1. AllFrom(input, k, Below(10)) <=> \A m \in k..l : input[m] \in Below(10)
    BY DEF AllFrom, l
  <2>2. l + 1 \in Run(Below(10), k + 1) <=> \A m \in k+1..l : input[m] \in Below(10)
    BY <1>1, <1>6
  <2>3. (\A m \in k..l : input[m] \in Below(10)) <=>
           input[k] \in Below(10) /\ \A m \in k+1..l : input[m] \in Below(10)
    <3>1. k \in k..l /\ \A m \in k+1..l : m \in k..l
      BY <1>1
    <3>2. \A m \in k..l : m = k \/ m \in k+1..l
      BY <1>1
    <3> QED
      BY <3>1, <3>2
  <2> QED
    BY <1>2, <2>1, <2>2, <2>3
<1>11. k <= l => (\/ input[k] = "0" /\ k = l
                  \/ input[k] = "0" /\ k < l /\ input[k+1] \in Below(8) /\ AllFrom(input, k + 1, Below(8))
                  <=> l + 1 \in Octal[k])
  <2> SUFFICES ASSUME k <= l, input[k] = "0"
               PROVE  \/ k = l
                      \/ k < l /\ input[k+1] \in Below(8) /\ AllFrom(input, k + 1, Below(8))
                      <=> l + 1 \in Run(Below(8), k + 1)
    BY <1>2
  <2>1. l + 1 \in Run(Below(8), k + 1) <=> \A m \in k+1..l : input[m] \in Below(8)
    BY <1>1, <1>6
  <2>2. AllFrom(input, k + 1, Below(8)) <=> k + 1 <= l /\ \A m \in k+1..l : input[m] \in Below(8)
    BY DEF AllFrom, l
  <2>3. k = l => \A m \in k+1..l : FALSE
    BY <1>1
  <2>4. k < l => k + 1 \in k+1..l /\ k + 1 <= l
    BY <1>1
  <2>5. k = l \/ k < l
    BY <1>1
  <2> QED
    BY <2>1, <2>2, <2>3, <2>4, <2>5
<1>12. k < l => k <= l
  BY <1>1
<1>13. l + 1 \in Unsigned[k] <=> IsNumber(input, k)
  <2>1. CASE k <= l
    BY <1>2, <1>3, <1>5, <1>8, <1>9, <1>10, <1>11, <1>12, <2>1
  <2>2. CASE ~(k <= l)
    BY <1>2, <1>3, <1>5, <1>8, <1>12, <2>2
  <2> QED
    BY <2>1, <2>2
<1> QED
  BY <1>5, <1>13 DEF l

-----------------------------------------------------------------------------
\* On every file the tokens are what the rules take, longest match and first
\* rule, from places where the file is code, and a byte outside ASCII has ended it.
THEOREM LexerInvariant == Spec => []LexInv
<1>1. LexInv /\ [Next \/ EndOfFile]_vars => LexInv'
  BY LexStep
<1> QED
  BY <1>1, LexInit, PTL DEF Spec

\* The scanner keeps its types: yylval is an int, whatever strtol makes of a
\* literal, and no token is empty.
THEOREM LexerTypeCorrect == Spec => []LexerTypeOK
<1>1. LexInv => LexerTypeOK
  <2> SUFFICES ASSUME LexInv, NEW i \in DOMAIN tokens
               PROVE  tokens[i].text # <<>> /\ tokens[i].int_val \in Word
    BY DEF LexInv, LexerTypeOK, Places
  <2>1. IsFile /\ tokens[i] \in ScannedTokens
    BY InputsAssumption DEF LexInv, IsFile
  <2> DEFINE t == tokens[i]
  <2>2. t \in ScannedTokens
    BY <2>1
  <2> HIDE DEF t
  <2>3. t.text # <<>> /\ t.int_val = Literal(t.class, t.text)
    BY <2>1, <2>2, TokenFacts
  <2>4. CASE t.class = "INT_CONST"
    <3>1. StrToL(t.text, 0) \in Int /\ t.int_val = Wrap(StrToL(t.text, 0))
      BY <2>1, <2>2, <2>4, LiteralFacts
    <3>2. t.int_val \in Word
      BY <3>1, WrapIsWord
    <3> QED
      BY <2>3, <3>2 DEF t
  <2>5. CASE t.class # "INT_CONST"
    <3>1. t.int_val = 0
      BY <2>3, <2>5 DEF Literal
    <3>2. 0 \in Word
      BY WordFacts
    <3> QED
      BY <2>3, <3>1, <3>2 DEF t
  <2> QED
    BY <2>4, <2>5
<1> QED
  BY <1>1, LexerInvariant, PTL

\* On every file the comment patterns take exactly the comments: the tokens cover
\* the code, white space apart, and nothing else.
THEOREM LexerCoversCode == Spec => []TokensCoverCode
<1>1. LexInv => TokensCoverCode
  BY DEF LexInv
<1> QED
  BY <1>1, LexerInvariant, PTL

\* A byte outside ASCII that is code ends every file.
THEOREM LexerForeignEnds == Spec => []ForeignByteEnds
<1>1. LexInv => ForeignByteEnds
  BY DEF LexInv
<1> QED
  BY <1>1, LexerInvariant, PTL

\* On every file some rule takes the next character, or more.
THEOREM LexerHasRule == Spec => []EveryCharacterHasRule
<1>1. LexInv => EveryCharacterHasRule
  <2> SUFFICES ASSUME LexInv, ~Ended PROVE Longest(Matches)[1] > pos
    BY DEF EveryCharacterHasRule
  <2>1. IsFile /\ pos \in Places
    BY InputsAssumption DEF LexInv, IsFile
  <2>2. ~(pos > Len(input))
    BY DEF Ended
  <2>3. pos <= Len(input)
    BY <2>1, <2>2, PlacesFacts
  <2>4. Longest(Matches)[1] \in Places /\ pos < Longest(Matches)[1]
    BY <2>1, <2>3, NextMatch
  <2> QED
    BY <2>1, <2>4, PlacesFacts
<1> QED
  BY <1>1, LexerInvariant, PTL

\* On every file keywords are whole words, and no name is a keyword.
THEOREM LexerKeywordsWhole == Spec => []KeywordsAreWhole
<1>1. LexInv => KeywordsAreWhole
  <2> SUFFICES ASSUME LexInv, NEW t \in Range(tokens)
               PROVE  LET next == t.from + Len(t.text)
                      IN  /\ t.class \in {"INT", "RETURN", "CONST"} /\ next <= Len(input) =>
                                input[next] \notin WordChars
                          /\ t.class = "IDENT" => t.text \notin {INT, RETURN, CONST}
    BY DEF KeywordsAreWhole
  <2>1. IsFile /\ t \in ScannedTokens
    BY InputsAssumption DEF LexInv, IsFile, Range
  <2>2. PICK k \in Places, e \in Places, i \in 4..12 :
              /\ IsTaken(k, e, i) /\ t.from = k
              /\ Len(t.text) = e - k /\ k + Len(t.text) = e
              /\ \A j \in 1..e-k : t.text[j] = input[k+j-1]
              /\ t.class = ClassOf(i, t.text)
    BY <2>1, TokenFacts
  <2>3. /\ k <= Len(input) /\ k < e /\ e \in Patterns[i][2][k]
        /\ \A j \in 1..12 : \A f \in Patterns[j][2][k] : f < e \/ (f = e /\ j >= i)
    BY <2>2 DEF IsTaken
  <2>4. /\ k \in Int /\ e \in Int /\ Len(input) \in Nat /\ Places = 1..Len(input)+1
    BY <2>1, PlacesFacts
  <2>5. ASSUME t.class \in {"INT", "RETURN", "CONST"}, e <= Len(input), input[e] \in WordChars
        PROVE  FALSE
    <3>1. i \in 4..6
      BY <2>2, <2>5, ClassRules
    <3>2. PICK w \in {INT, RETURN, CONST} : e \in Text(w)[k]
      <4>1. i = 4 \/ i = 5 \/ i = 6
        BY <3>1
      <4>2. e \in Text(INT)[k] \/ e \in Text(RETURN)[k] \/ e \in Text(CONST)[k]
        BY <2>3, <4>1, RuleList
      <4> QED
        BY <4>2
    <3>3. PICK n \in Nat : Len(w) = n /\ n >= 1 /\ \A j \in 1..n : w[j] \in Letter
      <4>1. w = INT \/ w = RETURN \/ w = CONST
        BY <3>2
      <4>2. w = INT => Len(w) = 3 /\ \A j \in 1..3 : w[j] \in Letter
        BY KeywordFacts
      <4>3. w = RETURN => Len(w) = 6 /\ \A j \in 1..6 : w[j] \in Letter
        BY KeywordFacts
      <4>4. w = CONST => Len(w) = 5 /\ \A j \in 1..5 : w[j] \in Letter
        BY KeywordFacts
      <4>5. 3 \in Nat /\ 5 \in Nat /\ 6 \in Nat /\ 3 >= 1 /\ 5 >= 1 /\ 6 >= 1
        OBVIOUS
      <4> QED
        BY <4>1, <4>2, <4>3, <4>4, <4>5
    <3>4. e = k + n /\ \A j \in 1..n : input[k+j-1] = w[j]
      BY <2>1, <3>2, <3>3, TextFacts
    <3>5. \A j \in k..e-1 : input[j] \in Letter
      <4> SUFFICES ASSUME NEW j \in k..e-1 PROVE input[j] \in Letter
        OBVIOUS
      <4>1. j - k + 1 \in 1..n /\ k + (j - k + 1) - 1 = j
        BY <2>4, <3>4
      <4> QED
        BY <3>3, <3>4, <4>1
    <3>6. \A j \in k+1..(e+1)-1 : input[j] \in WordChars
      BY <2>4, <2>5, <3>5 DEF WordChars
    <3>7. e + 1 \in Run(WordChars, k + 1)
      BY <2>3, <2>4, <2>5, <3>6 DEF Run
    <3>8. input[k] \in Letter
      BY <2>3, <2>4, <3>5
    <3>9. e + 1 \in Identifier[k]
      BY <2>1, <2>3, <3>7, <3>8, SimpleRules
    <3>10. e + 1 \in Patterns[7][2][k]
      BY <3>9, RuleList
    <3> QED
      BY <2>3, <2>4, <3>10
  <2>6. ASSUME t.class = "IDENT", t.text \in {INT, RETURN, CONST}
        PROVE  FALSE
    <3>1. i = 7
      BY <2>2, <2>6, ClassRules
    <3>2. PICK n \in Nat : n = e - k
      BY <2>3, <2>4
    <3>3. e \in Text(t.text)[k]
      <4>1. Len(t.text) = n /\ e = k + n /\ \A j \in 1..n : input[k+j-1] = t.text[j]
        BY <2>2, <2>4, <3>2
      <4> QED
        BY <2>1, <4>1, TextFacts
    <3>4. PICK j \in 4..6 : e \in Patterns[j][2][k]
      <4>1. e \in Patterns[4][2][k] \/ e \in Patterns[5][2][k] \/ e \in Patterns[6][2][k]
        BY <2>6, <3>3, RuleList
      <4> QED
        BY <4>1
    <3> QED
      BY <2>3, <2>4, <3>1, <3>4
  <2> QED
    BY <2>2, <2>5, <2>6
<1> QED
  BY <1>1, LexerInvariant, PTL

\* Every literal keeps its value, as far as an int can, on its way through strtol
\* and std::to_string to the folder, for every width of an int and of a long.
THEOREM LexerLiteralsSurvive == Spec => []LiteralsSurvive
<1>1. LexInv => LiteralsSurvive
  <2> SUFFICES ASSUME LexInv, NEW t \in Range(tokens), t.class = "INT_CONST"
               PROVE  LET value == Worth(DigitsOf(t), BaseOf(t))
                      IN  /\ Range(DigitsOf(t)) \subseteq Below(BaseOf(t))
                          /\ value < TwoTo[LongBits-1] => t.int_val = Wrap(value)
                          /\ IsInt(Int2Str(t.int_val))
                          /\ Str2Int(Int2Str(t.int_val)) = t.int_val
    BY DEF LiteralsSurvive
  <2>1. IsFile /\ t \in ScannedTokens
    BY InputsAssumption DEF LexInv, IsFile, Range
  <2>2. /\ Range(DigitsOf(t)) \subseteq Below(BaseOf(t))
        /\ StrToL(t.text, 0) \in Int /\ t.int_val = Wrap(StrToL(t.text, 0))
        /\ Worth(DigitsOf(t), BaseOf(t)) < TwoTo[LongBits-1] =>
              StrToL(t.text, 0) = Worth(DigitsOf(t), BaseOf(t))
    BY <2>1, LiteralFacts
  <2>3. t.int_val \in Word
    BY <2>2, WrapIsWord
  <2>4. t.int_val \in Int
    BY <2>3, WordFacts
  <2>5. IsInt(Int2Str(t.int_val)) /\ Str2Int(Int2Str(t.int_val)) = t.int_val
    BY <2>3, <2>4, Int2StrIsInt, Int2Str2Int
  <2> QED
    BY <2>2, <2>5
<1> QED
  BY <1>1, LexerInvariant, PTL

\* Whatever the text, __is_int_ accepts it if and only if it is a number as items 1
\* and 2 of its comment ask for; item 3, the bounds of an int, it does not look at.
THEOREM LexerIsIntTakesNumbers == Spec => []IsIntTakesNumbers
<1>1. LexInv => IsIntTakesNumbers
  <2> SUFFICES ASSUME LexInv
               PROVE  IsInt(input) <=> Len(input) + 1 \in Or(Unsigned, Then(One(Signs), Unsigned))[1]
    BY DEF IsIntTakesNumbers
  <2>1. IsFile
    BY InputsAssumption DEF LexInv, IsFile
  <2> DEFINE l == Len(input)
             S == Then(One(Signs), Unsigned)
  <2>2. l \in Nat /\ Places = 1..l+1 /\ 1 \in Places /\ (1 <= l => 1 + 1 = 2 /\ 2 \in Places)
    BY <2>1, PlacesFacts
  <2>3. Moves(Unsigned) /\ \A k \in Places : l + 1 \in Unsigned[k] <=> IsNumber(input, k)
    BY <2>1, <2>2, NumberPattern
  <2>4. /\ Moves(One(Signs))
        /\ \A k \in Places : \A e : e \in One(Signs)[k] <=> e = k + 1 /\ k <= l /\ input[k] \in Signs
    BY <2>1, OneFacts
  <2>5. Moves(S) /\ \A k \in Places : \A e : e \in S[k] <=> \E j \in One(Signs)[k] : e \in Unsigned[j]
    BY <2>1, <2>3, <2>4, ThenFacts
  <2>6. input = <<>> <=> ~(1 <= l)
    BY <2>1 DEF IsFile
  <2> HIDE DEF S, l
  <2>7. l + 1 \in Or(Unsigned, S)[1] <=> l + 1 \in Unsigned[1] \/ l + 1 \in S[1]
    BY <2>1, <2>2, <2>3, <2>5, OrFacts
  <2>8. l + 1 \in S[1] <=> 1 <= l /\ input[1] \in Signs /\ IsNumber(input, 2)
    BY <2>2, <2>3, <2>4, <2>5
  <2>9. l + 1 \in Unsigned[1] <=> IsNumber(input, 1)
    BY <2>2, <2>3
  <2>10. IsNumber(input, 1) => input[1] \notin Signs
    <3>1. IsNumber(input, 1) => input[1] \in DecimalChars
      <4>1. IsNumber(input, 1) /\ AllFrom(input, 1, Below(10)) => input[1] \in Below(10)
        BY <2>2 DEF AllFrom, l
      <4>2. IsNumber(input, 1) => input[1] = "0" \/ AllFrom(input, 1, Below(10))
        BY DEF IsNumber
      <4> QED
        BY <4>1, <4>2, DecimalDigitFacts DEF DecimalChars
    <3> QED
      BY <3>1 DEF DecimalChars, Signs
  <2>11. IsInt(input) <=> IF 1 <= l /\ input[1] \in Signs THEN IsNumber(input, 2) ELSE IsNumber(input, 1)
    BY <2>6 DEF IsInt
  <2>12. IsInt(input) <=> l + 1 \in Or(Unsigned, S)[1]
    BY <2>7, <2>8, <2>9, <2>10, <2>11
  <2> QED
    BY <2>12 DEF l, S
<1> QED
  BY <1>1, LexerInvariant, PTL
=============================================================================
