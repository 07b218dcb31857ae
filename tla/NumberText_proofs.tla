-------------------------- MODULE NumberText_proofs --------------------------
(***************************************************************************)
(* Facts about numbers as texts, for every width of an int: strtol reads   *)
(* what the digits are worth, and undoes std::to_string.                   *)
(***************************************************************************)
EXTENDS NumberText, Induction, SequenceTheorems

\* The recursion of TwoTo has a solution, and doubles from step to step.
LEMMA TwoToFacts ==
    /\ TwoTo[0] = 1
    /\ \A n \in Nat : TwoTo[n] \in Nat \ {0} /\ TwoTo[n+1] = 2 * TwoTo[n]
<1> DEFINE Of(f, n) == IF n = 0 THEN 1 ELSE 2 * f[n-1]
           lev == [n \in Nat |-> n]
           D == Nat \ {0}
           step == [q \in [Nat -> D] \X Nat |-> Of(q[1], q[2])]
<1>1. \A f \in [Nat -> D], n \in Nat : Of(f, n) \in D /\ step[<<f, n>>] = Of(f, n)
  <2>1. ASSUME NEW f \in [Nat -> D], NEW n \in Nat PROVE Of(f, n) \in D
    <3>1. n # 0 => n - 1 \in Nat
      OBVIOUS
    <3>2. n # 0 => f[n-1] \in D
      BY <3>1
    <3> QED
      BY <3>2
  <2> QED
    BY <2>1
<1>2. step \in [[Nat -> D] \X Nat -> D]
  <2> HIDE DEF D
  <2> QED
    BY <1>1
<1>3. ASSUME NEW f \in [Nat -> D], NEW g \in [Nat -> D], NEW n \in Nat,
             \A k \in Nat : lev[k] < lev[n] => f[k] = g[k]
      PROVE  step[<<f, n>>] = step[<<g, n>>]
  <2>1. n # 0 => f[n-1] = g[n-1]
    BY <1>3
  <2> QED
    BY <1>1, <2>1
<1> HIDE DEF step
<1>4. lev \in [Nat -> Nat] /\ D # {}
  <2>1. 1 \in D
    OBVIOUS
  <2> QED
    BY <2>1
<1>5. IsRecursion(Nat, lev, D, step)
  BY <1>2, <1>3, <1>4 DEF IsRecursion
<1>6. PICK f : IsSolution(f, Nat, D, step)
  BY <1>5, RecursionExists
<1>7. f = [n \in Nat |-> Of(f, n)]
  BY <1>1, <1>6 DEF IsSolution
<1>8. TwoTo = [n \in Nat |-> Of(TwoTo, n)]
  <2> DEFINE T == CHOOSE t : t = [n \in Nat |-> Of(t, n)]
  <2>1. T = [n \in Nat |-> Of(T, n)]
    BY <1>7
  <2> QED
    BY <2>1 DEF TwoTo
<1>9. TwoTo[0] = 1 /\ \A n \in Nat : TwoTo[n+1] = 2 * TwoTo[n]
  <2>1. \A n \in Nat : TwoTo[n] = Of(TwoTo, n)
    BY <1>8
  <2>2. \A n \in Nat : n + 1 \in Nat /\ n + 1 # 0 /\ (n + 1) - 1 = n
    OBVIOUS
  <2> QED
    BY <2>1, <2>2
<1> DEFINE S == {n \in Nat : TwoTo[n] \in D}
<1>10. Nat \subseteq S
  <2>1. 0 \in S
    BY <1>9
  <2>2. \A n \in Nat : n \in S => n + 1 \in S
    BY <1>9
  <2> HIDE DEF S
  <2> QED
    BY <2>1, <2>2, SetInduction
<1> QED
  BY <1>9, <1>10

\* A wider word has more values.
LEMMA TwoToGrows ==
    ASSUME NEW m \in Nat, NEW n \in Nat, m <= n
    PROVE  TwoTo[m] <= TwoTo[n]
<1> DEFINE S == {k \in Nat : TwoTo[m] <= TwoTo[m + k]}
<1>1. 0 \in S
  BY TwoToFacts
<1>2. ASSUME NEW k \in Nat, k \in S PROVE k + 1 \in S
  <2>1. m + k \in Nat /\ m + (k + 1) = (m + k) + 1
    OBVIOUS
  <2>2. TwoTo[m + k] \in Nat /\ TwoTo[(m + k) + 1] = 2 * TwoTo[m + k] /\ TwoTo[m] \in Nat
    BY <2>1, TwoToFacts
  <2> QED
    BY <1>2, <2>1, <2>2
<1> HIDE DEF S
<1>3. n - m \in S
  <2>1. n - m \in Nat /\ Nat \subseteq S
    BY <1>1, <1>2, SetInduction
  <2> QED
    BY <2>1
<1>4. m + (n - m) = n
  OBVIOUS
<1> QED
  BY <1>3, <1>4 DEF S

\* The words of Bits, as the ends of an interval.
LEMMA WordFacts ==
    /\ Bits - 1 \in Nat /\ LongBits - 1 \in Nat
    /\ TwoTo[Bits - 1] \in Nat \ {0} /\ TwoTo[LongBits - 1] \in Nat
    /\ TwoTo[Bits - 1] <= TwoTo[LongBits - 1]
    /\ Modulus = 2 * TwoTo[Bits - 1]
    /\ Word = -TwoTo[Bits - 1]..TwoTo[Bits - 1] - 1
<1>1. Bits - 1 \in Nat /\ LongBits - 1 \in Nat /\ Bits - 1 <= LongBits - 1 /\ (Bits - 1) + 1 = Bits
  BY BitsAssumption, LongBitsAssumption
<1>2. TwoTo[Bits - 1] \in Nat \ {0} /\ TwoTo[LongBits - 1] \in Nat /\ TwoTo[Bits] = 2 * TwoTo[Bits - 1]
  BY <1>1, TwoToFacts
<1>3. TwoTo[Bits - 1] <= TwoTo[LongBits - 1]
  BY <1>1, TwoToGrows
<1>4. Word = -TwoTo[Bits - 1]..TwoTo[Bits - 1] - 1
  BY <1>2 DEF Word, Smallest
<1> QED
  BY <1>1, <1>2, <1>3, <1>4 DEF Modulus

\* An int survives the truncation to an int.
LEMMA WrapKeeps ==
    ASSUME NEW v \in Word
    PROVE  Wrap(v) = v
<1> DEFINE h == TwoTo[Bits - 1]
<1>1. h \in Nat /\ v \in -h..h - 1 /\ Smallest = -h /\ Modulus = 2 * h
  BY WordFacts DEF Smallest
<1> HIDE DEF h
<1>2. ASSUME NEW x \in Nat, NEW M \in Nat, x < M PROVE x % M = x
  BY <1>2
<1>3. v - (-h) \in Nat /\ 2 * h \in Nat /\ v - (-h) < 2 * h
  BY <1>1
<1>4. (v - (-h)) % (2 * h) = v - (-h)
  BY <1>2, <1>3
<1> QED
  BY <1>1, <1>4 DEF Wrap

\* The characters of a decimal number.
DecimalChars == {"0", "1", "2", "3", "4", "5", "6", "7", "8", "9"}

\* The digits by their place in the sequences of NumberText.
LEMMA DigitPlaces ==
    LET s == Digits \o HexLetters
        t == Digits \o HexCapitals
    IN  /\ Len(s) = 16
        /\ s[1] = "0" /\ s[2] = "1" /\ s[3] = "2" /\ s[4] = "3" /\ s[5] = "4"
        /\ s[6] = "5" /\ s[7] = "6" /\ s[8] = "7" /\ s[9] = "8" /\ s[10] = "9"
        /\ \A n \in 0..9 : t[n+1] = s[n+1] /\ s[n+1] = Digits[n+1]
        /\ \A n \in 10..15 : s[n+1] \notin DecimalChars /\ t[n+1] \notin DecimalChars
<1> DEFINE s == Digits \o HexLetters
           t == Digits \o HexCapitals
<1>1. /\ Len(s) = 16 /\ DOMAIN s = 1..16
      /\ \A n \in 1..10 : s[n] = Digits[n] /\ t[n] = Digits[n]
      /\ \A n \in 11..16 : s[n] = HexLetters[n - 10] /\ t[n] = HexCapitals[n - 10]
  BY DEF Digits, HexLetters, HexCapitals
<1> HIDE DEF s, t
<1>2. /\ s[1] = "0" /\ s[2] = "1" /\ s[3] = "2" /\ s[4] = "3" /\ s[5] = "4"
      /\ s[6] = "5" /\ s[7] = "6" /\ s[8] = "7" /\ s[9] = "8" /\ s[10] = "9"
  BY <1>1 DEF Digits
<1>3. \A n \in 0..9 : t[n+1] = s[n+1] /\ s[n+1] = Digits[n+1]
  BY <1>1
<1>4. \A k \in 1..6 : HexLetters[k] \notin DecimalChars /\ HexCapitals[k] \notin DecimalChars
  BY DEF HexLetters, HexCapitals, DecimalChars
<1>5. \A n \in 10..15 : s[n+1] \notin DecimalChars /\ t[n+1] \notin DecimalChars
  <2> SUFFICES ASSUME NEW n \in 10..15
               PROVE  s[n+1] \notin DecimalChars /\ t[n+1] \notin DecimalChars
    OBVIOUS
  <2>1. n + 1 \in 11..16 /\ (n + 1) - 10 \in 1..6
    OBVIOUS
  <2> QED
    BY <1>1, <1>4, <2>1
<1> QED
  BY <1>1, <1>2, <1>3, <1>5 DEF s, t

\* The digits of a decimal number, and what they are worth.
LEMMA DecimalDigitFacts ==
    /\ Below(10) = DecimalChars
    /\ \A n \in 0..9 : Digits[n+1] \in DecimalChars /\ DigitValue[Digits[n+1]] = n
<1> DEFINE s == Digits \o HexLetters
           t == Digits \o HexCapitals
<1>1. /\ Len(s) = 16
      /\ s[1] = "0" /\ s[2] = "1" /\ s[3] = "2" /\ s[4] = "3" /\ s[5] = "4"
      /\ s[6] = "5" /\ s[7] = "6" /\ s[8] = "7" /\ s[9] = "8" /\ s[10] = "9"
      /\ \A n \in 0..9 : t[n+1] = s[n+1] /\ s[n+1] = Digits[n+1]
      /\ \A n \in 10..15 : s[n+1] \notin DecimalChars /\ t[n+1] \notin DecimalChars
  BY DigitPlaces
<1>2. DOMAIN SubSeq(s, 1, 10) = 1..10 /\ \A n \in 1..10 : SubSeq(s, 1, 10)[n] = s[n]
  BY DEF Digits, HexLetters
<1>2a. DOMAIN SubSeq(s, 1, 16) = 1..16 /\ \A n \in 1..16 : SubSeq(s, 1, 16)[n] = s[n]
  BY DEF Digits, HexLetters
<1>3. Below(10) = Range(SubSeq(s, 1, 10))
  BY DEF Below
<1>3a. Range(SubSeq(s, 1, 16)) \subseteq Below(16)
  BY DEF Below
<1> HIDE DEF s, t
<1>4. Range(SubSeq(s, 1, 10)) = DecimalChars
  BY <1>1, <1>2 DEF Range, DecimalChars
<1>5. \A n \in 0..9 : s[n+1] \in DecimalChars
  BY <1>1 DEF DecimalChars
<1>6. \A n, m \in 0..9 : s[n+1] = s[m+1] => n = m
  BY <1>1
<1>7. ASSUME NEW n \in 0..9 PROVE DigitValue[s[n+1]] = n
  <2> DEFINE c == s[n+1]
  <2>1. c \in Below(16)
    <3>1. n + 1 \in 1..16
      OBVIOUS
    <3>2. n + 1 \in DOMAIN SubSeq(s, 1, 16) /\ SubSeq(s, 1, 16)[n+1] = c
      BY <1>2a, <3>1
    <3>3. c \in Range(SubSeq(s, 1, 16))
      BY <3>2 DEF Range
    <3> QED
      BY <1>3a, <3>3
  <2>2. \A m \in 0..15 : c \in {s[m+1], t[m+1]} => m = n
    <3> SUFFICES ASSUME NEW m \in 0..15, c = s[m+1] \/ c = t[m+1] PROVE m = n
      OBVIOUS
    <3>1. CASE m \in 0..9
      BY <1>1, <1>6, <3>1
    <3>2. CASE m \in 10..15
      BY <1>1, <1>5, <3>2
    <3> QED
      BY <3>1, <3>2
  <2>3. n \in 0..15 /\ c \in {s[n+1], t[n+1]}
    OBVIOUS
  <2>4. DigitValue[c] = CHOOSE m \in 0..15 : c \in {s[m+1], t[m+1]}
    BY <2>1 DEF DigitValue, s, t
  <2> DEFINE IsWorth(m) == c \in {s[m+1], t[m+1]}
  <2>5. n \in 0..15 /\ IsWorth(n) /\ \A m \in 0..15 : IsWorth(m) => m = n
    BY <2>2, <2>3
  <2>6. DigitValue[c] = CHOOSE m \in 0..15 : IsWorth(m)
    BY <2>4
  <2> HIDE DEF c, IsWorth
  <2>7. (CHOOSE m \in 0..15 : IsWorth(m)) = n
    BY <2>5
  <2> QED
    BY <2>6, <2>7 DEF c
<1> QED
  BY <1>1, <1>3, <1>4, <1>5, <1>7

\* The recursion of DecimalDigits has a solution: a text of digits, not empty.
LEMMA DecimalExists ==
    \A n \in Nat : /\ DecimalDigits[n] \in Seq(DecimalChars) \ {<<>>}
                   /\ DecimalDigits[n] = DecimalOf(DecimalDigits, n)
<1> DEFINE lev == [n \in Nat |-> n]
           D == Seq(DecimalChars) \ {<<>>}
           step == [q \in [Nat -> D] \X Nat |-> DecimalOf(q[1], q[2])]
<1>1. \A n \in Nat : n >= 10 => n \div 10 \in Nat /\ n \div 10 < n /\ n % 10 \in 0..9
  OBVIOUS
<1>2. ASSUME NEW f, NEW n \in Nat, n >= 10 => f[n \div 10] \in D
      PROVE  DecimalOf(f, n) \in D
  <2>1. CASE n < 10
    <3>1. n \in 0..9 /\ Digits[n+1] \in DecimalChars
      BY <2>1, DecimalDigitFacts
    <3>2. <<Digits[n+1]>> \in D
      BY <3>1
    <3> QED
      BY <2>1, <3>2 DEF DecimalOf
  <2>2. CASE n >= 10
    <3>1. Digits[(n % 10) + 1] \in DecimalChars /\ f[n \div 10] \in Seq(DecimalChars)
      BY <1>1, <1>2, <2>2, DecimalDigitFacts
    <3>2. Append(f[n \div 10], Digits[(n % 10) + 1]) \in D
      BY <3>1, AppendProperties
    <3> QED
      BY <2>2, <3>2 DEF DecimalOf
  <2> QED
    BY <2>1, <2>2
<1>3. \A f \in [Nat -> D], n \in Nat : DecimalOf(f, n) \in D /\ step[<<f, n>>] = DecimalOf(f, n)
  <2> HIDE DEF D
  <2>1. \A f \in [Nat -> D], n \in Nat : DecimalOf(f, n) \in D
    BY <1>1, <1>2
  <2> QED
    BY <2>1
<1>4. step \in [[Nat -> D] \X Nat -> D]
  <2> HIDE DEF D
  <2> QED
    BY <1>3
<1>5. ASSUME NEW f \in [Nat -> D], NEW g \in [Nat -> D], NEW n \in Nat,
             \A k \in Nat : lev[k] < lev[n] => f[k] = g[k]
      PROVE  step[<<f, n>>] = step[<<g, n>>]
  <2>1. n >= 10 => f[n \div 10] = g[n \div 10]
    BY <1>1, <1>5
  <2>2. DecimalOf(f, n) = DecimalOf(g, n)
    BY <2>1 DEF DecimalOf
  <2> QED
    BY <1>3, <2>2
<1> HIDE DEF step
<1>6. lev \in [Nat -> Nat] /\ D # {}
  <2>1. <<"0">> \in D
    BY DEF DecimalChars
  <2> QED
    BY <2>1
<1> HIDE DEF D
<1>7. IsRecursion(Nat, lev, D, step)
  BY <1>4, <1>5, <1>6 DEF IsRecursion
<1>8. PICK f : IsSolution(f, Nat, D, step)
  BY <1>7, RecursionExists
<1>9. f = [n \in Nat |-> DecimalOf(f, n)]
  BY <1>3, <1>8 DEF IsSolution
<1>10. DecimalDigits = [n \in Nat |-> DecimalOf(DecimalDigits, n)]
  BY <1>9 DEF DecimalDigits
<1> DEFINE S == {n \in Nat : DecimalDigits[n] \in D}
<1>11. \A n \in Nat : (\A m \in 0..n-1 : m \in S) => n \in S
  <2> SUFFICES ASSUME NEW n \in Nat, \A m \in 0..n-1 : m \in S PROVE n \in S
    OBVIOUS
  <2>1. n >= 10 => n \div 10 \in 0..n-1
    BY <1>1
  <2>2. n >= 10 => DecimalDigits[n \div 10] \in D
    BY <2>1
  <2>3. DecimalOf(DecimalDigits, n) \in D
    BY <1>2, <2>2
  <2> QED
    BY <1>10, <2>3
<1>12. Nat \subseteq S
  <2> HIDE DEF S
  <2> QED
    BY <1>11, StrongInduction
<1> QED
  BY <1>10, <1>12 DEF D

\* f gives the values of the first digits of the text s in this base, and of the whole n.
IsValuation(f, s, base, n) ==
    /\ f \in [0..Len(s) -> Nat]
    /\ f[0] = 0 /\ f[Len(s)] = n
    /\ \A j \in 1..Len(s) : f[j] = f[j-1] * base + DigitValue[s[j]]

\* One more digit.
LEMMA ValuationAppend ==
    ASSUME NEW s \in Seq(DecimalChars), NEW f, NEW n \in Nat, IsValuation(f, s, 10, n),
           NEW c \in DecimalChars, NEW d \in Nat, DigitValue[c] = d
    PROVE  \E g : IsValuation(g, Append(s, c), 10, n * 10 + d)
<1> DEFINE l == Len(s)
           a == Append(s, c)
           v == n * 10 + d
           g == [j \in 0..l+1 |-> IF j <= l THEN f[j] ELSE v]
<1>1. l \in Nat /\ Len(a) = l + 1 /\ a[l+1] = c /\ \A j \in 1..l : a[j] = s[j]
  OBVIOUS
<1>2. /\ f \in [0..l -> Nat] /\ f[0] = 0 /\ f[l] = n
      /\ \A j \in 1..l : f[j] = f[j-1] * 10 + DigitValue[s[j]]
  BY DEF IsValuation
<1>3. v \in Nat
  OBVIOUS
<1> HIDE DEF l, a, v
<1>4. g \in [0..l+1 -> Nat]
  BY <1>1, <1>2, <1>3
<1>5. g[0] = 0 /\ g[l+1] = v /\ \A j \in 0..l : g[j] = f[j]
  BY <1>1, <1>2
<1> HIDE DEF g
<1>6. ASSUME NEW j \in 1..l+1 PROVE g[j] = g[j-1] * 10 + DigitValue[a[j]]
  <2>1. CASE j \in 1..l
    <3>1. j \in 0..l /\ j - 1 \in 0..l
      BY <1>1, <2>1
    <3> QED
      BY <1>1, <1>2, <1>5, <2>1, <3>1
  <2>2. CASE j = l + 1
    <3>1. j - 1 = l /\ l \in 0..l
      BY <1>1, <2>2
    <3> QED
      BY <1>1, <1>2, <1>5, <2>2, <3>1 DEF v
  <2> QED
    BY <1>1, <2>1, <2>2
<1>7. IsValuation(g, a, 10, v)
  BY <1>1, <1>4, <1>5, <1>6 DEF IsValuation
<1> QED
  BY <1>7 DEF a, v

\* What std::to_string writes is worth the number.
LEMMA DecimalValuation == \A n \in Nat : \E f : IsValuation(f, DecimalDigits[n], 10, n)
<1> DEFINE S == {n \in Nat : \E f : IsValuation(f, DecimalDigits[n], 10, n)}
<1>1. ASSUME NEW n \in Nat, \A m \in 0..n-1 : m \in S PROVE n \in S
  <2>0. DecimalDigits[n] = DecimalOf(DecimalDigits, n)
    BY DecimalExists
  <2>1. CASE n < 10
    <3> DEFINE c == Digits[n+1]
    <3>1. c \in DecimalChars /\ DigitValue[c] = n /\ DecimalDigits[n] = <<c>>
      BY <2>0, <2>1, DecimalDigitFacts DEF DecimalOf
    <3> HIDE DEF c
    <3>2. IsValuation([j \in 0..1 |-> IF j = 0 THEN 0 ELSE n], <<c>>, 10, n)
      BY <3>1 DEF IsValuation
    <3> QED
      BY <3>1, <3>2
  <2>2. CASE n >= 10
    <3> DEFINE q == n \div 10
               d == n % 10
               c == Digits[d+1]
    <3>1. q \in 0..n-1 /\ q \in Nat /\ d \in 0..9 /\ q * 10 + d = n
      BY <2>2
    <3> HIDE DEF q, d
    <3>2. c \in DecimalChars /\ DigitValue[c] = d
      BY <3>1, DecimalDigitFacts
    <3>3. DecimalDigits[n] = Append(DecimalDigits[q], c)
      BY <2>0, <2>2 DEF DecimalOf, q, d
    <3> HIDE DEF c
    <3>4. DecimalDigits[q] \in Seq(DecimalChars)
      BY <3>1, DecimalExists
    <3>5. PICK f : IsValuation(f, DecimalDigits[q], 10, q)
      BY <1>1, <3>1
    <3>6. \E g : IsValuation(g, Append(DecimalDigits[q], c), 10, q * 10 + d)
      BY <3>1, <3>2, <3>4, <3>5, ValuationAppend
    <3> QED
      BY <3>1, <3>3, <3>6
  <2> QED
    BY <2>1, <2>2
<1>2. Nat \subseteq S
  <2> HIDE DEF S
  <2> QED
    BY <1>1, StrongInduction
<1> QED
  BY <1>2

\* text is the text s behind its first k-1 characters.
EndsIn(text, k, s) ==
    /\ k \in Nat \ {0} /\ Len(text) = k - 1 + Len(s)
    /\ \A j \in 1..Len(s) : text[k - 1 + j] = s[j]

\* And reading those digits gives the number.
LEMMA ReadsDigits ==
    ASSUME NEW base \in Nat, NEW text, NEW k, NEW s \in Seq(Below(base)), EndsIn(text, k, s),
           NEW n \in Nat, NEW f, IsValuation(f, s, base, n)
    PROVE  ValueFrom(text, k, base) = n
<1> DEFINE l == Len(s)
           e == k - 1 + l
           ends == {j \in k-1..Len(text) : \A i \in k..j : text[i] \in Below(base)}
           Satisfies(u) == u = [j \in k-1..e |-> DigitsValue(u, text, k, base, j)]
           g == [j \in k-1..e |-> f[j - (k - 1)]]
<1>1. /\ l \in Nat /\ k \in Nat \ {0} /\ Len(text) = e /\ e \in Nat /\ k - 1 <= e
      /\ \A j \in 1..l : text[k - 1 + j] = s[j] /\ s[j] \in Below(base)
  BY DEF EndsIn
<1>2. /\ f \in [0..l -> Nat] /\ f[0] = 0 /\ f[l] = n
      /\ \A j \in 1..l : f[j] = f[j-1] * base + DigitValue[s[j]]
  BY DEF IsValuation
<1> HIDE DEF l, e
<1>e. e = k - 1 + l
  BY DEF e
<1>3. \A i \in k..e : /\ i - (k - 1) \in 1..l /\ i - (k - 1) - 1 \in 0..l
                      /\ (i - 1) - (k - 1) = i - (k - 1) - 1
                      /\ i - 1 \in k-1..e /\ text[i] = s[i - (k - 1)]
                      /\ text[i] \in Below(base)
  <2> SUFFICES ASSUME NEW i \in k..e
               PROVE  /\ i - (k - 1) \in 1..l /\ i - (k - 1) - 1 \in 0..l
                      /\ (i - 1) - (k - 1) = i - (k - 1) - 1
                      /\ i - 1 \in k-1..e /\ text[i] = s[i - (k - 1)]
                      /\ text[i] \in Below(base)
    OBVIOUS
  <2>1. PICK j : j = i - (k - 1)
    OBVIOUS
  <2>2. j \in 1..l /\ k - 1 + j = i /\ j - 1 \in 0..l /\ (i - 1) - (k - 1) = j - 1 /\ i - 1 \in k-1..e
    BY <1>1, <1>e, <2>1
  <2>3. text[i] = s[j] /\ text[i] \in Below(base)
    BY <1>1, <2>2
  <2> QED
    BY <2>1, <2>2, <2>3
<1>4. Max(ends) = e
  <2>1. e \in ends
    BY <1>1, <1>3
  <2>2. \A j \in ends : j \in Int /\ j <= e
    BY <1>1
  <2> HIDE DEF ends
  <2> DEFINE IsMax(x) == \A y \in ends : x >= y
  <2>3. e \in ends /\ IsMax(e) /\ \A x \in ends : IsMax(x) => x = e
    BY <1>1, <2>1, <2>2
  <2>4. Max(ends) = CHOOSE x \in ends : IsMax(x)
    BY DEF Max
  <2> HIDE DEF IsMax
  <2> QED
    BY <2>3, <2>4
<1>5. \A j \in k-1..e : g[j] = DigitsValue(g, text, k, base, j)
  <2> SUFFICES ASSUME NEW j \in k-1..e PROVE g[j] = DigitsValue(g, text, k, base, j)
    OBVIOUS
  <2>1. CASE j < k
    <3>1. j = k - 1 /\ j - (k - 1) = 0
      BY <1>1, <2>1
    <3> QED
      BY <1>2, <2>1, <3>1 DEF DigitsValue
  <2>2. CASE j >= k
    <3> DEFINE i == j - (k - 1)
    <3>1. j \in k..e
      BY <1>1, <2>2
    <3>2. i \in 1..l /\ (j - 1) - (k - 1) = i - 1 /\ j - 1 \in k-1..e /\ text[j] = s[i]
      BY <1>3, <3>1
    <3>3. g[j] = f[i] /\ g[j-1] = f[i-1]
      BY <3>2
    <3> HIDE DEF i, g
    <3>4. f[i] = f[i-1] * base + DigitValue[s[i]]
      BY <1>2, <3>2
    <3>5. DigitsValue(g, text, k, base, j) = g[j-1] * base + DigitValue[text[j]]
      BY <1>1, <2>2 DEF DigitsValue
    <3> QED
      BY <3>2, <3>3, <3>4, <3>5
  <2> QED
    BY <1>1, <2>1, <2>2
<1>6. g = [j \in k-1..e |-> DigitsValue(g, text, k, base, j)]
  <2>1. g = [j \in k-1..e |-> g[j]]
    OBVIOUS
  <2> HIDE DEF g
  <2> QED
    BY <1>5, <2>1
<1> DEFINE u == CHOOSE h : Satisfies(h)
<1>7. Satisfies(g)
  BY <1>6
<1>8. Satisfies(u)
  <2> HIDE DEF Satisfies, g
  <2> QED
    BY <1>7
<1>9. ValueFrom(text, k, base) = u[e]
  BY <1>4 DEF ValueFrom
<1> HIDE DEF u, g
<1> DEFINE S == {j \in Nat : j <= l => u[k - 1 + j] = f[j]}
<1>10. 0 \in S
  <2>1. k - 1 + 0 \in k-1..e /\ k - 1 + 0 < k
    BY <1>1
  <2>2. u[k - 1 + 0] = DigitsValue(u, text, k, base, k - 1 + 0)
    BY <1>8, <2>1
  <2> QED
    BY <1>2, <2>1, <2>2 DEF DigitsValue
<1>11. ASSUME NEW j \in Nat, j \in S PROVE j + 1 \in S
  <2> SUFFICES ASSUME j + 1 <= l PROVE u[k - 1 + (j + 1)] = f[j + 1]
    OBVIOUS
  <2> DEFINE i == k - 1 + (j + 1)
  <2>1. i \in k-1..e /\ ~(i < k) /\ i - 1 = k - 1 + j /\ j <= l /\ j + 1 \in 1..l /\ (j + 1) - 1 = j
    BY <1>1, <1>e
  <2>2. u[i] = DigitsValue(u, text, k, base, i)
    BY <1>8, <2>1
  <2>3. text[i] = s[j + 1]
    BY <1>1, <2>1
  <2>4. u[i - 1] = f[j]
    BY <1>11, <2>1
  <2>5. f[j + 1] = f[j] * base + DigitValue[s[j + 1]]
    BY <1>2, <2>1
  <2> HIDE DEF i
  <2>6. u[i] = u[i - 1] * base + DigitValue[text[i]]
    BY <2>1, <2>2 DEF DigitsValue
  <2> QED
    BY <2>3, <2>4, <2>5, <2>6 DEF i
<1>12. l \in S
  <2> HIDE DEF S
  <2> QED
    BY <1>1, <1>10, <1>11, SetInduction
<1> QED
  BY <1>1, <1>2, <1>9, <1>12, <1>e

\* The value of the digits behind a sign, or of the whole text.
LEMMA Str2IntOfDigits ==
    ASSUME NEW text, NEW s \in Seq(DecimalChars), NEW n \in Nat, NEW f, IsValuation(f, s, 10, n),
           n <= TwoTo[LongBits-1], s # <<>>
    PROVE  /\ text # <<>> /\ text[1] = "-" /\ EndsIn(text, 2, s) => StrToL(text, 10) = -n
           /\ text # <<>> /\ text[1] \in DecimalChars /\ EndsIn(text, 1, s) /\ n < TwoTo[LongBits-1] =>
                 StrToL(text, 10) = n
<1> DEFINE L == TwoTo[LongBits-1]
<1>1. L \in Nat
  BY WordFacts
<1>2. ASSUME NEW a \in Nat, NEW b \in Int, a <= b PROVE Min({a, b}) = a
  BY <1>2 DEF Min
<1>3. ASSUME text # <<>>, text[1] = "-", EndsIn(text, 2, s) PROVE StrToL(text, 10) = -n
  <2>1. ValueFrom(text, 2, 10) = n
    BY <1>3, ReadsDigits, DecimalDigitFacts
  <2>2. (L - 1) + 1 = L /\ Min({n, L}) = n
    BY <1>1, <1>2
  <2> HIDE DEF L
  <2>3. StrToL(text, 10) = -Min({ValueFrom(text, 2, 10), (L - 1) + 1})
    BY <1>3 DEF StrToL, Signs, L
  <2> QED
    BY <2>1, <2>2, <2>3
<1>4. ASSUME text # <<>>, text[1] \in DecimalChars, EndsIn(text, 1, s), n < L
      PROVE  StrToL(text, 10) = n
  <2>1. ValueFrom(text, 1, 10) = n
    BY <1>4, ReadsDigits, DecimalDigitFacts
  <2>2. Min({n, L - 1}) = n
    BY <1>1, <1>2, <1>4
  <2>3. text[1] \notin Signs
    BY <1>4 DEF DecimalChars, Signs
  <2> HIDE DEF L
  <2>4. StrToL(text, 10) = Min({ValueFrom(text, 1, 10), L - 1})
    BY <1>4, <2>3 DEF StrToL, L
  <2> QED
    BY <2>1, <2>2, <2>4
<1> QED
  BY <1>3, <1>4

\* What an int's text begins with.
LEMMA Int2StrFacts ==
    ASSUME NEW v \in Int
    PROVE  /\ Int2Str(v) \in Seq(DecimalChars \cup {"-"}) /\ Len(Int2Str(v)) >= 1
           /\ v < 0 => Int2Str(v)[1] = "-" /\ EndsIn(Int2Str(v), 2, DecimalDigits[-v])
           /\ v >= 0 => Int2Str(v)[1] \in DecimalChars /\ EndsIn(Int2Str(v), 1, DecimalDigits[v])
<1> DEFINE C == DecimalChars \cup {"-"}
<1>1. CASE v < 0
  <2> DEFINE s == DecimalDigits[-v]
             t == <<"-">> \o s
  <2>1. s \in Seq(DecimalChars)
    BY <1>1, DecimalExists
  <2>2. Int2Str(v) = t
    BY <1>1 DEF Int2Str
  <2> HIDE DEF s
  <2>3. s \in Seq(C) /\ <<"-">> \in Seq(C)
    BY <2>1
  <2> HIDE DEF C
  <2>4. t \in Seq(C) /\ Len(t) = 1 + Len(s) /\ t[1] = "-" /\ \A j \in 1..Len(s) : t[1 + j] = s[j]
    BY <2>3
  <2> HIDE DEF t
  <2>5. 2 - 1 = 1 /\ Len(s) \in Nat
    BY <2>1
  <2>6. EndsIn(t, 2, s)
    BY <2>4, <2>5 DEF EndsIn
  <2> QED
    BY <1>1, <2>2, <2>4, <2>5, <2>6 DEF s, C
<1>2. CASE v >= 0
  <2> DEFINE s == DecimalDigits[v]
  <2>1. s \in Seq(DecimalChars) /\ s # <<>>
    BY <1>2, DecimalExists
  <2>2. Int2Str(v) = s
    BY <1>2 DEF Int2Str
  <2> HIDE DEF s
  <2>3. s \in Seq(C) /\ Len(s) >= 1 /\ s[1] \in DecimalChars /\ Len(s) \in Nat
    BY <2>1
  <2>4. 1 - 1 = 0 /\ \A j \in 1..Len(s) : 0 + j = j
    OBVIOUS
  <2>5. EndsIn(s, 1, s)
    BY <2>3, <2>4 DEF EndsIn
  <2> QED
    BY <1>2, <2>2, <2>3, <2>5 DEF s
<1> QED
  BY <1>1, <1>2

\* An int survives the way into text and back: std::to_string, then strtol and
\* the truncation.
LEMMA Int2Str2Int ==
    ASSUME NEW v \in Word
    PROVE  Str2Int(Int2Str(v)) = v
<1> DEFINE h == TwoTo[Bits - 1]
           L == TwoTo[LongBits - 1]
           t == Int2Str(v)
<1>1. h \in Nat /\ L \in Nat /\ h <= L /\ v \in -h..h - 1
  BY WordFacts
<1> HIDE DEF h, L
<1>2. v \in Int /\ t # <<>>
  <2>1. v \in Int
    BY <1>1
  <2>2. Len(t) >= 1 /\ t \in Seq(DecimalChars \cup {"-"})
    BY <2>1, Int2StrFacts
  <2> HIDE DEF t
  <2> QED
    BY <2>1, <2>2
<1>3. CASE v < 0
  <2>1. -v \in Nat /\ -v <= L /\ -(-v) = v
    BY <1>1, <1>3
  <2>2. DecimalDigits[-v] \in Seq(DecimalChars) /\ DecimalDigits[-v] # <<>>
    BY <2>1, DecimalExists
  <2>3. PICK f : IsValuation(f, DecimalDigits[-v], 10, -v)
    BY <2>1, DecimalValuation
  <2>4. t[1] = "-" /\ EndsIn(t, 2, DecimalDigits[-v])
    BY <1>2, <1>3, Int2StrFacts
  <2>5. StrToL(t, 10) = -(-v)
    BY <1>2, <2>1, <2>2, <2>3, <2>4, Str2IntOfDigits DEF L
  <2> QED
    BY <2>1, <2>5, WrapKeeps DEF Str2Int
<1>4. CASE v >= 0
  <2>1. v \in Nat /\ v <= L /\ v < L
    BY <1>1, <1>4
  <2>2. DecimalDigits[v] \in Seq(DecimalChars) /\ DecimalDigits[v] # <<>>
    BY <2>1, DecimalExists
  <2>3. PICK f : IsValuation(f, DecimalDigits[v], 10, v)
    BY <2>1, DecimalValuation
  <2>4. t[1] \in DecimalChars /\ EndsIn(t, 1, DecimalDigits[v])
    BY <1>2, <1>4, Int2StrFacts
  <2>5. StrToL(t, 10) = v
    BY <1>2, <2>1, <2>2, <2>3, <2>4, Str2IntOfDigits DEF L
  <2> QED
    BY <2>5, WrapKeeps DEF Str2Int
<1> QED
  BY <1>2, <1>3, <1>4

\* The digits of every base are digits of base 16, worth less than 16; only
\* decimal digits are digits of base 8.
LEMMA DigitRanges ==
    /\ Below(8) \subseteq DecimalChars /\ DecimalChars \subseteq Below(16) /\ "0" \in Below(8)
    /\ \A c \in Below(16) : DigitValue[c] \in 0..15
<1> DEFINE s == Digits \o HexLetters
           t == Digits \o HexCapitals
<1>1. /\ Len(s) = 16 /\ DOMAIN s = 1..16
      /\ \A n \in 1..8 : s[n] = Digits[n] /\ Digits[n] \in DecimalChars
      /\ \A n \in 11..16 : t[n] = HexCapitals[n - 10]
  BY DEF Digits, HexLetters, HexCapitals, DecimalChars
<1>2. DOMAIN SubSeq(s, 1, 8) = 1..8 /\ \A n \in 1..8 : SubSeq(s, 1, 8)[n] = s[n]
  BY DEF Digits, HexLetters
<1>3. DOMAIN SubSeq(s, 1, 16) = 1..16 /\ \A n \in 1..16 : SubSeq(s, 1, 16)[n] = s[n]
  BY DEF Digits, HexLetters
<1>3a. DOMAIN SubSeq(s, 1, 10) = 1..10 /\ \A n \in 1..10 : SubSeq(s, 1, 10)[n] = s[n]
  BY DEF Digits, HexLetters
<1>4. DOMAIN HexCapitals = 1..6
  BY DEF HexCapitals
<1>5. Below(16) = Range(SubSeq(s, 1, 16)) \cup Range(HexCapitals)
  BY DEF Below
<1>6. Below(8) = Range(SubSeq(s, 1, 8)) /\ Below(10) = Range(SubSeq(s, 1, 10))
  BY DEF Below
<1>7. DigitValue = [c \in Below(16) |-> CHOOSE n \in 0..15 : c \in {s[n+1], t[n+1]}]
  BY DEF DigitValue
<1> HIDE DEF s, t
<1>8. Below(8) \subseteq DecimalChars
  BY <1>1, <1>2, <1>6 DEF Range
<1>8a. "0" \in Below(8)
  <2>1. s[1] = "0" /\ 1 \in 1..8
    BY <1>1 DEF Digits
  <2> QED
    BY <1>2, <1>6, <2>1 DEF Range
<1>9. DecimalChars \subseteq Below(16)
  BY <1>3, <1>3a, <1>5, <1>6, DecimalDigitFacts DEF Range
<1>10. ASSUME NEW c \in Below(16) PROVE DigitValue[c] \in 0..15
  <2> DEFINE IsWorth(n) == c \in {s[n+1], t[n+1]}
  <2>1. \E n \in 0..15 : IsWorth(n)
    <3>1. CASE c \in Range(SubSeq(s, 1, 16))
      <4>1. PICK k \in 1..16 : c = s[k]
        BY <1>3, <3>1 DEF Range
      <4>2. k - 1 \in 0..15 /\ (k - 1) + 1 = k
        OBVIOUS
      <4>3. IsWorth(k - 1)
        BY <4>1, <4>2
      <4> QED
        BY <4>2, <4>3
    <3>2. CASE c \in Range(HexCapitals)
      <4>1. PICK k \in 1..6 : c = HexCapitals[k]
        BY <1>4, <3>2 DEF Range
      <4>2. k + 9 \in 0..15 /\ k + 10 \in 11..16 /\ (k + 10) - 10 = k /\ (k + 9) + 1 = k + 10
        OBVIOUS
      <4>3. t[k + 10] = c
        BY <1>1, <4>1, <4>2
      <4>4. IsWorth(k + 9)
        BY <4>2, <4>3
      <4> QED
        BY <4>2, <4>4
    <3> QED
      BY <1>5, <3>1, <3>2
  <2>2. DigitValue[c] = CHOOSE n \in 0..15 : IsWorth(n)
    BY <1>7
  <2> HIDE DEF IsWorth
  <2>3. (CHOOSE n \in 0..15 : IsWorth(n)) \in 0..15
    BY <2>1
  <2> QED
    BY <2>2, <2>3
<1> QED
  BY <1>8, <1>8a, <1>9, <1>10

\* A truncated number is an int.
LEMMA WrapIsWord ==
    ASSUME NEW x \in Int
    PROVE  Wrap(x) \in Word
<1> DEFINE h == TwoTo[Bits - 1]
<1>1. h \in Nat \ {0} /\ Word = -h..h - 1 /\ Smallest = -h /\ Modulus = 2 * h
  BY WordFacts DEF Smallest
<1> HIDE DEF h
<1>2. x - (-h) \in Int /\ 2 * h \in Nat \ {0}
  BY <1>1
<1>3. ASSUME NEW y \in Int, NEW M \in Nat \ {0} PROVE y % M \in 0..M-1
  OBVIOUS
<1>4. (x - (-h)) % (2 * h) \in 0..2 * h - 1
  BY <1>2, <1>3
<1>5. PICK r : r = (x - (-h)) % (2 * h)
  OBVIOUS
<1>6. Wrap(x) = r + (-h)
  BY <1>1, <1>5 DEF Wrap
<1> QED
  BY <1>1, <1>4, <1>5, <1>6

\* Only the number 0 is written with a 0 in front, and with that alone.
LEMMA NoLeadingZero ==
    \A n \in Nat : DecimalDigits[n][1] = "0" => Len(DecimalDigits[n]) = 1
<1> DEFINE S == {n \in Nat : /\ DecimalDigits[n][1] = "0" => n = 0
                             /\ n = 0 => Len(DecimalDigits[n]) = 1}
<1>1. \A n \in Nat : (\A m \in 0..n-1 : m \in S) => n \in S
  <2> SUFFICES ASSUME NEW n \in Nat, \A m \in 0..n-1 : m \in S PROVE n \in S
    OBVIOUS
  <2>0. DecimalDigits[n] = DecimalOf(DecimalDigits, n)
    BY DecimalExists
  <2>1. CASE n < 10
    <3>1. n \in 0..9 /\ DecimalDigits[n] = <<Digits[n+1]>>
      BY <2>0, <2>1 DEF DecimalOf
    <3>2. Len(DecimalDigits[n]) = 1 /\ DecimalDigits[n][1] = Digits[n+1]
      BY <3>1
    <3>3. DigitValue[Digits[n+1]] = n /\ DigitValue[Digits[1]] = 0 /\ Digits[1] = "0"
      <4>1. 0 \in 0..9 /\ 0 + 1 = 1
        OBVIOUS
      <4>2. \A m \in 0..9 : DigitValue[Digits[m+1]] = m
        BY DecimalDigitFacts
      <4> QED
        BY <3>1, <4>1, <4>2 DEF Digits
    <3> QED
      BY <3>2, <3>3
  <2>2. CASE n >= 10
    <3> DEFINE q == n \div 10
               d == Digits[(n % 10) + 1]
    <3>1. q \in 0..n-1 /\ q # 0 /\ n % 10 \in 0..9
      BY <2>2
    <3>2. DecimalDigits[n] = Append(DecimalDigits[q], d)
      <4>1. ~(n < 10)
        BY <2>2
      <4> QED
        BY <2>0, <4>1 DEF DecimalOf
    <3> HIDE DEF q, d
    <3>3. DecimalDigits[q] \in Seq(DecimalChars) /\ DecimalDigits[q] # <<>>
      BY <3>1, DecimalExists
    <3>4. d \in DecimalChars
      BY <3>1, DecimalDigitFacts DEF d
    <3>5. DecimalDigits[n][1] = DecimalDigits[q][1]
      BY <3>2, <3>3, <3>4
    <3>6. DecimalDigits[q][1] # "0"
      BY <3>1
    <3> QED
      BY <2>2, <3>5, <3>6
  <2> QED
    BY <2>1, <2>2
<1>2. Nat \subseteq S
  <2> HIDE DEF S
  <2> QED
    BY <1>1, StrongInduction
<1> QED
  BY <1>2

\* std::to_string writes what __is_int_ accepts.
LEMMA Int2StrIsInt ==
    ASSUME NEW v \in Int
    PROVE  IsInt(Int2Str(v))
<1> DEFINE text == Int2Str(v)
<1>1. ASSUME NEW k, NEW n \in Nat, EndsIn(text, k, DecimalDigits[n])
      PROVE  IsNumber(text, k)
  <2>1. PICK s : s = DecimalDigits[n]
    OBVIOUS
  <2>2. s \in Seq(DecimalChars) /\ s # <<>> /\ (s[1] = "0" => Len(s) = 1)
    BY <2>1, DecimalExists, NoLeadingZero
  <2> HIDE DEF text
  <2>3. k \in Nat \ {0} /\ Len(text) = k - 1 + Len(s) /\ \A j \in 1..Len(s) : text[k - 1 + j] = s[j]
    BY <1>1, <2>1 DEF EndsIn
  <2>4. PICK l \in Nat : l = Len(s)
    BY <2>2
  <2>5. l >= 1 /\ k <= Len(text) /\ Len(text) \in Nat /\ k - 1 + 1 = k
    BY <2>2, <2>3, <2>4
  <2>6. text[k] = s[1]
    BY <2>3, <2>4, <2>5
  <2>7. \A j \in k..Len(text) : text[j] \in Below(10)
    <3> SUFFICES ASSUME NEW j \in k..Len(text) PROVE text[j] \in DecimalChars
      BY DecimalDigitFacts
    <3>1. PICK i : i = j - (k - 1)
      OBVIOUS
    <3>2. i \in 1..Len(s) /\ k - 1 + i = j
      BY <2>3, <2>4, <3>1
    <3> QED
      BY <2>2, <2>3, <3>2
  <2>8. text[k] = "0" => k = Len(text)
    BY <2>2, <2>3, <2>5, <2>6
  <2> QED
    BY <2>5, <2>7, <2>8 DEF IsNumber, AllFrom
<1>2. text # <<>>
  <2>1. text \in Seq(DecimalChars \cup {"-"}) /\ Len(text) >= 1
    BY Int2StrFacts
  <2> HIDE DEF text
  <2> QED
    BY <2>1
<1>3. v < 0 => text[1] = "-" /\ EndsIn(text, 2, DecimalDigits[-v]) /\ -v \in Nat
  BY Int2StrFacts
<1>4. v >= 0 => text[1] \in DecimalChars /\ EndsIn(text, 1, DecimalDigits[v]) /\ v \in Nat
  BY Int2StrFacts
<1> HIDE DEF text
<1>5. v < 0 => IsNumber(text, 2) /\ text[1] \in Signs
  BY <1>1, <1>3 DEF Signs
<1>6. v >= 0 => IsNumber(text, 1) /\ text[1] \notin Signs
  BY <1>1, <1>4 DEF Signs, DecimalChars
<1>7. IsInt(text)
  BY <1>2, <1>5, <1>6 DEF IsInt
<1> QED
  BY <1>7 DEF text
=============================================================================
