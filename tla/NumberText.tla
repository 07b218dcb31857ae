------------------------------ MODULE NumberText ------------------------------
(***************************************************************************)
(* Numbers as texts, sequences of characters: the test __is_int_           *)
(* (src/src/_ir.cpp) and the conversions of the C and C++ libraries that   *)
(* the lexer and the folder use.  An int is Bits wide, a long LongBits.    *)
(***************************************************************************)
EXTENDS I32, SequencesExt

CONSTANT LongBits

ASSUME LongBitsAssumption == LongBits \in Nat /\ LongBits >= Bits

Digits == <<"0", "1", "2", "3", "4", "5", "6", "7", "8", "9">>
HexLetters == <<"a", "b", "c", "d", "e", "f">>
HexCapitals == <<"A", "B", "C", "D", "E", "F">>

Below(base) == Range(SubSeq(Digits \o HexLetters, 1, base))
                \cup IF base = 16 THEN Range(HexCapitals) ELSE {}

DigitValue == [c \in Below(16) |->
    CHOOSE n \in 0..15 : c \in {(Digits \o HexLetters)[n+1], (Digits \o HexCapitals)[n+1]}]

Signs == {"-", "+"}

AllFrom(text, k, chars) ==
    k <= Len(text) /\ \A j \in k..Len(text) : text[j] \in chars

\* Mutant of IsNumber: a 0 may begin a decimal number.
IsNumberDecimal(text, k) ==
    /\ k <= Len(text)
    /\ \/ AllFrom(text, k, Below(10))
       \/ /\ text[k] = "0" /\ k < Len(text)
          /\ \/ text[k+1] \in {"x", "X"} /\ AllFrom(text, k + 2, Below(16))
             \/ text[k+1] \in {"b", "B"} /\ AllFrom(text, k + 2, Below(2))

\* The part of __is_int_ behind the sign.
IsNumber(text, k) ==
    /\ k <= Len(text)
    /\ \/ text[k] # "0" /\ AllFrom(text, k, Below(10))
       \/ text[k] = "0" /\ k = Len(text)
       \/ /\ text[k] = "0" /\ k < Len(text)
          /\ \/ text[k+1] \in {"x", "X"} /\ AllFrom(text, k + 2, Below(16))
             \/ text[k+1] \in {"b", "B"} /\ AllFrom(text, k + 2, Below(2))
             \/ text[k+1] \in Below(8) /\ AllFrom(text, k + 1, Below(8))

\* __is_int_.  The text "" gives false: begin() is the terminating zero.
IsInt(text) == IsNumber(text, IF text # <<>> /\ text[1] \in Signs THEN 2 ELSE 1)

\* The value of the digits from the k-th to the j-th, from that of the digits
\* before the j-th.
DigitsValue(Upto, text, k, base, j) ==
    IF j < k THEN 0 ELSE Upto[j-1] * base + DigitValue[text[j]]

\* The value of the longest run of digits that begins at k.
ValueFrom(text, k, base) ==
    LET ends == {j \in k-1..Len(text) : \A i \in k..j : text[i] \in Below(base)}
        Upto[j \in k-1..Max(ends)] == DigitsValue(Upto, text, k, base, j)
    IN  Upto[Max(ends)]

\* strtol, which stops at the ends of a long.  In base 0 the text tells the base.
StrToL(text, base) ==
    LET first == IF text # <<>> /\ text[1] \in Signs THEN 2 ELSE 1
        IsHex == first + 2 <= Len(text) /\ text[first] = "0"
                 /\ text[first+1] \in {"x", "X"} /\ text[first+2] \in Below(16)
        IsOctal == first <= Len(text) /\ text[first] = "0"
        magnitude == CASE base = 0 /\ IsHex -> ValueFrom(text, first+2, 16)
                       [] base = 0 /\ ~IsHex /\ IsOctal -> ValueFrom(text, first, 8)
                       [] OTHER -> ValueFrom(text, first, 10)
        largest == TwoTo[LongBits-1] - 1
    IN  IF first = 2 /\ text[1] = "-" THEN -Min({magnitude, largest + 1})
        ELSE Min({magnitude, largest})

\* __str2int_, whose long is truncated to the int it is assigned to.
Str2Int(text) == Wrap(StrToL(text, 10))

\* The decimal digits of a number, from those of a tenth of it.
DecimalOf(Of, n) ==
    IF n < 10 THEN <<Digits[n+1]>> ELSE Append(Of[n \div 10], Digits[(n % 10) + 1])

DecimalDigits[n \in Nat] == DecimalOf(DecimalDigits, n)

\* __int2str_, std::to_string.
Int2Str(n) == IF n < 0 THEN <<"-">> \o DecimalDigits[-n] ELSE DecimalDigits[n]
=============================================================================
