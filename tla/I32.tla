--------------------------------- MODULE I32 ---------------------------------
(***************************************************************************)
(* __i32_opt_res_ (src/src/_ir.cpp): the operators of the constant folder  *)
(* on the type int, here Bits wide.  What C++ leaves undefined is what the *)
(* machines the compiler is built for do: + - * << wrap, a shift uses its  *)
(* count modulo the width, and the one quotient that does not fit is       *)
(* either a signal (x86) or wraps (ARM).                                   *)
(***************************************************************************)
EXTENDS Integers, FiniteSetsExt

CONSTANT Bits

ASSUME BitsAssumption == Bits \in Nat \ {0, 1}

\* TwoTo[n] is 2^n, by its recursion.
TwoTo[n \in Nat] == IF n = 0 THEN 1 ELSE 2 * TwoTo[n-1]

Smallest == -TwoTo[Bits-1]
Word == Smallest..(-Smallest - 1)

Modulus == TwoTo[Bits]
Wrap(x) == ((x - Smallest) % Modulus) + Smallest

\* A comparison or logical operator gives 0 or 1.
Truth(b) == IF b THEN 1 ELSE 0

\* C++ division rounds towards zero, \div rounds down.
Quotient(l, r) ==
    LET Abs(x) == IF x < 0 THEN -x ELSE x
        q == Abs(l) \div Abs(r)
    IN  IF (l < 0) = (r < 0) THEN q ELSE -q

Remainder(l, r) == l - r * Quotient(l, r)

BitOf(x, i) == (x \div 2^i) % 2

Xor(l, r) ==
    LET Place(i) == IF BitOf(l, i) # BitOf(r, i) THEN 2^i ELSE 0
    IN  Wrap(MapThenSumSet(Place, 0..Bits-1))

\* The operators that always give a value; one that no case knows gives 0.
Value(l, o, r) ==
    CASE o = "!="         -> Truth(l # r)
      [] o \in {"==", "!"} -> Truth(l = r)
      [] o = ">="         -> Truth(l >= r)
      [] o = "<="         -> Truth(l <= r)
      [] o = ">"          -> Truth(l > r)
      [] o = "<"          -> Truth(l < r)
      [] o = "&&"         -> Truth(l # 0 /\ r # 0)
      [] o = "||"         -> Truth(l # 0 \/ r # 0)
      [] o = "^"          -> Xor(l, r)
      [] o = "<<"         -> Wrap(l * 2^(r % Bits))
      [] o = ">>"         -> l \div 2^(r % Bits)
      [] o = "+"          -> Wrap(l + r)
      [] o = "-"          -> Wrap(l - r)
      [] o = "*"          -> Wrap(l * r)
      [] OTHER            -> 0

\* Division by zero is assert(0).
Division(l, o, r) ==
    LET res == IF o = "/" THEN Quotient(l, r) ELSE Remainder(l, r)
    IN  IF r = 0 THEN {<<"abort", 0>>}
        ELSE {<<"val", Wrap(res)>>}
             \cup (IF l = Smallest /\ r = -1 THEN {<<"trap", 0>>} ELSE {})

\* What i32_opt_res may come to, as pairs of a kind and a value.
I32OptRes(l, o, r) ==
    IF o \in {"/", "%"} THEN Division(l, o, r) ELSE {<<"val", Value(l, o, r)>>}
=============================================================================
