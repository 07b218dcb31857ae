------------------------------ MODULE Registers ------------------------------
(***************************************************************************)
(* GetTempRegister and GetRegisterOf (src/src/riscv/_rv64i.cpp): the order *)
(* in which temporary registers are to be taken.  A register is a pair of  *)
(* its letter and its number.                                              *)
(***************************************************************************)
EXTENDS Integers, FiniteSets

\* The registers whose name the assertions let through.
TempRegisters == ({"t"} \X (0..6)) \cup ({"a"} \X (0..7))

\* The next register, t0 to t6, a0 to a7 and round again.
NextRegister(reg) ==
    CASE reg[1] = "t" /\ reg[2] < 6 -> <<"t", reg[2] + 1>>
      [] reg = <<"t", 6>> -> <<"a", 0>>
      [] reg[1] = "a" /\ reg[2] < 7 -> <<"a", reg[2] + 1>>
      [] reg = <<"a", 7>> -> <<"t", 0>>

\* With the default argument it is always a0, which is not even asked for.
GetTempRegister(reg, default_ret) ==
    IF default_ret THEN <<"a", 0>> ELSE NextRegister(reg)

\* The constant 0 has a register of its own; others have none.
GetRegisterOf(val) == IF val = "0" THEN <<"x", 0>> ELSE <<"__rand_reg__?", 0>>

\* The register that n calls lead to from t0.
AfterCalls[n \in Nat] ==
    IF n = 0 THEN <<"t", 0>> ELSE GetTempRegister(AfterCalls[n-1], FALSE)

\* No register is given twice before all fifteen have been given, none is
\* refused by an assertion, and the zero register is not among them.
ASSUME RegistersAreCycled ==
    LET period == Cardinality(TempRegisters)
    IN  /\ {AfterCalls[n] : n \in 0..period-1} = TempRegisters
        /\ AfterCalls[period] = AfterCalls[0]
        /\ GetRegisterOf("0") \notin TempRegisters
=============================================================================
