--------------------------- MODULE CompilerOutputs ---------------------------
(***************************************************************************)
(* What the outputs of the passes say of the program, told with the        *)
(* meaning of its expression.                                              *)
(***************************************************************************)
EXTENDS Compiler, ExprMeaning

\* The values of an int, as the folder has them, are those of Bits bits.
ASSUME IntsAssumption == I32 \subseteq Word

\* Whatever has been printed is about one program: the assembler loads what the
\* IR returns, under the same name, and that is the value of the expression of
\* the return statement, sign included.
OutputsAgree ==
    /\ OutputsMatch
    /\ \A p \in printed :
        /\ p[1] = "IR" => Str2Int(SubSeq(p[2].text, 4, Len(p[2].text))) = instructions[1][2]
        /\ p[1] = "asm" => <<"val", Str2Int(p[2].text)>> \in MeaningOf(block.stmt.expr)
=============================================================================
