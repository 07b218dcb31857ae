\* Folding expressions of up to seven tokens over operators of seven
\* different entries: chains of three operators in every order of priorities.
CONSTANTS
    Bits = 5
    Operands = {"2", "3"}
    Operators <- SevenEntries
    ExprLen = 7
    Token <- MCToken
    Num <- MCNum
    Opt <- TableOpt
    Prio <- TablePrio
    BinaryPrio <- FirstPrio
    MidExprs <- TraverseQueues
    I32 <- Word
    IntOf <- MCIntOf
    OptOutcomes <- I32OptRes
SPECIFICATION EvalSpec
PROPERTY FoldsByTable
