\* Folding by the priorities that the table's comments give to binary operators.
CONSTANTS
    Bits = 5
    Operands = {"2", "3"}
    Operators <- SevenEntries
    ExprLen = 5
    Token <- MCToken
    Num <- MCNum
    Opt <- TableOpt
    Prio <- TablePrio
    BinaryPrio <- FirstPrio
    MidExprs <- TraverseQueues
    I32 <- Word
    IntOf <- MCIntOf
    OptOutcomes <- I32OptRes
SPECIFICATION EvalSpec
PROPERTY FoldsByBinaryPriority
