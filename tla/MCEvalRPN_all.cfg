\* Folding expressions of up to five tokens over every operator of the lexer.
CONSTANTS
    Bits = 4
    Operands = {"0", "3", "var"}
    Operators <- LexerOpt
    ExprLen = 5
    Token <- MCToken
    Num <- MCNum
    Opt <- TableOpt
    Prio <- TablePrio
    BinaryPrio <- FirstPrio
    MidExprs <- TraverseQueues
    I32 <- Word
    IntOf <- MCIntOf
    OptOutcomes <- I32OptRes
SPECIFICATION EvalSpec
INVARIANTS
    EvalTypeOK
    OneValueLeft
    NoUnderflow
    MissingOperandNeverFolds
PROPERTY FoldsByTable
