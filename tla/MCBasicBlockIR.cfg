\* The constructor of BasicBlockIR on blocks of one statement.
CONSTANTS
    Bits = 3
    Token <- MCToken
    Num <- MCNum
    Opt <- TableOpt
    Prio <- TablePrio
    BinaryPrio <- FirstPrio
    MidExprs = {}
    I32 <- Word
    IntOf <- MCIntOf
    OptOutcomes <- I32OptRes
    Nodes <- MCNodes
    NamesVariable <- MCNamesVariable
    Levels <- MCLevels
    BlockContents <- MCBlockContents
SPECIFICATION Spec
INVARIANTS
    BlockTypeOK
    QueueIsInfix
    FoldMeansExpression
PROPERTY ConstantReturnIsDefined
