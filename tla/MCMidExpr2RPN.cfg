\* midExpr2RPN on every token queue of at most MaxLen tokens, and on every infix
\* expression of at most MaxInfix.
CONSTANTS
    MaxLen = 4
    MaxInfix = 6
    Token <- MCToken
    Num <- MCNum
    Opt <- MCOpt
    Prio <- MCPrio
    MidExprs <- MCMidExprs
SPECIFICATION ConvertSpec
INVARIANTS
    ConvertTypeOK
    NothingLost
    OperandOrder
    ConvertInv
    ResultIsRPN
PROPERTY ConvertEnds
