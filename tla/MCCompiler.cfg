\* The passes behind the parser, called in any order.
CONSTANTS
    Bits = 3
    LongBits = 4
    Token <- MCToken
    Num <- MCNum
    Opt <- TableOpt
    Prio <- TablePrio
    BinaryPrio <- FirstPrio
    MidExprs = {}
    I32 <- Word
    IntOf <- MCIntOf
    OptOutcomes <- I32OptRes
    Nodes <- MCProgramNodes
    NamesVariable <- MCNamesVariable
    Levels <- MCLevels
    BlockContents <- MCPrograms
    MaxCalls = 7
SPECIFICATION CompilerSpec
INVARIANTS
    InOrderIsSafe
    OutputsAgree
