\* yyparse on every program of at most MaxTokens tokens, and collect on the block of
\* each that is accepted.
CONSTANTS
    Bits = 6
    LongBits = 8
    Classes <- MCClasses
    LiteralAt <- MCLiteralAt
    MaxTokens = 12
    MaxDepth = 12
SPECIFICATION CollectSpec
INVARIANTS
    ParserTypeOK
    AcceptedExactly
    StackFits
    TreesSpellProgram
    ChainsAreFlat
    DumpReadsBack
    DumpIsHeader
    NoStatementIsCompiled
    ItemsHaveOneOwner
    CollectNeedsEmptyBlock
PROPERTY ParserEnds
