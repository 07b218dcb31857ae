\* yylex on short files, with an int of 6 and a long of 8 bits.
CONSTANTS
    Chars <- MCChars
    Inputs <- MCInputs
    Bits = 6
    LongBits = 8
SPECIFICATION Spec
INVARIANTS
    LexerTypeOK
    TokensCoverCode
    EveryCharacterHasRule
    ForeignByteEnds
    KeywordsAreWhole
    LiteralsSurvive
    IsIntTakesNumbers
