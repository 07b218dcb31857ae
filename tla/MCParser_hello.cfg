\* yyparse on the beginning of test/hello.sysy.
CONSTANTS
    Bits = 6
    LongBits = 8
    Classes <- MCClasses
    LiteralAt <- MCLiteralAt
    MaxTokens = 9
    MaxDepth = 100
SPECIFICATION Spec
INVARIANT HelloParses
