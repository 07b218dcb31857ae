\* __is_int_ on the same files: what it accepts need not be an int.
CONSTANTS
    Chars <- MCChars
    Inputs <- MCInputs
    Bits = 6
    LongBits = 8
SPECIFICATION Spec
INVARIANT IsIntInBounds
