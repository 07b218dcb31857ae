\* The Makefile's target outir, on a program that parses.
CONSTANTS
    Sources <- OneSources
    Names <- OneNames
    Overread <- MCOverread
    Accepted <- MCAccepted
    Locked = {}
SPECIFICATION Spec
INVARIANT SuccessMeansOutput
