\* The compiler called any number of times over five files.
CONSTANTS
    Sources <- MCSources
    Names <- MCNames
    Overread <- MCOverread
    Accepted <- MCAccepted
    Locked <- MCLocked
SPECIFICATION Spec
INVARIANTS
    DriverTypeOK
    FailureKeepsFiles
    SuccessMeansDump
    KilledHarmsOutputOnly
