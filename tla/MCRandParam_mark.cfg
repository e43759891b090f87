SPECIFICATION Spec
CONSTANTS
    MaxByte = 4
    Width = 2
    Step = 1
    InputLength = 6
    Inputs <- MCInputs
    Signatures <- MCSignatures
INVARIANTS
    StringsAsDocumented
\* The wrapped function has been called, or gofuzz has panicked.
CHECK_DEADLOCK FALSE
