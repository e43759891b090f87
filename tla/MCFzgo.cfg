SPECIFICATION Spec
CONSTANTS
    Texts <- MCTexts
    Commands = {"none", "help", "-help", "build", "test"}
    ArgLists <- MCArgLists
    MaxFunctions = 2
    Short = 3
    Long = 4
INVARIANTS
    TypeOK
    ReadAsMeant
    RightPackages
    GoNeverFuzzes
    ArgErrDoesNothing
    InstrumentedFirst
    SuccessIsEarned
PROPERTY
    KeepsParts
\* fzgoMain returns.
CHECK_DEADLOCK FALSE
