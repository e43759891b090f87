\* One function, and a -fuzzdir relative to where fzgo was started.
SPECIFICATION Spec
CONSTANTS
    NumFuncs = 1
    RichFuncs = {}
    Fuzzdirs = {"relative"}
    CorpusKinds = {"none", "good"}
    CrashersKinds = {"none"}
\* fzgo exits.
CHECK_DEADLOCK FALSE
INVARIANTS
    NoFalseAlarm
