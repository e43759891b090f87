\* Two functions, the second with a rich signature; no or an absolute -fuzzdir.
SPECIFICATION Spec
CONSTANTS
    NumFuncs = 2
    RichFuncs = {2}
    Fuzzdirs = {"testdata", "absolute"}
    CorpusKinds = {"none", "nomatch", "good", "bad"}
    CrashersKinds = {"bad"}
\* fzgo exits.
CHECK_DEADLOCK FALSE
INVARIANTS
    TypeOK
    RegressionsReported
    NoFalseAlarm
    TestInPlace
    CleanBetween
